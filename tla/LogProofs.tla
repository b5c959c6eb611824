----------------------------- MODULE LogProofs -----------------------------
(***************************************************************************)
(* Type correctness of Log, for every value of its constants.              *)
(*                                                                         *)
(* TypeOK is not inductive: that the tail of the chain exists while the    *)
(* log is open, and that a thread that is to write has a payload to write, *)
(* are facts about several variables.  Sane states them, and TypeOK /\     *)
(* Sane is inductive.                                                      *)
(***************************************************************************)
EXTENDS Log, SequenceTheorems, FiniteSetTheorems, TLAPS

Sane ==
    /\ status \in {"scanning", "up"} => segs # <<>>
    /\ status = "scanning" => next[Active] >= Active
    /\ \A t \in Threads : op[t].pc # "idle" => status = "up"
    /\ \A t \in Threads : op[t].pc \in {"write", "flush", "account"} => op[t].val \in Values
    /\ \A t \in Threads : op[t].val \in Values => op[t].off < MaxOffset
    /\ \A r \in Readers : /\ rd[r].pc \in {"open", "scan"} => rd[r].i \in DOMAIN rd[r].snap
                          /\ rd[r].cur >= 1

TypeInv == TypeOK /\ Sane

-----------------------------------------------------------------------------
(* What the operators of SegmentFile return.                               *)

\* The end of a file is a number of bytes (the position Segment keeps).
LEMMA FileEndType ==
    ASSUME NEW s \in Seq(RecordType)
    PROVE  FileEnd(s) \in Nat
<1>1. CASE s = <<>>
  BY <1>1 DEF FileEnd
<1>2. CASE s # <<>>
  <2>1. s[Len(s)] \in RecordType
    BY <1>2, EmptySeq, ElementOfSeq
  <2>2. s[Len(s)].pos \in Nat /\ s[Len(s)].val \in Values
    BY <2>1 DEF RecordType
  <2>3. Size[s[Len(s)].val] \in Nat
    BY <2>2, SizeAssumption
  <2> QED
    BY <1>2, <2>2, <2>3 DEF FileEnd, RecordEnd
<1> QED
  BY <1>1, <1>2

\* A record that is written where a file ends is a record on disk.
LEMMA LandAtType ==
    ASSUME NEW s \in Seq(RecordType), NEW off \in 0 .. MaxOffset - 1, NEW v \in Values
    PROVE  LandAt(s, off, v) \in RecordType
BY FileEndType DEF LandAt, RecordType

\* The index stays a sequence of entries (Index.maybe_append).
LEMMA MaybeAppendType ==
    ASSUME NEW entries \in Seq(EntryType), NEW off \in Nat, NEW pos \in Nat
    PROVE  MaybeAppend(entries, off, pos) \in Seq(EntryType)
<1>1. [off |-> off, pos |-> pos] \in EntryType
  BY DEF EntryType
<1> QED
  BY <1>1, AppendProperties DEF MaybeAppend

\* A scan starts at a record of the file or at its first one (the verified
\* seek of Segment._iter_from), whatever the hint says.
LEMMA StartScanType ==
    ASSUME NEW s \in Seq(RecordType), NEW hint
    PROVE  StartScan(s, hint) \in Nat /\ StartScan(s, hint) >= 1
<1>1. DOMAIN s = 1 .. Len(s) /\ Len(s) \in Nat
  BY LenProperties
<1> DEFINE Hit(i) == s[i].pos = hint.pos /\ s[i].off = hint.off
<1>2. CASE \E i \in DOMAIN s : Hit(i)
  <2>1. (CHOOSE i \in DOMAIN s : Hit(i)) \in DOMAIN s
    BY <1>2
  <2> QED
    BY <1>1, <1>2, <2>1 DEF StartScan
<1>3. CASE ~ \E i \in DOMAIN s : Hit(i)
  BY <1>3 DEF StartScan
<1> QED
  BY <1>2, <1>3

\* The bisect of Log._iter_from finds a segment when the first is at or
\* before the offset.
LEMMA BisectRightType ==
    ASSUME NEW s \in Seq(Offsets), NEW x \in Nat, s # <<>>, s[1] <= x
    PROVE  BisectRight(s, x) \in 1 .. Len(s)
<1> DEFINE T == {i \in DOMAIN s : s[i] <= x}
<1>1. DOMAIN s = 1 .. Len(s) /\ Len(s) \in Nat /\ Len(s) >= 1
  BY LenProperties, EmptySeq
<1>2. IsFiniteSet(1 .. Len(s)) /\ Cardinality(1 .. Len(s)) = Len(s)
  BY <1>1, FS_Interval
<1>3. T \in SUBSET (1 .. Len(s)) /\ 1 \in T
  BY <1>1
<1>4. IsFiniteSet(T) /\ Cardinality(T) <= Len(s)
  BY <1>2, <1>3, FS_Subset
<1>5. Cardinality(T) \in Nat /\ Cardinality(T) # 0
  BY <1>3, <1>4, FS_CardinalityType, FS_EmptySet
<1> QED
  BY <1>1, <1>4, <1>5 DEF BisectRight

\* While the log is open the tail is one of its segments.
LEMMA ActiveType ==
    ASSUME TypeInv, status \in {"scanning", "up"}
    PROVE  Active \in Offsets
<1>1. segs \in Seq(Offsets) /\ segs # <<>>
  BY DEF TypeInv, TypeOK, Sane
<1> QED
  BY <1>1, EmptySeq, ElementOfSeq DEF Active

-----------------------------------------------------------------------------
(* The invariant holds at first and every action keeps it.                 *)

\* An empty directory and no process: the initial state is well typed.
LEMMA TypeInit == Init => TypeInv
<1> SUFFICES ASSUME Init PROVE TypeInv
  OBVIOUS
<1>1. <<>> \in Seq(Offsets) /\ <<>> \in Seq(RecordType) /\ <<>> \in Seq(EntryType) /\ <<>> \in Seq(AckType)
  BY EmptySeq
<1>2. 0 \in Offsets
  BY BoundsAssumption DEF Offsets
<1> QED
  BY <1>1, <1>2, NoValueAssumption, BoundsAssumption
     DEF Init, TypeInv, TypeOK, Sane, Idle, NoRead, OpType, ReadType, StrayType

\* Beginning to open the directory only changes the status.
LEMMA TypeStart == ASSUME TypeInv, Start PROVE TypeInv'
BY DEF Start, TypeInv, TypeOK, Sane, disk, chain, threads, history, bounds

\* The segment that is constructed is based at an offset, and starts counting there.
LEMMA TypeNewSegment ==
    ASSUME TypeInv, NEW b \in Offsets, NewSegment(b)
    PROVE  /\ files' \subseteq Offsets
           /\ segs' \in Seq(Offsets) /\ segs' # <<>>
           /\ segs'[Len(segs')] = b
           /\ next' \in [Offsets -> Offsets] /\ next'[b] = b
           /\ size' \in [Offsets -> Nat]
           /\ index' \in [Offsets -> Seq(EntryType)]
<1>1. <<>> \in Seq(EntryType)
  BY EmptySeq
<1>2. segs \in Seq(Offsets)
  BY DEF TypeInv, TypeOK
<1>3. segs' \in Seq(Offsets) /\ segs' # <<>> /\ Len(segs') = Len(segs) + 1 /\ segs'[Len(segs) + 1] = b
  BY <1>2, AppendProperties DEF NewSegment
<1> QED
  BY <1>1, <1>3 DEF NewSegment, TypeInv, TypeOK

\* The next segment Log.__init__ constructs is one of the files, or the one at 0.
LEMMA TypeRecoverBegin == ASSUME TypeInv, RecoverBegin PROVE TypeInv'
<1>1. PICK b \in (IF files = {} THEN {0} ELSE Unopened) : NewSegment(b)
  BY DEF RecoverBegin
<1>2. b \in Offsets
  <2>1. 0 \in Offsets
    BY BoundsAssumption DEF Offsets
  <2>2. Unopened \subseteq Offsets
    BY DEF TypeInv, TypeOK, Unopened
  <2> QED
    BY <2>1, <2>2
<1>3. b >= b
  BY <1>2 DEF Offsets
<1> QED
  BY <1>1, <1>2, <1>3, TypeNewSegment
     DEF RecoverBegin, TypeInv, TypeOK, Sane, Active, threads, history, bounds

\* Counting a record keeps the offset to come within the bound and the index a
\* sequence of entries.
LEMMA TypeCount ==
    ASSUME TypeInv, NEW b \in Offsets, NEW off \in 0 .. MaxOffset - 1, NEW pos \in Nat,
           NEW end \in Nat, Count(b, off, pos, end)
    PROVE  /\ next' \in [Offsets -> Offsets] /\ next'[b] = off + 1
           /\ size' \in [Offsets -> Nat]
           /\ index' \in [Offsets -> Seq(EntryType)]
<1>1. off + 1 \in Offsets /\ off \in Nat
  BY BoundsAssumption DEF Offsets
<1>2. MaybeAppend(index[b], off, pos) \in Seq(EntryType)
  BY <1>1, MaybeAppendType DEF TypeInv, TypeOK
<1> QED
  BY <1>1, <1>2 DEF Count, TypeInv, TypeOK

\* A turn of the scan in Segment._recover: the record is counted, or the log refused.
LEMMA TypeRecoverRecord == ASSUME TypeInv, RecoverRecord PROVE TypeInv'
<1> DEFINE b == Active
           rec == recs[b][Scanned(b) + 1]
<1>1. b \in Offsets /\ segs # <<>> /\ next[b] >= b
  BY ActiveType DEF RecoverRecord, TypeInv, Sane
<1>2. Scanned(b) + 1 \in 1 .. Len(recs[b])
  <2>1. recs[b] \in Seq(RecordType) /\ next[b] \in Nat /\ b \in Nat
    BY <1>1 DEF TypeInv, TypeOK, Offsets
  <2>2. Len(recs[b]) \in Nat
    BY <2>1, LenProperties
  <2> QED
    BY <1>1, <2>1, <2>2 DEF RecoverRecord, Scanned
<1>3. rec \in RecordType
  BY <1>1, <1>2, ElementOfSeq DEF TypeInv, TypeOK
<1>4. rec.off \in 0 .. MaxOffset - 1 /\ rec.pos \in Nat /\ RecordEnd(rec) \in Nat
  BY <1>3, SizeAssumption DEF RecordType, RecordEnd
<1>5. CASE rec.off = next[b] /\ Count(b, rec.off, rec.pos, RecordEnd(rec)) /\ UNCHANGED status
  <2>1. rec.off + 1 >= b
    BY <1>1, <1>4, <1>5 DEF Offsets
  <2> HIDE DEF b, rec
  <2> QED
    BY <1>1, <1>4, <1>5, <2>1, TypeCount
       DEF RecoverRecord, TypeInv, TypeOK, Sane, Active, disk, threads, history, bounds, b
<1>6. CASE rec.off # next[b] /\ status' = "refused" /\ UNCHANGED <<next, index, size>>
  BY <1>6 DEF RecoverRecord, TypeInv, TypeOK, Sane, disk, threads, history, bounds
<1> QED
  BY <1>5, <1>6 DEF RecoverRecord

\* The scan ends: the torn tail goes, the write handle is opened.
LEMMA TypeRecoverEnd == ASSUME TypeInv, RecoverEnd PROVE TypeInv'
BY ActiveType DEF RecoverEnd, TypeInv, TypeOK, Sane, Active, threads, history, bounds, StrayType

\* Junk at the end of a file changes nothing but the status.
LEMMA TypeRecoverJunk == ASSUME TypeInv, RecoverJunk PROVE TypeInv'
BY DEF RecoverJunk, TypeInv, TypeOK, Sane, Active, disk, chain, threads, history, bounds

\* The chain check of Log.__init__ and the sealing of all but the tail.
LEMMA TypeOpenEnd == ASSUME TypeInv, OpenEnd PROVE TypeInv'
<1>1. \A b \in Offsets : Len(recs[b]) \in Nat
  BY LenProperties DEF TypeInv, TypeOK
<1>2. segs \in Seq(Offsets) /\ segs # <<>>
  BY DEF OpenEnd, TypeInv, TypeOK
<1>3. Opened \subseteq Offsets
  <2>1. DOMAIN segs = 1 .. Len(segs)
    BY <1>2, LenProperties, Zenon
  <2>2. \A i \in DOMAIN segs : segs[i] \in Offsets
    BY <1>2, <2>1, ElementOfSeq, Zenon
  <2>3. QED
    BY <2>2, Zenon DEF Opened
<1>4. segs' = segs /\ next' = next
  BY DEF OpenEnd
<1>5. CASE ChainUnbroken
  <2>1. synced' \in [Offsets -> Nat]
    BY <1>1, <1>5, SMTT(30) DEF OpenEnd, TypeInv, TypeOK
  <2>2. linked' \subseteq Offsets
    BY <1>3, <1>5 DEF OpenEnd, TypeInv, TypeOK
  <2>3. open' \in [Offsets -> BOOLEAN]
    <3>1. open' = [b \in Offsets |-> open[b] /\ b \notin Opened \ {Active}]
      BY <1>5 DEF OpenEnd
    <3> QED
      BY <3>1
  <2> QED
    BY <1>2, <1>5, <2>1, <2>2, <2>3
       DEF OpenEnd, TypeInv, TypeOK, Sane, Active, threads, history, bounds
<1>6. CASE ~ ChainUnbroken
  BY <1>6 DEF OpenEnd, TypeInv, TypeOK, Sane, threads, history, bounds
<1> QED
  BY <1>5, <1>6

\* Log.append takes the lock and claims an offset below the bound.
LEMMA TypeAppendBegin ==
    ASSUME TypeInv, NEW t \in Threads, NEW v \in Values, AppendBegin(t, v)
    PROVE  TypeInv'
<1>1. Active \in Offsets
  BY ActiveType DEF AppendBegin, Acquire
<1>2. next[Active] \in Offsets /\ next[Active] < MaxOffset
  BY <1>1 DEF AppendBegin, TypeInv, TypeOK
<1> DEFINE new == [pc  |-> IF HasRoomFor(size[Active], v) THEN "write" ELSE "seal",
                   off |-> next[Active], val |-> v, at |-> 0]
<1>3. new \in OpType /\ new.val = v /\ new.off < MaxOffset /\ new.pc # "idle"
  BY <1>2 DEF OpType
<1>4. op' = [op EXCEPT ![t] = new] /\ lock' = t /\ status = "up"
  BY DEF AppendBegin, Acquire
<1> HIDE DEF new
<1> QED
  BY <1>3, <1>4 DEF AppendBegin, TypeInv, TypeOK, Sane, Active, disk, chain, history, bounds

\* Log.roll takes the lock, with nothing to write afterwards.
LEMMA TypeRollBegin ==
    ASSUME TypeInv, NEW t \in Threads, RollBegin(t)
    PROVE  TypeInv'
<1> DEFINE new == [Idle EXCEPT !.pc = "seal"]
<1>1. 0 \in Offsets
  BY BoundsAssumption DEF Offsets
<1>2. new \in OpType /\ new.val \notin Values /\ new.pc = "seal"
  BY <1>1, NoValueAssumption DEF OpType, Idle
<1>3. op' = [op EXCEPT ![t] = new] /\ lock' = t /\ status = "up"
  BY DEF RollBegin, Acquire
<1> HIDE DEF new
<1> QED
  BY <1>2, <1>3 DEF RollBegin, TypeInv, TypeOK, Sane, Active, disk, chain, history, bounds

\* Leaving the critical section, and moving on inside it, keep the types.
LEMMA TypeLeave ==
    ASSUME TypeInv, NEW t \in Threads, Leave(t), status' = status
    PROVE  /\ lock' \in Threads \cup {NoThread}
           /\ op' \in [Threads -> OpType]
           /\ \A u \in Threads : op'[u].pc # "idle" => status' = "up"
           /\ \A u \in Threads : op'[u].pc \in {"write", "flush", "account"} => op'[u].val \in Values
           /\ \A u \in Threads : op'[u].val \in Values => op'[u].off < MaxOffset
<1>1. 0 \in Offsets
  BY BoundsAssumption DEF Offsets
<1>2. Idle \in OpType /\ Idle.val \notin Values /\ Idle.pc = "idle"
  BY <1>1, NoValueAssumption DEF OpType, Idle
<1>3. op' = [op EXCEPT ![t] = Idle] /\ lock' = NoThread
  BY DEF Leave
<1> QED
  BY <1>2, <1>3 DEF TypeInv, TypeOK, Sane

\* A thread that goes on to its next step keeps its other locals.
LEMMA TypeGoto ==
    ASSUME TypeInv, NEW t \in Threads, NEW pc \in {"create", "write", "account"},
           op[t].pc # "idle", pc # "create" => op[t].val \in Values,
           Goto(t, pc), status' = status
    PROVE  /\ op' \in [Threads -> OpType]
           /\ \A u \in Threads : op'[u].pc # "idle" => status' = "up"
           /\ \A u \in Threads : op'[u].pc \in {"write", "flush", "account"} => op'[u].val \in Values
           /\ \A u \in Threads : op'[u].val \in Values => op'[u].off < MaxOffset
<1>1. op' = [op EXCEPT ![t].pc = pc]
  BY DEF Goto
<1>2. op[t] \in OpType /\ op'[t] \in OpType /\ op'[t].pc = pc /\ op'[t].val = op[t].val
      /\ op'[t].off = op[t].off
  BY <1>1 DEF TypeInv, TypeOK, OpType
<1>3. \A u \in Threads \ {t} : op'[u] = op[u]
  BY <1>1 DEF TypeInv, TypeOK
<1>4. op' \in [Threads -> OpType]
  BY <1>1, <1>2, <1>3 DEF TypeInv, TypeOK
<1> QED
  BY <1>2, <1>3, <1>4 DEF TypeInv, TypeOK, Sane

\* What a flush leaves in the file is a sequence of records.
LEMMA TypeFlushed ==
    ASSUME TypeInv, NEW b \in Offsets
    PROVE  /\ Flushed(b) \in Seq(RecordType)
           /\ Len(Flushed(b)) \in Nat
BY ConcatProperties, LenProperties DEF TypeInv, TypeOK, Flushed

\* Segment.sync of the tail: the fsync covers a number of records.
LEMMA TypeFsyncTail ==
    ASSUME TypeInv, status = "up", FsyncTail
    PROVE  /\ recs' \in [Offsets -> Seq(RecordType)]
           /\ buf' \in [Offsets -> Seq(RecordType)]
           /\ torn' \in [Offsets -> BOOLEAN]
           /\ synced' \in [Offsets -> Nat]
           /\ linked' \subseteq Offsets
           /\ stray' = stray
<1>1. Active \in Offsets
  BY ActiveType
<1>2. Flushed(Active) \in Seq(RecordType) /\ Len(Flushed(Active)) \in Nat
  BY <1>1, TypeFlushed
<1>3. <<>> \in Seq(RecordType)
  BY EmptySeq
<1> QED
  BY <1>1, <1>2, <1>3 DEF FsyncTail, TypeInv, TypeOK

\* Log.roll closes the tail, or finds it closed.
LEMMA TypeSeal ==
    ASSUME TypeInv, NEW t \in Threads, Seal(t)
    PROVE  TypeInv'
<1>1. status = "up" /\ status' = status /\ Goto(t, "create") /\ op[t].pc = "seal"
  BY DEF Seal, TypeInv, Sane
<1>2. CASE FsyncTail /\ open' = [open EXCEPT ![Active] = FALSE]
  BY <1>1, <1>2, TypeGoto, TypeFsyncTail
     DEF Seal, TypeInv, TypeOK, Sane, Active, history, bounds
<1>3. CASE UNCHANGED <<recs, buf, torn, stray, synced, linked, open>>
  BY <1>1, <1>3, TypeGoto DEF Seal, TypeInv, TypeOK, Sane, Active, history, bounds
<1> QED
  BY <1>2, <1>3 DEF Seal

\* Log.roll starts the new tail at the next offset, which is within the bound.
LEMMA TypeCreate ==
    ASSUME TypeInv, NEW t \in Threads, Create(t)
    PROVE  TypeInv'
<1>1. status = "up" /\ status' = status /\ op[t].pc = "create"
  BY DEF Create, TypeInv, Sane
<1>2. next[Active] \in Offsets
  BY <1>1, ActiveType DEF TypeInv, TypeOK
<1>3. NewSegment(next[Active]) /\ open' = [open EXCEPT ![next[Active]] = TRUE]
  BY DEF Create
<1>4. CASE op[t].val = NoValue /\ Leave(t)
  BY <1>1, <1>2, <1>3, <1>4, TypeNewSegment, TypeLeave
     DEF Create, TypeInv, TypeOK, Sane, Active, history, bounds
<1>5. CASE op[t].val # NoValue /\ Goto(t, "write") /\ UNCHANGED lock
  <2>1. op[t].val \in Values
    BY <1>5 DEF TypeInv, TypeOK, OpType
  <2> QED
    BY <1>1, <1>2, <1>3, <1>5, <2>1, TypeNewSegment, TypeGoto
       DEF Create, TypeInv, TypeOK, Sane, Active, history, bounds
<1> QED
  BY <1>4, <1>5 DEF Create

\* The new segment fails to open: at most its file is left.
LEMMA TypeCreateFails ==
    ASSUME TypeInv, NEW t \in Threads, CreateFails(t)
    PROVE  TypeInv'
<1>1. status = "up" /\ status' = status /\ Leave(t)
  BY DEF CreateFails, TypeInv, Sane
<1>2. next[Active] \in Offsets
  BY <1>1, ActiveType DEF TypeInv, TypeOK
<1>3. files' \subseteq Offsets
  BY <1>2 DEF CreateFails, TypeInv, TypeOK
<1>4. faults' \in 0 .. MaxFaults
  BY BoundsAssumption DEF CreateFails, TypeInv, TypeOK
<1> QED
  BY <1>1, <1>3, <1>4, TypeLeave
     DEF CreateFails, TypeInv, TypeOK, Sane, Active, chain, history

\* Segment.append notes the position where its record will start.
LEMMA TypeWriteBegin ==
    ASSUME TypeInv, NEW t \in Threads, WriteBegin(t)
    PROVE  TypeInv'
<1>1. status = "up" /\ op[t].pc = "write"
  BY DEF WriteBegin, TypeInv, Sane
<1>2. size[Active] \in Nat
  BY <1>1, ActiveType DEF TypeInv, TypeOK
<1>3. op' = [op EXCEPT ![t].pc = "flush", ![t].at = size[Active]]
  BY DEF WriteBegin
<1>4. /\ op'[t] \in OpType /\ op'[t].pc = "flush"
      /\ op'[t].val = op[t].val /\ op'[t].off = op[t].off
  BY <1>2, <1>3 DEF TypeInv, TypeOK, OpType
<1>5. \A u \in Threads \ {t} : op'[u] = op[u]
  BY <1>3 DEF TypeInv, TypeOK
<1>6. op' \in [Threads -> OpType]
  BY <1>3, <1>4, <1>5 DEF TypeInv, TypeOK
<1> QED
  BY <1>1, <1>4, <1>5, <1>6
     DEF WriteBegin, TypeInv, TypeOK, Sane, Active, disk, chain, history, bounds

\* Segment.append refuses: nothing changes but the lock.
LEMMA TypeWriteRejected ==
    ASSUME TypeInv, NEW t \in Threads, WriteRejected(t)
    PROVE  TypeInv'
BY TypeLeave DEF WriteRejected, TypeInv, TypeOK, Sane, Active, disk, chain, history, bounds

\* tell() is off: nothing is accounted for.
LEMMA TypeAppendMismatch ==
    ASSUME TypeInv, NEW t \in Threads, AppendMismatch(t)
    PROVE  TypeInv'
BY TypeLeave DEF AppendMismatch, TypeInv, TypeOK, Sane, Active, disk, chain, history, bounds

\* A part of a record reaches the file.
LEMMA TypeFlushPartly ==
    ASSUME TypeInv, NEW t \in Threads, FlushPartly(t)
    PROVE  TypeInv'
<1>1. status = "up"
  BY DEF FlushPartly, TypeInv, Sane
<1> QED
  BY <1>1, ActiveType
     DEF FlushPartly, TypeInv, TypeOK, Sane, Active, chain, threads, history, bounds

\* The record a thread is to write, and the bytes that reach the file.
LEMMA TypeRecord ==
    ASSUME TypeInv, NEW t \in Threads, op[t].pc \in {"flush", "account"}
    PROVE  /\ status = "up" /\ Active \in Offsets
           /\ op[t].off \in 0 .. MaxOffset - 1 /\ op[t].val \in Values /\ op[t].at \in Nat
           /\ LandAt(Flushed(Active), op[t].off, op[t].val) \in RecordType
<1>1. status = "up" /\ op[t].val \in Values
  BY DEF TypeInv, Sane
<1>2. Active \in Offsets
  BY <1>1, ActiveType
<1>3. op[t].off \in 0 .. MaxOffset - 1 /\ op[t].at \in Nat
  <2>1. op[t].off \in 0 .. MaxOffset /\ op[t].at \in Nat
    BY DEF TypeInv, TypeOK, OpType, Offsets
  <2>2. op[t].off < MaxOffset
    BY <1>1 DEF TypeInv, Sane
  <2> QED
    BY <2>1, <2>2, BoundsAssumption
<1> QED
  BY <1>1, <1>2, <1>3, TypeFlushed, LandAtType

\* A whole record reaches the file, after what an earlier flush left over.
LEMMA TypeFlush ==
    ASSUME TypeInv, NEW t \in Threads, Flush(t)
    PROVE  TypeInv'
<1> DEFINE all == Append(Flushed(Active), LandAt(Flushed(Active), op[t].off, op[t].val))
<1>1. status = "up" /\ status' = status /\ op[t].pc = "flush" /\ Goto(t, "account")
  BY DEF Flush, TypeInv, Sane
<1>2. Active \in Offsets /\ op[t].val \in Values
  BY <1>1, TypeRecord
<1>3. all \in Seq(RecordType)
  BY <1>1, <1>2, TypeRecord, TypeFlushed, AppendProperties
<1>4. <<>> \in Seq(RecordType)
  BY EmptySeq
<1>5. recs' = [recs EXCEPT ![Active] = all] /\ buf' = [buf EXCEPT ![Active] = <<>>]
      /\ torn' = [torn EXCEPT ![Active] = FALSE]
  BY DEF Flush
<1> HIDE DEF all
<1>6. recs' \in [Offsets -> Seq(RecordType)] /\ buf' \in [Offsets -> Seq(RecordType)]
      /\ torn' \in [Offsets -> BOOLEAN]
  BY <1>2, <1>3, <1>4, <1>5 DEF TypeInv, TypeOK
<1> QED
  BY <1>1, <1>2, <1>6, TypeGoto
     DEF Flush, TypeInv, TypeOK, Sane, Active, history, bounds

\* A flush fails and leaves records in the buffer of the file object.
LEMMA TypeFlushFails ==
    ASSUME TypeInv, NEW t \in Threads, FlushFails(t)
    PROVE  TypeInv'
<1> DEFINE out == Append(buf[Active], LandAt(Flushed(Active), op[t].off, op[t].val))
<1>1. status = "up" /\ status' = status /\ op[t].pc = "flush" /\ Leave(t)
  BY DEF FlushFails, TypeInv, Sane
<1>2. Active \in Offsets
  BY <1>1, TypeRecord
<1>3. out \in Seq(RecordType) /\ Len(out) \in Nat
  BY <1>1, <1>2, TypeRecord, AppendProperties, LenProperties DEF TypeInv, TypeOK
<1>4. PICK k \in 0 .. Len(out) - 1, end \in {Len(out), Len(buf[Active])}, part \in BOOLEAN :
        /\ recs' = [recs EXCEPT ![Active] = @ \o SubSeq(out, 1, k)]
        /\ buf' = [buf EXCEPT ![Active] = SubSeq(out, k + 1, end)]
        /\ torn' = [torn EXCEPT ![Active] = part /\ SubSeq(out, k + 1, end) # <<>>]
        /\ stray' = [stray EXCEPT ![Active] =
                        IF part /\ SubSeq(out, k + 1, end) = <<>> THEN "part" ELSE "no"]
  BY DEF FlushFails
<1>5. Len(out) = Len(buf[Active]) + 1 /\ Len(buf[Active]) \in Nat
  BY <1>1, <1>2, TypeRecord, AppendProperties, LenProperties DEF TypeInv, TypeOK
<1> HIDE DEF out
<1>6. torn' \in [Offsets -> BOOLEAN] /\ stray' \in [Offsets -> StrayType]
  BY <1>4 DEF TypeInv, TypeOK, StrayType
<1>7. SubSeq(out, 1, k) \in Seq(RecordType)
  <2>1. \A i \in 1 .. k : out[i] \in RecordType
    BY <1>3, ElementOfSeq
  <2> QED
    BY <1>3, <2>1, SubSeqProperties
<1>8. SubSeq(out, k + 1, end) \in Seq(RecordType)
  <2>1. end \in Nat /\ end <= Len(out) /\ k + 1 \in Nat
    BY <1>3, <1>5
  <2>2. \A i \in k + 1 .. end : out[i] \in RecordType
    BY <1>3, <2>1, ElementOfSeq
  <2> QED
    BY <1>3, <2>1, <2>2, SubSeqProperties
<1>9. recs[Active] \o SubSeq(out, 1, k) \in Seq(RecordType)
  BY <1>2, <1>7, ConcatProperties DEF TypeInv, TypeOK
<1>10. faults' \in 0 .. MaxFaults
  BY BoundsAssumption DEF FlushFails, TypeInv, TypeOK
<1> QED
  BY <1>1, <1>2, <1>4, <1>8, <1>9, <1>10, <1>6, TypeLeave
     DEF FlushFails, TypeInv, TypeOK, Sane, Active, history

\* An append behind a stray part leaves the lock, and the part may turn to junk.
LEMMA TypeBury ==
    ASSUME TypeInv, NEW t \in Threads, Bury(t)
    PROVE  TypeInv'
<1>1. status = "up" /\ status' = status /\ Leave(t)
  BY DEF Bury, TypeInv, Sane
<1>2. stray' \in [Offsets -> StrayType]
  <2>1. Active \in Offsets
    BY <1>1, ActiveType
  <2> QED
    BY <2>1 DEF Bury, TypeInv, TypeOK, StrayType
<1> QED
  BY <1>1, <1>2, TypeLeave DEF Bury, TypeInv, TypeOK, Sane, Active, chain, history, bounds

\* The append is accounted for and acknowledged.
LEMMA TypeAppendReturns ==
    ASSUME TypeInv, NEW t \in Threads, AppendReturns(t)
    PROVE  TypeInv'
<1>1. status = "up" /\ status' = status /\ op[t].pc = "account" /\ Leave(t)
  BY DEF AppendReturns, TypeInv, Sane
<1>2. /\ Active \in Offsets
      /\ op[t].off \in 0 .. MaxOffset - 1 /\ op[t].val \in Values /\ op[t].at \in Nat
  BY <1>1, TypeRecord
<1>3. FileEnd(recs[Active]) \in Nat
  BY <1>2, FileEndType DEF TypeInv, TypeOK
<1>4. Count(Active, op[t].off, op[t].at, FileEnd(recs[Active]))
  BY DEF AppendReturns
<1>5. [off |-> op[t].off, val |-> op[t].val] \in AckType
  BY <1>2 DEF AckType
<1>6. acked' \subseteq AckType
  BY <1>5 DEF AppendReturns, TypeInv, TypeOK
<1>7. /\ next' \in [Offsets -> Offsets] /\ size' \in [Offsets -> Nat]
      /\ index' \in [Offsets -> Seq(EntryType)]
  BY <1>2, <1>3, <1>4, TypeCount
<1> QED
  BY <1>1, <1>6, <1>7, TypeLeave
     DEF AppendReturns, TypeInv, TypeOK, Sane, Active, disk, bounds

\* Log.sync vouches for what was acknowledged.
LEMMA TypeSync == ASSUME TypeInv, Sync PROVE TypeInv'
BY TypeFsyncTail DEF Sync, TypeInv, TypeOK, Sane, Active, threads, bounds

\* Log.close vouches for it too, and drops the handle.
LEMMA TypeClose == ASSUME TypeInv, Close PROVE TypeInv'
BY TypeFsyncTail DEF Close, TypeInv, TypeOK, Sane, Active, threads, bounds

\* A step of a reader changes only its own record.
LEMMA TypeRead ==
    ASSUME TypeInv, NEW r \in Readers, NEW new \in ReadType,
           new.pc \in {"open", "scan"} => new.i \in DOMAIN new.snap, new.cur >= 1,
           rd' = [rd EXCEPT ![r] = new],
           UNCHANGED <<disk, status, chain, threads, history, bounds>>
    PROVE  TypeInv'
BY DEF TypeInv, TypeOK, Sane, Active, disk, chain, threads, history, bounds

\* A read copies the chain and starts in one of its segments.
LEMMA TypeReadBegin ==
    ASSUME TypeInv, NEW r \in Readers, NEW o \in Offsets, ReadBegin(r, o)
    PROVE  TypeInv'
<1> DEFINE i   == BisectRight(segs, o)
           n   == next[Active]
           new == [pc |-> "open", from |-> o, upto |-> n, snap |-> segs,
                   i |-> i, cur |-> 1, got |-> <<>>]
<1>1. status = "up" /\ segs \in Seq(Offsets) /\ segs # <<>> /\ segs[1] <= o
  BY EmptySeq, ElementOfSeq DEF ReadBegin, TypeInv, TypeOK, Sane, Offsets
<1>2. o \in Nat /\ n \in Nat
  BY <1>1, ActiveType DEF TypeInv, TypeOK, Offsets
<1>3. i \in 1 .. Len(segs) /\ DOMAIN segs = 1 .. Len(segs) /\ Len(segs) \in Nat
  BY <1>1, <1>2, BisectRightType, LenProperties
<1>4. <<>> \in Seq(AckType)
  BY EmptySeq
<1>5. rd' = [rd EXCEPT ![r] = new] /\ UNCHANGED <<disk, status, chain, threads, history, bounds>>
  BY DEF ReadBegin
<1> HIDE DEF i, n
<1>6. new \in ReadType /\ new.i \in DOMAIN new.snap /\ new.cur >= 1
  BY <1>1, <1>2, <1>3, <1>4 DEF ReadType
<1> HIDE DEF new
<1> QED
  BY <1>5, <1>6, TypeRead

\* The segment a reader is in is one of its snapshot, and a segment of the log.
LEMMA TypeReader ==
    ASSUME TypeInv, NEW r \in Readers, rd[r].pc \in {"open", "scan"}
    PROVE  /\ rd[r] \in ReadType /\ rd[r].cur \in Nat /\ rd[r].cur >= 1
           /\ rd[r].i \in 1 .. Len(rd[r].snap) /\ Len(rd[r].snap) \in Nat
           /\ DOMAIN rd[r].snap = 1 .. Len(rd[r].snap)
           /\ rd[r].snap[rd[r].i] \in Offsets
           /\ recs[rd[r].snap[rd[r].i]] \in Seq(RecordType)
<1>1. rd[r] \in ReadType /\ rd[r].i \in DOMAIN rd[r].snap /\ rd[r].cur >= 1
  BY DEF TypeInv, TypeOK, Sane
<1>2. rd[r].snap \in Seq(Offsets) /\ rd[r].cur \in Nat
  BY <1>1 DEF ReadType
<1>3. rd[r].snap[rd[r].i] \in Offsets
  BY <1>1, <1>2, LenProperties, ElementOfSeq
<1> QED
  BY <1>1, <1>2, <1>3, LenProperties DEF TypeInv, TypeOK

\* It looks its start up in the index; the scan begins at a record or at the end.
LEMMA TypeReadOpen ==
    ASSUME TypeInv, NEW r \in Readers, ReadOpen(r)
    PROVE  TypeInv'
<1> DEFINE b == rd[r].snap[rd[r].i]
           cur == StartScan(recs[b], Lookup(index[b], b, rd[r].from))
           new == [rd[r] EXCEPT !.pc = "scan", !.cur = cur]
<1>1. rd[r].pc = "open"
  BY DEF ReadOpen
<1>2. cur \in Nat /\ cur >= 1
  BY <1>1, TypeReader, StartScanType
<1>3. rd' = [rd EXCEPT ![r].pc = "scan", ![r].cur = cur]
      /\ UNCHANGED <<disk, status, chain, threads, history, bounds>>
  BY DEF ReadOpen
<1> HIDE DEF cur
<1>4. rd' = [rd EXCEPT ![r] = new]
  BY <1>3 DEF TypeInv, TypeOK
<1>5. new \in ReadType /\ new.i \in DOMAIN new.snap /\ new.cur >= 1
  BY <1>1, <1>2, TypeReader DEF ReadType
<1> HIDE DEF new
<1> QED
  BY <1>3, <1>4, <1>5, TypeRead

\* It takes a record, whose offset and payload are of their types.
LEMMA TypeReadRecord ==
    ASSUME TypeInv, NEW r \in Readers, ReadRecord(r)
    PROVE  TypeInv'
<1> DEFINE b   == rd[r].snap[rd[r].i]
           rec == recs[b][rd[r].cur]
           got == IF rec.off >= rd[r].from
                  THEN Append(rd[r].got, [off |-> rec.off, val |-> rec.val])
                  ELSE rd[r].got
           new == [rd[r] EXCEPT !.cur = rd[r].cur + 1, !.got = got]
<1>1. rd[r].pc = "scan" /\ rd[r].cur <= Len(recs[b])
  BY DEF ReadRecord
<1>2. rec \in RecordType
  BY <1>1, TypeReader, LenProperties, ElementOfSeq
<1>3. [off |-> rec.off, val |-> rec.val] \in AckType
  BY <1>2 DEF RecordType, AckType
<1>4. got \in Seq(AckType)
  <2>1. rd[r].got \in Seq(AckType)
    BY <1>1, TypeReader DEF ReadType
  <2>2. Append(rd[r].got, [off |-> rec.off, val |-> rec.val]) \in Seq(AckType)
    BY <1>3, <2>1, AppendProperties, Zenon
  <2>3. QED
    BY <2>1, <2>2
<1>5. rd' = [rd EXCEPT ![r].cur = @ + 1, ![r].got = got]
      /\ UNCHANGED <<disk, status, chain, threads, history, bounds>>
  BY DEF ReadRecord
<1> HIDE DEF got
<1>6. rd' = [rd EXCEPT ![r] = new]
  BY <1>5 DEF TypeInv, TypeOK
<1>7. new \in ReadType /\ new.i \in DOMAIN new.snap /\ new.cur >= 1
  <2>1. rd[r] \in ReadType /\ rd[r].cur + 1 \in Nat /\ rd[r].cur + 1 >= 1
        /\ rd[r].i \in DOMAIN rd[r].snap
    BY <1>1, TypeReader
  <2>2. new.cur = rd[r].cur + 1 /\ new.i = rd[r].i /\ new.snap = rd[r].snap
    BY <2>1 DEF ReadType
  <2>3. new \in ReadType
    BY <1>4, <2>1 DEF ReadType
  <2> QED
    BY <2>1, <2>2, <2>3
<1> HIDE DEF new
<1> QED
  BY <1>5, <1>6, <1>7, TypeRead

\* It comes to the end of a segment: another of the copied chain follows, or none.
LEMMA TypeReadEof ==
    ASSUME TypeInv, NEW r \in Readers, ReadEof(r)
    PROVE  TypeInv'
<1>1. rd[r].pc = "scan" /\ UNCHANGED <<disk, status, chain, threads, history, bounds>>
  BY DEF ReadEof
<1>2. rd[r] \in ReadType /\ rd[r].i \in Nat
  BY <1>1, TypeReader
<1>3. CASE /\ rd[r].i < Len(rd[r].snap)
           /\ rd' = [rd EXCEPT ![r].pc = "open", ![r].i = @ + 1]
  <2> DEFINE new == [rd[r] EXCEPT !.pc = "open", !.i = rd[r].i + 1]
  <2>1. rd' = [rd EXCEPT ![r] = new]
    BY <1>3 DEF TypeInv, TypeOK
  <2>2. rd[r].i + 1 \in Nat /\ rd[r].i + 1 \in DOMAIN rd[r].snap /\ rd[r].cur >= 1
    BY <1>1, <1>3, TypeReader
  <2>3. new.i = rd[r].i + 1 /\ new.snap = rd[r].snap /\ new.cur = rd[r].cur
    BY <1>2 DEF ReadType
  <2>4. new \in ReadType
    BY <1>2, <2>2 DEF ReadType
  <2> HIDE DEF new
  <2> QED
    BY <1>1, <2>1, <2>2, <2>3, <2>4, TypeRead
<1>4. CASE rd' = [rd EXCEPT ![r].pc = "done"]
  <2> DEFINE new == [rd[r] EXCEPT !.pc = "done"]
  <2>1. rd' = [rd EXCEPT ![r] = new]
    BY <1>4 DEF TypeInv, TypeOK
  <2>2. new \in ReadType /\ new.pc = "done" /\ new.cur >= 1
    BY <1>1, TypeReader DEF ReadType
  <2> HIDE DEF new
  <2> QED
    BY <1>1, <2>1, <2>2, TypeRead
<1> QED
  BY <1>3, <1>4 DEF ReadEof

\* What is left in memory when the process is gone has its type.
LEMMA TypeLoseMemory ==
    ASSUME TypeInv, LoseMemory
    PROVE  /\ segs' \in Seq(Offsets) /\ next' \in [Offsets -> Offsets]
           /\ size' \in [Offsets -> Nat] /\ open' \in [Offsets -> BOOLEAN]
           /\ index' \in [Offsets -> Seq(EntryType)] /\ buf' \in [Offsets -> Seq(RecordType)]
           /\ lock' \in Threads \cup {NoThread} /\ op' \in [Threads -> OpType]
           /\ rd' \in [Readers -> ReadType] /\ status' = "down"
           /\ Sane'
<1>1. <<>> \in Seq(Offsets) /\ <<>> \in Seq(RecordType) /\ <<>> \in Seq(EntryType) /\ <<>> \in Seq(AckType)
  BY EmptySeq
<1>2. 0 \in Offsets
  BY BoundsAssumption DEF Offsets
<1> QED
  BY <1>1, <1>2, NoValueAssumption
     DEF LoseMemory, Sane, Idle, NoRead, OpType, ReadType

\* A process crash loses memory only.
LEMMA TypeProcessCrash == ASSUME TypeInv, ProcessCrash PROVE TypeInv'
<1>1. crashes' \in 0 .. MaxCrashes
  BY BoundsAssumption DEF ProcessCrash, TypeInv, TypeOK
<1> QED
  BY <1>1, TypeLoseMemory DEF ProcessCrash, TypeInv, TypeOK, disk, history

\* A power loss leaves no, some or all of a stray part.
LEMMA TypeStrayLost == ASSUME PowerLoss PROVE stray' \in [Offsets -> StrayType]
<1>1. PICK gone \in SUBSET (files \ linked), keep \in [files -> 0 .. MaxOffset] :
        \E left \in [{b \in files \ gone : stray[b] # "no" /\ keep[b] = Len(recs[b])} -> StrayType] :
            /\ \A b \in DOMAIN left : left[b] = "junk" => stray[b] = "junk"
            /\ stray' = [b \in Offsets |-> IF b \in DOMAIN left THEN left[b] ELSE "no"]
  BY DEF PowerLoss
<1> DEFINE S == {b \in files \ gone : stray[b] # "no" /\ keep[b] = Len(recs[b])}
<1>2. PICK left \in [S -> StrayType] :
        stray' = [b \in Offsets |-> IF b \in DOMAIN left THEN left[b] ELSE "no"]
  BY <1>1
<1> HIDE DEF S
<1> QED
  BY <1>2 DEF StrayType

\* A power loss leaves a prefix of every file.
LEMMA TypePowerLoss == ASSUME TypeInv, PowerLoss PROVE TypeInv'
<1>1. PICK gone \in SUBSET (files \ linked), keep \in [files -> 0 .. MaxOffset] :
        /\ \A b \in files : IF b \in gone THEN keep[b] = 0
                                          ELSE keep[b] \in synced[b] .. Len(recs[b])
        /\ \E frag \in SUBSET {b \in files \ gone : torn[b] \/ keep[b] < Len(recs[b])} :
            torn' = [b \in Offsets |-> b \in frag]
        /\ files' = files \ gone
        /\ recs' = [b \in Offsets |-> IF b \in files THEN SubSeq(recs[b], 1, keep[b]) ELSE <<>>]
  BY DEF PowerLoss
<1>2. \A b \in files : SubSeq(recs[b], 1, keep[b]) \in Seq(RecordType)
  <2> TAKE b \in files
  <2>1. recs[b] \in Seq(RecordType) /\ Len(recs[b]) \in Nat /\ synced[b] \in Nat
    BY LenProperties DEF TypeInv, TypeOK
  <2>2. keep[b] \in Nat /\ keep[b] <= Len(recs[b])
    BY <1>1, <2>1, BoundsAssumption
  <2>3. \A i \in 1 .. keep[b] : recs[b][i] \in RecordType
    BY <2>1, <2>2, ElementOfSeq
  <2> QED
    BY <2>2, <2>3, SubSeqProperties
<1>3. recs' \in [Offsets -> Seq(RecordType)]
  BY <1>1, <1>2, EmptySeq DEF TypeInv, TypeOK
<1>4. torn' \in [Offsets -> BOOLEAN] /\ files' \subseteq Offsets
  BY <1>1 DEF TypeInv, TypeOK
<1>5. crashes' \in 0 .. MaxCrashes
  BY BoundsAssumption DEF PowerLoss, TypeInv, TypeOK
<1>6. acked' \subseteq AckType
  BY DEF PowerLoss, TypeInv, TypeOK
<1> QED
  BY <1>3, <1>4, <1>5, <1>6, TypeStrayLost, TypeLoseMemory DEF PowerLoss, TypeInv, TypeOK

-----------------------------------------------------------------------------
\* Every action of the log, its readers and its failures keeps TypeInv.
LEMMA TypeNext == TypeInv /\ [Next]_vars => TypeInv'
<1> SUFFICES ASSUME TypeInv, [Next]_vars PROVE TypeInv'
  OBVIOUS
<1>1. CASE Recover
  BY <1>1, TypeStart, TypeRecoverBegin, TypeRecoverRecord, TypeRecoverEnd,
     TypeRecoverJunk, TypeOpenEnd DEF Recover
<1>2. ASSUME NEW t \in Threads, NEW v \in Values, AppendBegin(t, v)
      PROVE  TypeInv'
  BY <1>2, TypeAppendBegin
<1>3. ASSUME NEW t \in Threads, RollBegin(t)
      PROVE  TypeInv'
  BY <1>3, TypeRollBegin
<1>4. ASSUME NEW t \in Threads, Proceed(t)
      PROVE  TypeInv'
  BY <1>4, TypeSeal, TypeCreate, TypeWriteBegin, TypeWriteRejected, TypeFlush, TypeBury,
     TypeAppendReturns, TypeAppendMismatch DEF Proceed
<1>5. ASSUME NEW t \in Threads, Fail(t)
      PROVE  TypeInv'
  BY <1>5, TypeFlushPartly, TypeFlushFails, TypeCreateFails DEF Fail
<1>6. CASE Sync \/ Close
  BY <1>6, TypeSync, TypeClose
<1>7. ASSUME NEW r \in Readers, NEW o \in Offsets, ReadBegin(r, o)
      PROVE  TypeInv'
  BY <1>7, TypeReadBegin
<1>8. ASSUME NEW r \in Readers, ReadStep(r)
      PROVE  TypeInv'
  BY <1>8, TypeReadOpen, TypeReadRecord, TypeReadEof DEF ReadStep
<1>9. CASE ProcessCrash \/ PowerLoss
  BY <1>9, TypeProcessCrash, TypePowerLoss
<1>10. CASE UNCHANGED vars
  BY <1>10 DEF vars, disk, chain, threads, history, bounds, TypeInv, TypeOK, Sane, Active
<1> QED
  BY <1>1, <1>2, <1>3, <1>4, <1>5, <1>6, <1>7, <1>8, <1>9, <1>10 DEF Next

\* TypeInv holds throughout.
LEMMA TypeInvariant == Spec => []TypeInv
BY TypeInit, TypeNext, PTL DEF Spec

\* The fields of Log, Segment and Index, the files and what a reader holds
\* always have their types, whatever fails and however often.
THEOREM TypeCorrect == Spec => []TypeOK
<1>1. TypeInv => TypeOK
  BY DEF TypeInv
<1> QED
  BY <1>1, TypeInvariant, PTL
=============================================================================
