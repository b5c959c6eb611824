-------------------------------- MODULE Log --------------------------------
(***************************************************************************)
(* One topic-partition of pyka: the Log of storage/log.py over the         *)
(* Segments of storage/segment.py, with the directory it lives in.         *)
(*                                                                         *)
(* Several threads append, roll, sync and close under the Log's lock;      *)
(* readers take the lock only to copy the chain of segments and then read  *)
(* the files while writers move on.  The process may die and the machine   *)
(* may lose power between any two steps; the directory is then reopened    *)
(* by the scan of Segment._recover and the chain check of Log.__init__.    *)
(* A write may fail (a full disk) and so may the creation of a file.       *)
(*                                                                         *)
(* A segment is named by its base offset, on disk and in memory, as its    *)
(* file is.                                                                *)
(*                                                                         *)
(* An operator named X_Slip, marked "(variant of X: ...)", is X with a     *)
(* slip in it.  No action uses it: put in the place of X it shows that the *)
(* property meant to catch the slip does catch it.                         *)
(***************************************************************************)
EXTENDS SegmentFile

CONSTANTS
    Threads,      \* worker threads that reach the Log (asyncio.to_thread)
    NoThread,     \* nobody holds the lock
    Readers,      \* readers of the Log
    NoValue,      \* the payload of a roll: nothing to write
    MaxOffset,    \* bound: records the log, and one file, may hold
    MaxCrashes,   \* bound: process crashes and power losses
    MaxFaults     \* bound: failed writes and failed file creations

ASSUME NoThreadAssumption == NoThread \notin Threads
ASSUME NoValueAssumption  == NoValue \notin Values
ASSUME BoundsAssumption   == MaxOffset \in Nat /\ MaxCrashes \in Nat /\ MaxFaults \in Nat

Offsets == 0 .. MaxOffset
StrayType == {"no", "part", "junk"}

VARIABLES
    \* the directory
    files,     \* bases of the .log files that exist
    recs,      \* base -> the whole records in the file
    torn,      \* base -> is there a part of a record after them?
    stray,     \* base -> or of one that no flush will complete, see FlushFails
    synced,    \* base -> how many records an fsync has covered
    linked,    \* bases whose directory entry would survive a power loss
    \* the Log object and its Segments
    status,    \* "down", "opening", "scanning" (the last of segs), "up", "refused"
    segs,      \* Log._segments, oldest first
    next,      \* base -> Segment._next_offset
    size,      \* base -> Segment._position
    open,      \* base -> has it a write handle?
    index,     \* base -> Index._entries
    buf,       \* base -> records left in the file object by a failed flush
    \* the threads
    lock,      \* Log._lock
    op,        \* thread -> where it is in append or roll, and its locals
    rd,        \* reader -> where it is in Log._iter_from, and its locals
    \* history
    acked,     \* records whose append has returned
    promised,  \* records a returned sync, or close, vouches for
    crashes, faults

disk    == <<files, recs, torn, stray, synced, linked>>
chain   == <<segs, next, size, open, index, buf>>
threads == <<lock, op>>
history == <<acked, promised>>
bounds  == <<crashes, faults>>
vars    == <<disk, status, chain, threads, rd, history, bounds>>

Idle   == [pc |-> "idle", off |-> 0, val |-> NoValue, at |-> 0]
NoRead == [pc |-> "idle", from |-> 0, upto |-> 0, snap |-> <<>>, i |-> 0, cur |-> 1, got |-> <<>>]

\* Log._active: the tail of the chain, the only segment that is writable.
Active == segs[Len(segs)]

InFile(b)   == {[off |-> recs[b][i].off, val |-> recs[b][i].val] : i \in 1 .. Len(recs[b])}
Durable(b)  == {[off |-> recs[b][i].off, val |-> recs[b][i].val] : i \in 1 .. synced[b]}
\* Every record in the directory, and those a power loss cannot take.
Written     == UNION {InFile(b) : b \in files}
WrittenSafe == UNION {Durable(b) : b \in files \cap linked}

-----------------------------------------------------------------------------
Init ==
    /\ files = {} /\ linked = {}
    /\ recs = [b \in Offsets |-> <<>>]
    /\ torn = [b \in Offsets |-> FALSE]
    /\ stray = [b \in Offsets |-> "no"]
    /\ synced = [b \in Offsets |-> 0]
    /\ status = "down"
    /\ segs = <<>>
    /\ next = [b \in Offsets |-> 0]
    /\ size = [b \in Offsets |-> 0]
    /\ open = [b \in Offsets |-> FALSE]
    /\ index = [b \in Offsets |-> <<>>]
    /\ buf = [b \in Offsets |-> <<>>]
    /\ lock = NoThread
    /\ op = [t \in Threads |-> Idle]
    /\ rd = [r \in Readers |-> NoRead]
    /\ acked = {} /\ promised = {}
    /\ crashes = 0 /\ faults = 0

-----------------------------------------------------------------------------
(* What a Segment does to itself, at opening and while it is the tail.     *)

\* Segment.__init__ up to the scan of its file: the file exists from here on,
\* the index is emptied, and counting starts at the base.
NewSegment(b) ==
    /\ files' = files \cup {b}
    /\ segs' = Append(segs, b)
    /\ next' = [next EXCEPT ![b] = b]
    /\ size' = [size EXCEPT ![b] = 0]
    /\ index' = [index EXCEPT ![b] = <<>>]

\* (variant of Count: the offset is taken for a relative one)
Count_Relative(b, off, pos, end) ==
    /\ next' = [next EXCEPT ![b] = b + off + 1]
    /\ size' = [size EXCEPT ![b] = end]
    /\ index' = [index EXCEPT ![b] = MaybeAppend(@, off, pos)]

\* One more record, of that offset and from pos to end, counted by _recover
\* or at the end of append.
Count(b, off, pos, end) ==
    /\ next' = [next EXCEPT ![b] = off + 1]
    /\ size' = [size EXCEPT ![b] = end]
    /\ index' = [index EXCEPT ![b] = MaybeAppend(@, off, pos)]

\* What a flush of the segment's file object does: whatever an earlier failed
\* flush left in its buffer goes out too, and completes a torn record.
Flushed(b) == recs[b] \o buf[b]

\* (variant of FsyncTail: flushed, never fsynced)
FsyncTail_FlushOnly ==
    /\ open[Active]
    /\ recs' = [recs EXCEPT ![Active] = Flushed(Active)]
    /\ buf' = [buf EXCEPT ![Active] = <<>>]
    /\ torn' = [torn EXCEPT ![Active] = @ /\ buf[Active] = <<>>]
    /\ UNCHANGED <<stray, synced, linked>>

\* Segment.sync of the tail: flush and fsync.  Without a handle it raises.
FsyncTail ==
    /\ open[Active]
    /\ recs' = [recs EXCEPT ![Active] = Flushed(Active)]
    /\ buf' = [buf EXCEPT ![Active] = <<>>]
    /\ torn' = [torn EXCEPT ![Active] = @ /\ buf[Active] = <<>>]
    /\ synced' = [synced EXCEPT ![Active] = Len(Flushed(Active))]
    /\ linked' = linked \cup {Active}
    /\ UNCHANGED stray

-----------------------------------------------------------------------------
(* Opening: Log.__init__, one Segment after another in order of base.      *)

Start ==
    /\ status = "down"
    /\ status' = "opening"
    /\ UNCHANGED <<disk, chain, threads, rd, history, bounds>>

Opened   == {segs[i] : i \in DOMAIN segs}
Unopened == files \ Opened

\* The next segment is constructed; an empty directory gets one based at 0.
RecoverBegin ==
    /\ status = "opening"
    /\ \E b \in (IF files = {} THEN {0} ELSE Unopened) :
        /\ \A c \in Unopened : b <= c
        /\ NewSegment(b)
    /\ status' = "scanning"
    /\ UNCHANGED <<recs, torn, stray, synced, linked, open, buf, threads, rd, history, bounds>>

\* Records of the segment that the scan has passed.
Scanned(b) == next[b] - b

\* One turn of the scan: the offset must be the next one, or the log is refused.
RecoverRecord ==
    /\ status = "scanning"
    /\ Scanned(Active) < Len(recs[Active])
    /\ LET b   == Active
           rec == recs[b][Scanned(b) + 1]
       IN  \/ /\ rec.off = next[b]
              /\ Count(b, rec.off, rec.pos, RecordEnd(rec))
              /\ UNCHANGED status
           \/ /\ rec.off # next[b]
              /\ status' = "refused"
              /\ UNCHANGED <<next, index, size>>
    /\ UNCHANGED <<disk, segs, open, buf, threads, rd, history, bounds>>

\* (variant of RecoverEnd: cut at the start of the last record, not at its end)
RecoverEnd_CutsLast ==
    /\ status = "scanning"
    /\ Scanned(Active) = Len(recs[Active]) /\ stray[Active] # "junk"
    /\ LET left == IF torn[Active] /\ recs[Active] # <<>> THEN Len(recs[Active]) - 1
                                                        ELSE Len(recs[Active])
       IN  /\ recs' = [recs EXCEPT ![Active] = SubSeq(@, 1, left)]
           /\ next' = [next EXCEPT ![Active] = Active + left]
           /\ size' = [size EXCEPT ![Active] = FileEnd(SubSeq(recs[Active], 1, left))]
    /\ torn' = [torn EXCEPT ![Active] = FALSE]
    /\ stray' = [stray EXCEPT ![Active] = "no"]
    /\ open' = [open EXCEPT ![Active] = TRUE]
    /\ status' = "opening"
    /\ UNCHANGED <<files, synced, linked, segs, index, buf, threads, rd, history, bounds>>

\* The end of the scan: a torn tail is cut off and the write handle opened.
RecoverEnd ==
    /\ status = "scanning"
    /\ Scanned(Active) = Len(recs[Active]) /\ stray[Active] # "junk"
    /\ torn' = [torn EXCEPT ![Active] = FALSE]
    /\ stray' = [stray EXCEPT ![Active] = "no"]
    /\ open' = [open EXCEPT ![Active] = TRUE]
    /\ status' = "opening"
    /\ UNCHANGED <<files, recs, synced, linked, segs, next, size, index, buf,
                   threads, rd, history, bounds>>

\* Record.read_one meets bytes that are no record: the log is refused.
RecoverJunk ==
    /\ status = "scanning"
    /\ Scanned(Active) = Len(recs[Active]) /\ stray[Active] = "junk"
    /\ status' = "refused"
    /\ UNCHANGED <<disk, chain, threads, rd, history, bounds>>

\* CorruptLog unless every segment starts where the one before it ends.
ChainUnbroken == \A i \in 1 .. Len(segs) - 1 : segs[i + 1] = next[segs[i]]

\* All segments are open: check the chain and seal (fsync, close) all but the tail.
OpenEnd ==
    /\ status = "opening" /\ segs # <<>> /\ Unopened = {}
    /\ \/ /\ ChainUnbroken
          /\ LET sealed == Opened \ {Active}
             IN  /\ synced' = [b \in Offsets |-> IF b \in sealed THEN Len(recs[b]) ELSE synced[b]]
                 /\ linked' = linked \cup sealed
                 /\ open' = [b \in Offsets |-> open[b] /\ b \notin sealed]
          /\ status' = "up"
       \/ /\ ~ ChainUnbroken
          /\ status' = "refused"
          /\ UNCHANGED <<synced, linked, open>>
    /\ UNCHANGED <<files, recs, torn, stray, segs, next, size, index, buf,
                   threads, rd, history, bounds>>

-----------------------------------------------------------------------------
(* Appending and rolling, under the lock.                                  *)

\* (variant of Acquire: no mutual exclusion)
Acquire_NoLock(t) ==
    /\ status = "up" /\ op[t].pc = "idle"
    /\ lock' = t

Acquire(t) ==
    /\ status = "up" /\ op[t].pc = "idle"
    /\ lock = NoThread
    /\ lock' = t

Goto(t, pc) == op' = [op EXCEPT ![t].pc = pc]

\* The with-block ends, normally or by an exception: the lock is released.
Leave(t) ==
    /\ lock' = NoThread
    /\ op' = [op EXCEPT ![t] = Idle]

\* Log.append: claim the next offset, and roll first if the tail has no room.
AppendBegin(t, v) ==
    /\ Acquire(t)
    /\ next[Active] < MaxOffset /\ Len(Flushed(Active)) < MaxOffset
    /\ op' = [op EXCEPT ![t] =
                [pc  |-> IF HasRoomFor(size[Active], v) THEN "write" ELSE "seal",
                 off |-> next[Active], val |-> v, at |-> 0]]
    /\ UNCHANGED <<disk, status, chain, rd, history, bounds>>

\* Log.roll asked for by an operator; on an empty tail it does nothing.
RollBegin(t) ==
    /\ Acquire(t)
    /\ size[Active] # 0
    /\ op' = [op EXCEPT ![t] = [Idle EXCEPT !.pc = "seal"]]
    /\ UNCHANGED <<disk, status, chain, rd, history, bounds>>

\* The part of roll that seals the tail: Segment.close, a flush and an fsync,
\* then the handle is dropped.  A tail that is closed already is left alone.
Seal(t) ==
    /\ op[t].pc = "seal"
    /\ \/ /\ FsyncTail
          /\ open' = [open EXCEPT ![Active] = FALSE]
       \/ /\ ~ open[Active]
          /\ UNCHANGED <<recs, buf, torn, stray, synced, linked, open>>
    /\ Goto(t, "create")
    /\ UNCHANGED <<files, status, segs, next, size, index, lock, rd, history, bounds>>

\* The part of roll that starts the new tail, a Segment based at the next
\* offset.  Its constructor would scan the file, which holds nothing.
Create(t) ==
    /\ op[t].pc = "create"
    /\ NewSegment(next[Active])
    /\ open' = [open EXCEPT ![next[Active]] = TRUE]
    /\ IF op[t].val = NoValue
       THEN Leave(t)
       ELSE Goto(t, "write") /\ UNCHANGED lock
    /\ UNCHANGED <<recs, torn, stray, synced, linked, status, buf, rd, history, bounds>>

\* The constructor of the new Segment raises, before or after it made the file.
CreateFails(t) ==
    /\ op[t].pc = "create" /\ faults < MaxFaults
    /\ files' \in {files, files \cup {next[Active]}}
    /\ faults' = faults + 1
    /\ Leave(t)
    /\ UNCHANGED <<recs, torn, stray, synced, linked, status, chain, rd, history, crashes>>

\* Segment.append, its check and the position where the record will start.
WriteBegin(t) ==
    /\ op[t].pc = "write"
    /\ open[Active] /\ op[t].off = next[Active]
    /\ op' = [op EXCEPT ![t].pc = "flush", ![t].at = size[Active]]
    /\ UNCHANGED <<disk, status, chain, lock, rd, history, bounds>>

\* (variant of WriteRejected: the exception leaves the lock held)
WriteRejected_KeepsLock(t) ==
    /\ op[t].pc = "write"
    /\ ~ open[Active] \/ op[t].off # next[Active]
    /\ op' = [op EXCEPT ![t] = Idle]
    /\ UNCHANGED <<disk, status, chain, lock, rd, history, bounds>>

\* Segment.append raises at once: the tail is closed, or the offset is not next.
WriteRejected(t) ==
    /\ op[t].pc = "write"
    /\ ~ open[Active] \/ op[t].off # next[Active]
    /\ Leave(t)
    /\ UNCHANGED <<disk, status, chain, rd, history, bounds>>

\* A part of the record has reached the file: readers and a crash can see it.
FlushPartly(t) ==
    /\ op[t].pc = "flush" /\ ~ torn[Active] /\ stray[Active] = "no"
    /\ torn' = [torn EXCEPT ![Active] = TRUE]
    /\ UNCHANGED <<files, recs, stray, synced, linked, status, chain, threads, rd, history, bounds>>

\* The whole of it has.
Flush(t) ==
    /\ op[t].pc = "flush" /\ stray[Active] = "no"
    /\ recs' = [recs EXCEPT ![Active] =
                    Append(Flushed(Active), LandAt(Flushed(Active), op[t].off, op[t].val))]
    /\ buf' = [buf EXCEPT ![Active] = <<>>]
    /\ torn' = [torn EXCEPT ![Active] = FALSE]
    /\ Goto(t, "account")
    /\ UNCHANGED <<files, stray, synced, linked, status, segs, next, size, open, index,
                   lock, rd, history, bounds>>

\* The write or its flush raises after k whole records, and perhaps a part of
\* the next.  What earlier flushes left stays in the file object's buffer.  The
\* record stays there too if it is kept: if what it has still to write fits in.
\* One that does not fit is dropped, and the part of it that is in the file by
\* then ends the records there for good.
FlushFails(t) ==
    /\ op[t].pc = "flush" /\ faults < MaxFaults /\ stray[Active] = "no"
    /\ LET out == Append(buf[Active], LandAt(Flushed(Active), op[t].off, op[t].val))
       IN  \E k \in 0 .. Len(out) - 1, part, kept \in BOOLEAN :
            LET rest == SubSeq(out, k + 1, IF kept THEN Len(out) ELSE Len(buf[Active])) IN
            /\ k = 0 => part = torn[Active]
            /\ recs' = [recs EXCEPT ![Active] = @ \o SubSeq(out, 1, k)]
            /\ buf' = [buf EXCEPT ![Active] = rest]
            /\ torn' = [torn EXCEPT ![Active] = part /\ rest # <<>>]
            /\ stray' = [stray EXCEPT ![Active] = IF part /\ rest = <<>> THEN "part" ELSE "no"]
    /\ faults' = faults + 1
    /\ Leave(t)
    /\ UNCHANGED <<files, synced, linked, status, segs, next, size, open, index,
                   rd, history, crashes>>

\* Behind such a part no record can be read, and the append raises: its flush
\* does, or tell() is off.  Enough bytes behind it make the part look whole, and
\* its CRC wrong.
Bury(t) ==
    /\ op[t].pc = "flush" /\ stray[Active] # "no"
    /\ \E s \in {stray[Active], "junk"} : stray' = [stray EXCEPT ![Active] = s]
    /\ Leave(t)
    /\ UNCHANGED <<files, recs, torn, synced, linked, status, chain, rd, history, bounds>>

\* tell() is where it should be: the segment moves on and append returns.
AppendReturns(t) ==
    /\ op[t].pc = "account"
    /\ FileEnd(recs[Active]) = op[t].at + Size[op[t].val]
    /\ Count(Active, op[t].off, op[t].at, FileEnd(recs[Active]))
    /\ acked' = acked \cup {[off |-> op[t].off, val |-> op[t].val]}
    /\ Leave(t)
    /\ UNCHANGED <<disk, status, segs, open, buf, rd, promised, bounds>>

\* It is not ("another writer?"): RuntimeError, and nothing is accounted for.
AppendMismatch(t) ==
    /\ op[t].pc = "account"
    /\ FileEnd(recs[Active]) # op[t].at + Size[op[t].val]
    /\ Leave(t)
    /\ UNCHANGED <<disk, status, chain, rd, history, bounds>>

-----------------------------------------------------------------------------
(* Log.sync and Log.close.  Each holds the lock throughout.                *)

\* Log.sync vouches for the whole log, though only the tail is synced.
Sync ==
    /\ status = "up" /\ lock = NoThread
    /\ FsyncTail
    /\ promised' = acked
    /\ UNCHANGED <<files, status, segs, next, size, open, index, threads, rd, acked, bounds>>

\* Log.close: Segment.close of every segment; those but the tail are closed.
Close ==
    /\ status = "up" /\ lock = NoThread
    /\ FsyncTail
    /\ open' = [open EXCEPT ![Active] = FALSE]
    /\ promised' = acked
    /\ UNCHANGED <<files, status, segs, next, size, index, threads, rd, acked, bounds>>

-----------------------------------------------------------------------------
(* Reading: Log._iter_from and Segment._iter_from.                         *)

\* The chain is copied under the lock.  The read starts in the last segment
\* based at or before the offset; upto is history: all below it are acked.
ReadBegin(r, o) ==
    /\ status = "up" /\ rd[r].pc \in {"idle", "done"}
    /\ lock = NoThread
    /\ o >= segs[1]
    /\ rd' = [rd EXCEPT ![r] =
                [pc |-> "open", from |-> o, upto |-> next[Active], snap |-> segs,
                 i |-> BisectRight(segs, o), cur |-> 1, got |-> <<>>]]
    /\ UNCHANGED <<disk, status, chain, threads, history, bounds>>

\* Look the start up in the index and seek there.
ReadOpen(r) ==
    /\ rd[r].pc = "open"
    /\ LET b == rd[r].snap[rd[r].i]
           hint == Lookup(index[b], b, rd[r].from)
       IN  rd' = [rd EXCEPT ![r].pc = "scan", ![r].cur = StartScan(recs[b], hint)]
    /\ UNCHANGED <<disk, status, chain, threads, history, bounds>>

\* Record.read_one finds a whole record; those before the start are skipped.
ReadRecord(r) ==
    /\ rd[r].pc = "scan"
    /\ LET b == rd[r].snap[rd[r].i]
           rec == recs[b][rd[r].cur]
       IN  /\ rd[r].cur <= Len(recs[b])
           /\ rd' = [rd EXCEPT ![r].cur = @ + 1,
                               ![r].got = IF rec.off >= rd[r].from
                                          THEN Append(@, [off |-> rec.off, val |-> rec.val])
                                          ELSE @]
    /\ UNCHANGED <<disk, status, chain, threads, history, bounds>>

\* (variant of ReadEof: the end of a segment is taken for the end of the log)
ReadEof_Stops(r) ==
    /\ rd[r].pc = "scan"
    /\ rd[r].cur > Len(recs[rd[r].snap[rd[r].i]]) /\ stray[rd[r].snap[rd[r].i]] # "junk"
    /\ rd' = [rd EXCEPT ![r].pc = "done"]
    /\ UNCHANGED <<disk, status, chain, threads, history, bounds>>

\* It finds the end of the file, or a part of a record: on to the next
\* segment of the snapshot, or done.  At junk it raises and yields no more.
ReadEof(r) ==
    /\ rd[r].pc = "scan"
    /\ rd[r].cur > Len(recs[rd[r].snap[rd[r].i]]) /\ stray[rd[r].snap[rd[r].i]] # "junk"
    /\ \/ /\ rd[r].i < Len(rd[r].snap)
          /\ rd' = [rd EXCEPT ![r].pc = "open", ![r].i = @ + 1]
       \/ /\ rd[r].i = Len(rd[r].snap)
          /\ rd' = [rd EXCEPT ![r].pc = "done"]
    /\ UNCHANGED <<disk, status, chain, threads, history, bounds>>

-----------------------------------------------------------------------------
(* The process dies, or the machine loses power.                           *)

LoseMemory ==
    /\ status' = "down"
    /\ segs' = <<>>
    /\ next' = [b \in Offsets |-> 0]
    /\ size' = [b \in Offsets |-> 0]
    /\ open' = [b \in Offsets |-> FALSE]
    /\ index' = [b \in Offsets |-> <<>>]
    /\ buf' = [b \in Offsets |-> <<>>]
    /\ lock' = NoThread
    /\ op' = [t \in Threads |-> Idle]
    /\ rd' = [r \in Readers |-> NoRead]

ProcessCrash ==
    /\ status # "down" /\ crashes < MaxCrashes
    /\ crashes' = crashes + 1
    /\ LoseMemory
    /\ UNCHANGED <<disk, history, faults>>

\* The files keep what was fsynced and a prefix of the rest, cut anywhere; a
\* file whose entry was never made durable may be gone.  A stray part, fsynced
\* or not, may be kept, cut or lost.
PowerLoss ==
    /\ crashes < MaxCrashes
    /\ crashes' = crashes + 1
    /\ \E gone \in SUBSET (files \ linked), keep \in [files -> 0 .. MaxOffset] :
        /\ \A b \in files : IF b \in gone THEN keep[b] = 0
                                          ELSE keep[b] \in synced[b] .. Len(recs[b])
        /\ \E frag \in SUBSET {b \in files \ gone : torn[b] \/ keep[b] < Len(recs[b])} :
            torn' = [b \in Offsets |-> b \in frag]
        /\ \E left \in [{b \in files \ gone : stray[b] # "no" /\ keep[b] = Len(recs[b])} -> StrayType] :
            /\ \A b \in DOMAIN left : left[b] = "junk" => stray[b] = "junk"
            /\ stray' = [b \in Offsets |-> IF b \in DOMAIN left THEN left[b] ELSE "no"]
        /\ files' = files \ gone
        /\ recs' = [b \in Offsets |-> IF b \in files THEN SubSeq(recs[b], 1, keep[b]) ELSE <<>>]
    /\ acked' = acked \cap Written'
    /\ UNCHANGED <<synced, linked, promised, faults>>
    /\ LoseMemory

-----------------------------------------------------------------------------
Recover == Start \/ RecoverBegin \/ RecoverRecord \/ RecoverEnd \/ RecoverJunk \/ OpenEnd

Proceed(t) ==
    \/ Seal(t) \/ Create(t) \/ WriteBegin(t) \/ WriteRejected(t)
    \/ Flush(t) \/ Bury(t) \/ AppendReturns(t) \/ AppendMismatch(t)

Fail(t) == FlushPartly(t) \/ FlushFails(t) \/ CreateFails(t)

ReadStep(r) == ReadOpen(r) \/ ReadRecord(r) \/ ReadEof(r)

Next ==
    \/ Recover
    \/ \E t \in Threads : \/ \E v \in Values : AppendBegin(t, v)
                          \/ RollBegin(t)
                          \/ Proceed(t)
                          \/ Fail(t)
    \/ Sync
    \/ Close
    \/ \E r \in Readers : \/ \E o \in Offsets : ReadBegin(r, o)
                          \/ ReadStep(r)
    \/ ProcessCrash
    \/ PowerLoss

Spec == Init /\ [][Next]_vars

\* The broker is restarted when it is down, and a thread that holds the lock
\* keeps running: it waits for nothing but the disk.
FairSpec == Spec /\ WF_vars(Recover) /\ \A t \in Threads : WF_vars(Proceed(t))

-----------------------------------------------------------------------------
(* Properties.                                                             *)

RecordType == [off : 0 .. MaxOffset - 1, val : Values, pos : Nat]
EntryType  == [off : Nat, pos : Nat]
AckType    == [off : Nat, val : Values]
OpType == [pc  : {"idle", "seal", "create", "write", "flush", "account"},
           off : Offsets, val : Values \cup {NoValue}, at : Nat]
ReadType == [pc   : {"idle", "open", "scan", "done"},
             from : Nat, upto : Nat, snap : Seq(Offsets), i : Nat, cur : Nat,
             got  : Seq(AckType)]

\* Every variable has its type (the fields of Log, Segment and Index, and
\* what the files of the directory hold).
TypeOK ==
    /\ files \subseteq Offsets /\ linked \subseteq Offsets
    /\ recs \in [Offsets -> Seq(RecordType)]
    /\ torn \in [Offsets -> BOOLEAN]
    /\ stray \in [Offsets -> StrayType]
    /\ synced \in [Offsets -> Nat]
    /\ status \in {"down", "opening", "scanning", "up", "refused"}
    /\ segs \in Seq(Offsets)
    /\ next \in [Offsets -> Offsets]
    /\ size \in [Offsets -> Nat]
    /\ open \in [Offsets -> BOOLEAN]
    /\ index \in [Offsets -> Seq(EntryType)]
    /\ buf \in [Offsets -> Seq(RecordType)]
    /\ lock \in Threads \cup {NoThread}
    /\ op \in [Threads -> OpType]
    /\ rd \in [Readers -> ReadType]
    /\ acked \subseteq AckType
    /\ promised \subseteq AckType
    /\ crashes \in 0 .. MaxCrashes /\ faults \in 0 .. MaxFaults

\* Offsets on disk are strictly sequential: the records of a file count up
\* from its base without gap or repetition (the comment in Segment._recover),
\* whatever writers, rolls and crashes did.
SequentialFiles ==
    \A b \in files : \A i \in 1 .. Len(recs[b]) : recs[b][i].off = b + i - 1

\* The files form one chain from 0: one ends where the next begins, and only
\* the last may be empty, hold a torn record, or lack an fsync (Log.__init__,
\* Log.roll).
ChainedFiles ==
    /\ files # {} => 0 \in files
    /\ \A b, c \in files : b < c =>
        /\ b + Len(recs[b]) <= c
        /\ ~ torn[b] /\ synced[b] = Len(recs[b]) /\ b \in linked
    /\ \A c \in files \ {0} : \E b \in files : b < c /\ b + Len(recs[b]) = c

\* A directory that pyka itself wrote is always accepted when it is opened
\* again: no CorruptRecord, no CorruptLog.
NeverRefused == status # "refused"

\* A record whose append returned is in the files, at its offset, until a
\* power loss takes it; recovery cuts off none of them.
AckedOnDisk == acked \subseteq Written

\* What a returned sync or close vouched for stays where no power loss can
\* take it, though Log.sync syncs only the tail.
PromisedSafe == promised \subseteq WrittenSafe

\* Every index entry of an open segment is the start of a record of that
\* offset in its file, and entries increase (Index.maybe_append).  It is proved,
\* for the reads that rest on it, and not run: a read survives a wrong entry.
IndexSound ==
    \A k \in DOMAIN segs : LET b == segs[k] IN
        /\ \A i \in DOMAIN index[b] : \E j \in DOMAIN recs[b] :
            /\ recs[b][j].off = index[b][i].off /\ recs[b][j].pos = index[b][i].pos
        /\ \A i, j \in DOMAIN index[b] : i < j => index[b][i].off < index[b][j].off

\* What a read has yielded so far is a clean run of records from the offset it
\* asked for: no gap, no repetition, nothing that is not in the files.
CleanRead ==
    \A r \in Readers : \A k \in DOMAIN rd[r].got :
        rd[r].got[k].off = rd[r].from + k - 1 /\ rd[r].got[k] \in Written

\* A read that has ended has yielded every record acknowledged before it
\* began, even if the tail was sealed and a new one started meanwhile.
ReadSeesAcked ==
    \A r \in Readers : rd[r].pc = "done" =>
        \A x \in acked : rd[r].from <= x.off /\ x.off < rd[r].upto =>
            \E k \in DOMAIN rd[r].got : rd[r].got[k] = x

\* A sealed file never changes again, whatever happens to the process or the
\* machine ("only the tail is writable"): the basis of reading it unlocked.
SealedFrozen ==
    [][\A b, c \in files : b < c => b \in files' /\ recs'[b] = recs[b]]_vars

\* The whole log, seen through the records in its files, is a DurableLog: one
\* run of records, of which a power loss takes an unpromised end and a process
\* crash, a recovery or a roll nothing.
DL == INSTANCE DurableLog WITH written <- Written
ImplementsDurableLog == DL!Spec

\* A broken-off opening is no harm: whenever the log is down it is up again in
\* the end, unless the disk failed it.
ComesUp == status = "down" ~> status = "up" \/ faults > 0

\* An append or roll under way ends, and the lock is free again.
LockReleased == \A t \in Threads : lock = t ~> lock # t
=============================================================================
