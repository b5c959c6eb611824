-------------------------- MODULE LogSafetyProofs --------------------------
(***************************************************************************)
(* As long as no write and no file creation has failed, the files of a log *)
(* are one gapless chain of gapless files, and a log that is opened again  *)
(* is never refused: whatever threads, crashes and power losses do, in     *)
(* whatever order, for every number of threads, segment limit and index    *)
(* interval.                                                               *)
(*                                                                         *)
(* The inductive invariant has three parts.  OnDisk is about the files     *)
(* alone and is what a crash leaves to the next opening.  InMemory ties    *)
(* what Segments count to what the files hold.  InThreads says where the   *)
(* thread that holds the lock is between the two.                          *)
(***************************************************************************)
EXTENDS LogProofs

\* The file is complete and safe from a power loss, as a sealed one must be.
SealedFile(b) == ~ torn[b] /\ synced[b] = Len(recs[b]) /\ b \in linked

\* The segment has counted the whole of its file.
Counted(b) == next[b] = b + Len(recs[b]) /\ size[b] = FileEnd(recs[b])

OnDisk ==
    /\ SequentialFiles
    /\ ChainedFiles
    /\ \A b \in Offsets :
        /\ synced[b] <= Len(recs[b])
        /\ b \notin linked => synced[b] = 0
        /\ b \notin files => recs[b] = <<>> /\ ~ torn[b] /\ b \notin linked
        /\ buf[b] = <<>> /\ stray[b] = "no"

InMemory ==
    /\ NeverRefused
    /\ status = "down" => segs = <<>>
    /\ \A i \in 1 .. Len(segs) : segs[i] \in files
    /\ \A i, j \in 1 .. Len(segs) : i < j => segs[i] < segs[j]
    /\ \A i \in 1 .. Len(segs) : \A c \in Unopened : segs[i] < c
    /\ status = "up" => Unopened = {}
    /\ \A i \in 1 .. Len(segs) :
        status = "opening" \/ (status = "scanning" /\ i < Len(segs)) =>
            Counted(segs[i]) /\ open[segs[i]] /\ ~ torn[segs[i]]
    /\ status = "scanning" =>
        /\ next[Active] \in Active .. Active + Len(recs[Active])
        /\ size[Active] = IF next[Active] = Active THEN 0
                          ELSE RecordEnd(recs[Active][next[Active] - Active])

InThreads ==
    /\ \A t \in Threads : op[t].pc # "idle" => lock = t
    /\ status = "up" =>
        /\ ~ open[Active] => SealedFile(Active)
        /\ (\A t \in Threads : op[t].pc # "flush") => ~ torn[Active]
        /\ (\A t \in Threads : op[t].pc # "account") => Counted(Active)
    /\ \A t \in Threads :
        /\ op[t].pc \in {"seal", "create"} => recs[Active] # <<>>
        /\ op[t].pc = "create" => ~ open[Active]
        /\ op[t].pc # "idle" /\ op[t].val # NoValue => op[t].off = next[Active]
        /\ op[t].pc \in {"flush", "account"} => open[Active] /\ op[t].at = size[Active]
        /\ op[t].pc = "account" =>
            /\ FileEnd(recs[Active]) = op[t].at + Size[op[t].val]
            /\ Len(recs[Active]) = next[Active] - Active + 1

Safe == faults = 0 => OnDisk /\ InMemory /\ InThreads

Consistent == OnDisk /\ InMemory /\ InThreads

-----------------------------------------------------------------------------
(* Facts used in several places.                                           *)

\* Writing a record moves the end of the file by the record's length.
LEMMA FileEndAfter ==
    ASSUME NEW s \in Seq(RecordType), NEW off \in 0 .. MaxOffset - 1, NEW v \in Values
    PROVE  /\ FileEnd(Append(s, LandAt(s, off, v))) = FileEnd(s) + Size[v]
           /\ Len(Append(s, LandAt(s, off, v))) = Len(s) + 1
           /\ Append(s, LandAt(s, off, v))[Len(s) + 1].off = off
           /\ \A i \in 1 .. Len(s) : Append(s, LandAt(s, off, v))[i] = s[i]
<1> DEFINE r == LandAt(s, off, v)
           a == Append(s, r)
<1>1. r \in RecordType /\ r.off = off /\ r.val = v /\ r.pos = FileEnd(s)
  BY LandAtType DEF LandAt
<1> HIDE DEF r
<1>2. /\ a # <<>> /\ Len(a) = Len(s) + 1 /\ a[Len(s) + 1] = r
      /\ \A i \in 1 .. Len(s) : a[i] = s[i]
  BY <1>1, AppendProperties
<1> HIDE DEF a
<1>3. FileEnd(a) = FileEnd(s) + Size[v]
  BY <1>1, <1>2 DEF FileEnd, RecordEnd
<1> QED
  BY <1>1, <1>2, <1>3 DEF a, r

\* An open log has its tail among its files, after all the others.
LEMMA ActiveLast ==
    ASSUME TypeInv, InMemory, status \in {"scanning", "up"}
    PROVE  /\ Len(segs) \in Nat /\ Len(segs) >= 1
           /\ Active \in files /\ Active \in Offsets /\ Active \in Nat
           /\ recs[Active] \in Seq(RecordType) /\ Len(recs[Active]) \in Nat
           /\ \A i \in 1 .. Len(segs) : segs[i] <= Active
           /\ status = "up" => \A b \in files : b <= Active
<1>1. Active \in Offsets
  BY ActiveType
<1>2. Len(segs) \in Nat /\ Len(segs) >= 1 /\ DOMAIN segs = 1 .. Len(segs)
  BY LenProperties, EmptySeq DEF TypeInv, TypeOK, Sane
<1>3. Active \in files
  BY <1>2 DEF InMemory, Active
<1>4. recs[Active] \in Seq(RecordType) /\ Len(recs[Active]) \in Nat
  BY <1>1, LenProperties DEF TypeInv, TypeOK
<1>5. \A i \in 1 .. Len(segs) : segs[i] \in Nat
  <2>1. \A i \in 1 .. Len(segs) : segs[i] \in Offsets
    BY ElementOfSeq DEF TypeInv, TypeOK
  <2> QED
    BY <2>1 DEF Offsets
<1>6. \A i \in 1 .. Len(segs) : segs[i] <= Active
  BY <1>2, <1>5 DEF InMemory, Active
<1>7. status = "up" => \A b \in files : b <= Active
  BY <1>2, <1>6 DEF InMemory, Unopened, Opened
<1> QED
  BY <1>1, <1>2, <1>3, <1>4, <1>6, <1>7 DEF Offsets

\* Only one thread is inside append or roll.
LEMMA LockHeld ==
    ASSUME TypeInv, InThreads, NEW t \in Threads, op[t].pc # "idle"
    PROVE  status = "up" /\ \A u \in Threads \ {t} : op[u].pc = "idle"
BY DEF TypeInv, Sane, InThreads

-----------------------------------------------------------------------------
(* Steps that change neither the files nor the segments.                   *)

\* OnDisk and InMemory speak of the directory, the chain and the status alone.
LEMMA SameFiles ==
    ASSUME OnDisk, InMemory, UNCHANGED <<disk, status, chain>>
    PROVE  OnDisk' /\ InMemory'
BY DEF OnDisk, InMemory, SequentialFiles, ChainedFiles, NeverRefused, Unopened, Opened,
       Active, Counted, disk, chain

\* A reader disturbs nothing.
LEMMA SafeRead ==
    ASSUME Consistent, UNCHANGED <<disk, status, chain, threads>>
    PROVE  Consistent'
<1>1. OnDisk' /\ InMemory'
  BY SameFiles DEF Consistent
<1>2. InThreads'
  BY DEF Consistent, InThreads, Active, Counted, SealedFile, disk, chain, threads
<1> QED
  BY <1>1, <1>2 DEF Consistent

\* The offset an append claims is the one after the last record of the tail.
LEMMA SafeAppendBegin ==
    ASSUME TypeInv, Consistent, NEW t \in Threads, NEW v \in Values, AppendBegin(t, v)
    PROVE  Consistent'
<1>1. OnDisk' /\ InMemory'
  BY SameFiles DEF Consistent, AppendBegin
<1> DEFINE new == [pc  |-> IF HasRoomFor(size[Active], v) THEN "write" ELSE "seal",
                   off |-> next[Active], val |-> v, at |-> 0]
<1>2. op' = [op EXCEPT ![t] = new] /\ lock' = t /\ lock = NoThread /\ status = "up"
      /\ UNCHANGED <<disk, status, chain>>
  BY DEF AppendBegin, Acquire
<1>3. \A u \in Threads : op[u].pc = "idle"
  BY <1>2, NoThreadAssumption DEF Consistent, InThreads
<1>4. Counted(Active)
  BY <1>2, <1>3 DEF Consistent, InThreads
<1>5. new.pc \in {"write", "seal"} /\ new.off = next[Active]
      /\ (new.pc = "seal" => recs[Active] # <<>>)
  BY <1>4 DEF HasRoomFor, Counted, FileEnd
<1>6. op'[t] = new /\ \A u \in Threads \ {t} : op'[u].pc = "idle"
  BY <1>2, <1>3 DEF TypeInv, TypeOK
<1>7. Active' = Active /\ (Counted(Active))' /\ (~ open[Active] => SealedFile(Active))' /\ ~ torn'[Active]
  BY <1>2, <1>3, <1>4 DEF Consistent, InThreads, Active, Counted, SealedFile, disk, chain
<1> HIDE DEF new
<1>8. InThreads'
  BY <1>2, <1>5, <1>6, <1>7 DEF InThreads, disk, chain
<1> QED
  BY <1>1, <1>8 DEF Consistent

\* A roll that begins has claimed nothing yet.
LEMMA SafeRollBegin ==
    ASSUME TypeInv, Consistent, NEW t \in Threads, RollBegin(t)
    PROVE  Consistent'
<1>1. OnDisk' /\ InMemory'
  BY SameFiles DEF Consistent, RollBegin
<1> DEFINE new == [Idle EXCEPT !.pc = "seal"]
<1>2. op' = [op EXCEPT ![t] = new] /\ lock' = t /\ lock = NoThread /\ status = "up"
      /\ UNCHANGED <<disk, status, chain>> /\ size[Active] # 0
  BY DEF RollBegin, Acquire
<1>3. \A u \in Threads : op[u].pc = "idle"
  BY <1>2, NoThreadAssumption DEF Consistent, InThreads
<1>4. Counted(Active)
  BY <1>2, <1>3 DEF Consistent, InThreads
<1>5. new.pc = "seal" /\ new.val = NoValue /\ recs[Active] # <<>>
  BY <1>2, <1>4 DEF Counted, FileEnd, Idle
<1>6. op'[t] = new /\ \A u \in Threads \ {t} : op'[u].pc = "idle"
  BY <1>2, <1>3 DEF TypeInv, TypeOK
<1>7. Active' = Active /\ (Counted(Active))' /\ (~ open[Active] => SealedFile(Active))' /\ ~ torn'[Active]
  BY <1>2, <1>3, <1>4 DEF Consistent, InThreads, Active, Counted, SealedFile, disk, chain
<1> HIDE DEF new
<1>8. InThreads'
  BY <1>2, <1>5, <1>6, <1>7 DEF InThreads, disk, chain
<1> QED
  BY <1>1, <1>8 DEF Consistent

\* The record will start where the tail ends.
LEMMA SafeWriteBegin ==
    ASSUME TypeInv, Consistent, NEW t \in Threads, WriteBegin(t)
    PROVE  Consistent'
<1>1. OnDisk' /\ InMemory'
  BY SameFiles DEF Consistent, WriteBegin
<1>2. /\ op' = [op EXCEPT ![t].pc = "flush", ![t].at = size[Active]] /\ lock' = lock
      /\ UNCHANGED <<disk, status, chain>> /\ open[Active] /\ op[t].pc = "write"
  BY DEF WriteBegin
<1>3. status = "up" /\ \A u \in Threads \ {t} : op[u].pc = "idle"
  BY <1>2, LockHeld DEF Consistent
<1>4. /\ op'[t].pc = "flush" /\ op'[t].off = op[t].off /\ op'[t].val = op[t].val
      /\ op'[t].at = size[Active]
      /\ \A u \in Threads \ {t} : op'[u] = op[u]
  BY <1>2 DEF TypeInv, TypeOK, OpType
<1>5. Active' = Active /\ (Counted(Active))'
  <2>1. Active' = Active
    BY <1>2 DEF Active, chain
  <2>2. Counted(Active)
    BY <1>2, <1>3 DEF Consistent, InThreads
  <2>3. next' = next /\ recs' = recs /\ size' = size
    BY <1>2 DEF disk, chain
  <2>4. /\ next'[Active'] = next[Active] /\ size'[Active'] = size[Active]
        /\ recs'[Active'] = recs[Active]
    BY <2>1, <2>3
  <2>5. QED
    BY <2>1, <2>2, <2>4, Zenon DEF Counted
<1>6. InThreads'
  BY <1>2, <1>3, <1>4, <1>5, ZenonT(60) DEF Consistent, InThreads, SealedFile, disk, chain
<1> QED
  BY <1>1, <1>6 DEF Consistent

\* A refused append releases the lock and leaves the files alone.
LEMMA SafeWriteRejected ==
    ASSUME TypeInv, Consistent, NEW t \in Threads, WriteRejected(t)
    PROVE  Consistent'
<1>1. OnDisk' /\ InMemory'
  BY SameFiles DEF Consistent, WriteRejected
<1>2. /\ op' = [op EXCEPT ![t] = Idle] /\ lock' = NoThread
      /\ UNCHANGED <<disk, status, chain>> /\ op[t].pc = "write"
  BY DEF WriteRejected, Leave
<1>3. status = "up" /\ \A u \in Threads \ {t} : op[u].pc = "idle"
  BY <1>2, LockHeld DEF Consistent
<1>4. \A u \in Threads : op'[u].pc = "idle"
  BY <1>2, <1>3 DEF TypeInv, TypeOK, Idle
<1>5. Active' = Active /\ (Counted(Active))' /\ ~ torn'[Active] /\ (~ open[Active] => SealedFile(Active))'
  BY <1>2, <1>3 DEF Consistent, InThreads, Active, Counted, SealedFile, disk, chain
<1>6. InThreads'
  BY <1>4, <1>5 DEF InThreads
<1> QED
  BY <1>1, <1>6 DEF Consistent

\* A write that has reached the file is where tell() says it should be.
LEMMA NoMismatch ==
    ASSUME Consistent, NEW t \in Threads, AppendMismatch(t)
    PROVE  FALSE
BY DEF Consistent, InThreads, AppendMismatch

\* Only a write that failed leaves a part of a record that no flush completes.
LEMMA NoneStray ==
    ASSUME TypeInv, Consistent
    PROVE  ~ RecoverJunk /\ \A t \in Threads : ~ Bury(t)
<1>1. \A b \in Offsets : stray[b] = "no"
  BY DEF Consistent, OnDisk
<1>2. status \in {"scanning", "up"} => Active \in Offsets
  BY ActiveType
<1>3. \A t \in Threads : op[t].pc = "flush" => status = "up"
  BY DEF TypeInv, Sane
<1> QED
  BY <1>1, <1>2, <1>3 DEF RecoverJunk, Bury

-----------------------------------------------------------------------------
(* Steps that change the tail of an open log, and its file.                *)

\* What happens to the last file cannot break the chain, as long as the
\* records in it still count up from its base.
LEMMA TailOnly ==
    ASSUME TypeInv, Consistent, status = "up", UNCHANGED <<files, stray, segs, status>>,
           \A b \in Offsets \ {Active} :
               /\ recs'[b] = recs[b] /\ torn'[b] = torn[b] /\ synced'[b] = synced[b]
               /\ b \in linked' <=> b \in linked,
           \A i \in 1 .. Len(recs'[Active]) : recs'[Active][i].off = Active + i - 1,
           synced'[Active] <= Len(recs'[Active]),
           Active \notin linked' => synced'[Active] = 0,
           \A b \in Offsets : buf'[b] = <<>>
    PROVE  OnDisk' /\ InMemory' /\ Active' = Active
<1>1. Active \in files /\ Active \in Offsets /\ \A b \in files : b <= Active
  BY ActiveLast DEF Consistent
<1>2. files \subseteq Offsets /\ \A b \in files : b \in Nat
  BY DEF TypeInv, TypeOK, Offsets
<1>3. \A b, c \in files : b < c => b # Active
  BY <1>1, <1>2
<1>4. SequentialFiles'
  BY <1>1, <1>2 DEF Consistent, OnDisk, SequentialFiles
<1>5. ChainedFiles'
  <2>1. files # {} => 0 \in files
    BY DEF Consistent, OnDisk, ChainedFiles
  <2>2. ASSUME NEW b \in files, NEW c \in files, b < c
        PROVE  /\ b + Len(recs'[b]) <= c
               /\ ~ torn'[b] /\ synced'[b] = Len(recs'[b]) /\ b \in linked'
    <3>1. b \in Offsets \ {Active}
      BY <1>2, <1>3, <2>2
    <3> QED
      BY <2>2, <3>1 DEF Consistent, OnDisk, ChainedFiles
  <2>3. ASSUME NEW c \in files \ {0}
        PROVE  \E b \in files : b < c /\ b + Len(recs'[b]) = c
    <3>1. PICK b \in files : b < c /\ b + Len(recs[b]) = c
      BY DEF Consistent, OnDisk, ChainedFiles
    <3>2. b \in Offsets \ {Active}
      BY <1>2, <1>3, <3>1
    <3> QED
      BY <3>1, <3>2
  <2> QED
    BY <2>1, <2>2, <2>3 DEF ChainedFiles
<1>6. OnDisk'
  BY <1>1, <1>4, <1>5 DEF Consistent, OnDisk
<1>7. InMemory'
  BY DEF Consistent, InMemory, NeverRefused, Unopened, Opened
<1> QED
  BY <1>6, <1>7 DEF Active

\* A torn record is only ever at the end of the tail.
LEMMA SafeFlushPartly ==
    ASSUME TypeInv, Consistent, NEW t \in Threads, FlushPartly(t)
    PROVE  Consistent'
<1>1. op[t].pc = "flush" /\ torn' = [torn EXCEPT ![Active] = TRUE]
      /\ UNCHANGED <<files, recs, stray, synced, linked, status, chain, threads>>
  BY DEF FlushPartly
<1>2. status = "up" /\ Active \in Offsets /\ Active \in files
  BY <1>1, LockHeld, ActiveLast DEF Consistent
<1>3. \A b \in Offsets \ {Active} : torn'[b] = torn[b]
  BY <1>1 DEF TypeInv, TypeOK
<1>4. OnDisk' /\ InMemory' /\ Active' = Active
  BY <1>1, <1>2, <1>3, TailOnly DEF Consistent, OnDisk, SequentialFiles, chain
<1>5. open[Active]
  BY <1>1 DEF Consistent, InThreads
<1>6. InThreads'
  BY <1>1, <1>2, <1>4, <1>5 DEF Consistent, InThreads, Counted, SealedFile, chain, threads
<1> QED
  BY <1>4, <1>6 DEF Consistent

\* The record lands with the offset claimed for it, after the last one.
LEMMA SafeFlush ==
    ASSUME TypeInv, Consistent, NEW t \in Threads, Flush(t)
    PROVE  Consistent'
<1> DEFINE old == recs[Active]
           all == Append(old, LandAt(old, op[t].off, op[t].val))
<1>1. /\ op[t].pc = "flush" /\ Goto(t, "account")
      /\ UNCHANGED <<files, stray, synced, linked, status, segs, next, size, open, lock>>
  BY DEF Flush
<1>2. /\ status = "up" /\ Active \in Offsets /\ Active \in files /\ Active \in Nat
      /\ old \in Seq(RecordType) /\ Len(old) \in Nat
      /\ \A u \in Threads \ {t} : op[u].pc = "idle"
  BY <1>1, LockHeld, ActiveLast DEF Consistent
<1>3. op[t].off \in 0 .. MaxOffset - 1 /\ op[t].val \in Values /\ op[t].val # NoValue
  BY <1>1, TypeRecord, NoValueAssumption
<1>4. Flushed(Active) = old
  BY <1>2, ConcatEmptySeq DEF Consistent, OnDisk, Flushed
<1>5. /\ FileEnd(all) = FileEnd(old) + Size[op[t].val] /\ Len(all) = Len(old) + 1
      /\ all[Len(old) + 1].off = op[t].off /\ \A i \in 1 .. Len(old) : all[i] = old[i]
  BY <1>2, <1>3, FileEndAfter
<1>6. /\ recs' = [recs EXCEPT ![Active] = all]
      /\ buf' = [buf EXCEPT ![Active] = <<>>]
      /\ torn' = [torn EXCEPT ![Active] = FALSE]
  BY <1>4 DEF Flush
<1>7. /\ open[Active] /\ op[t].at = size[Active] /\ op[t].off = next[Active]
      /\ next[Active] = Active + Len(old) /\ size[Active] = FileEnd(old)
  BY <1>1, <1>2, <1>3 DEF Consistent, InThreads, Counted
<1> HIDE DEF all
<1>8. recs'[Active] = all /\ ~ torn'[Active]
  BY <1>2, <1>6 DEF TypeInv, TypeOK
<1>9. \A b \in Offsets \ {Active} : recs'[b] = recs[b] /\ torn'[b] = torn[b]
  BY <1>6 DEF TypeInv, TypeOK
<1>10. \A b \in Offsets : buf'[b] = <<>>
  BY <1>6 DEF TypeInv, TypeOK, Consistent, OnDisk
<1>11. \A i \in 1 .. Len(all) : all[i].off = Active + i - 1
  <2> TAKE i \in 1 .. Len(all)
  <2>1. CASE i = Len(old) + 1
    BY <1>2, <1>5, <1>7, <2>1
  <2>2. CASE i # Len(old) + 1
    BY <1>2, <1>5, <2>2 DEF Consistent, OnDisk, SequentialFiles
  <2> QED
    BY <2>1, <2>2
<1>12. synced'[Active] <= Len(all)
  BY <1>1, <1>2, <1>5 DEF Consistent, OnDisk, TypeInv, TypeOK
<1>13. OnDisk' /\ InMemory' /\ Active' = Active
  BY <1>1, <1>2, <1>8, <1>9, <1>10, <1>11, <1>12, TailOnly DEF Consistent, OnDisk
<1>14. /\ op'[t].pc = "account" /\ op'[t].off = op[t].off /\ op'[t].val = op[t].val
       /\ op'[t].at = op[t].at
       /\ \A u \in Threads \ {t} : op'[u] = op[u]
  BY <1>1 DEF Goto, TypeInv, TypeOK, OpType
<1>15. Len(all) = next[Active] - Active + 1
  BY <1>2, <1>5, <1>7
<1>16. InThreads'
  <2>1. \A u \in Threads : op'[u].pc # "idle" => u = t
    BY <1>2, <1>14
  <2>2. lock' = t
    BY <1>1 DEF Consistent, InThreads
  <2>3. open' = open /\ next' = next /\ size' = size
    BY <1>1
  <2>4. /\ FileEnd(recs'[Active]) = op'[t].at + Size[op'[t].val]
        /\ Len(recs'[Active]) = next[Active] - Active + 1
    BY <1>5, <1>7, <1>8, <1>14, <1>15
  <2> QED
    BY <1>7, <1>8, <1>13, <1>14, <2>1, <2>2, <2>3, <2>4 DEF InThreads
<1> QED
  BY <1>13, <1>16 DEF Consistent

\* Once accounted for, memory and file agree again.
LEMMA SafeAppendReturns ==
    ASSUME TypeInv, Consistent, NEW t \in Threads, AppendReturns(t)
    PROVE  Consistent'
<1>1. /\ op[t].pc = "account" /\ Leave(t) /\ UNCHANGED <<disk, status, segs, open, buf>>
      /\ Count(Active, op[t].off, op[t].at, FileEnd(recs[Active]))
  BY DEF AppendReturns
<1>2. /\ status = "up" /\ Active \in Offsets /\ Active \in files /\ Active \in Nat
      /\ Len(recs[Active]) \in Nat
      /\ \A u \in Threads \ {t} : op[u].pc = "idle"
  BY <1>1, LockHeld, ActiveLast DEF Consistent
<1>3. op[t].off \in 0 .. MaxOffset - 1 /\ op[t].val \in Values /\ op[t].val # NoValue
  BY <1>1, TypeRecord, NoValueAssumption
<1>4. next[Active] = op[t].off /\ Len(recs[Active]) = next[Active] - Active + 1
  BY <1>1, <1>3 DEF Consistent, InThreads
<1>5. next'[Active] = op[t].off + 1 /\ size'[Active] = FileEnd(recs[Active])
  BY <1>1, <1>2 DEF Count, TypeInv, TypeOK
<1>6. OnDisk' /\ InMemory' /\ Active' = Active
  BY <1>1, <1>2, TailOnly DEF Consistent, OnDisk, SequentialFiles, disk
<1>7. (Counted(Active))' /\ ~ torn'[Active]
  <2>1. recs' = recs /\ torn' = torn
    BY <1>1 DEF disk
  <2>2. \A u \in Threads : op[u].pc # "flush"
    BY <1>1, <1>2
  <2>3. ~ torn[Active]
    BY <1>2, <2>2 DEF Consistent, InThreads
  <2>4. op[t].off + 1 = Active + Len(recs[Active])
    BY <1>2, <1>3, <1>4
  <2> QED
    BY <1>5, <1>6, <2>1, <2>3, <2>4 DEF Counted
<1>8. \A u \in Threads : op'[u].pc = "idle"
  BY <1>1, <1>2 DEF Leave, Idle, TypeInv, TypeOK
<1>9. open'[Active]
  BY <1>1 DEF Consistent, InThreads
<1>10. InThreads'
  BY <1>6, <1>7, <1>8, <1>9 DEF InThreads
<1> QED
  BY <1>6, <1>10 DEF Consistent

\* An fsync writes nothing new, and makes a tail that is not torn safe.
LEMMA SafeFsync ==
    ASSUME TypeInv, Consistent, status = "up", FsyncTail, UNCHANGED <<files, segs, status>>
    PROVE  /\ OnDisk' /\ InMemory' /\ Active' = Active
           /\ recs' = recs /\ torn' = torn /\ open[Active]
           /\ ~ torn[Active] => SealedFile(Active)'
<1>1. /\ Active \in Offsets /\ recs[Active] \in Seq(RecordType) /\ Len(recs[Active]) \in Nat
      /\ Active \in files
  BY ActiveLast DEF Consistent
<1>2. buf[Active] = <<>>
  BY <1>1 DEF Consistent, OnDisk
<1>3. Flushed(Active) = recs[Active]
  BY <1>1, <1>2, ConcatEmptySeq DEF Flushed
<1>4. /\ recs' = recs /\ torn' = torn /\ buf' = buf /\ stray' = stray
      /\ synced' = [synced EXCEPT ![Active] = Len(recs[Active])]
      /\ linked' = linked \cup {Active} /\ open[Active]
  BY <1>1, <1>2, <1>3 DEF FsyncTail, TypeInv, TypeOK
<1>5. synced'[Active] = Len(recs'[Active]) /\ Active \in linked'
  BY <1>1, <1>4 DEF TypeInv, TypeOK
<1>6. \A b \in Offsets \ {Active} : synced'[b] = synced[b] /\ (b \in linked' <=> b \in linked)
  BY <1>4 DEF TypeInv, TypeOK
<1>7. synced'[Active] <= Len(recs'[Active])
  BY <1>1, <1>4, <1>5
<1>8. OnDisk' /\ InMemory' /\ Active' = Active
  BY <1>1, <1>4, <1>5, <1>6, <1>7, TailOnly DEF Consistent, OnDisk, SequentialFiles
<1>9. ~ torn[Active] => SealedFile(Active)'
  BY <1>4, <1>5, <1>8 DEF SealedFile
<1> QED
  BY <1>4, <1>8, <1>9

\* No thread is inside append or roll while the lock is free.
LEMMA LockFree ==
    ASSUME Consistent, status = "up", lock = NoThread
    PROVE  /\ \A t \in Threads : op[t].pc = "idle"
           /\ Counted(Active) /\ ~ torn[Active]
           /\ ~ open[Active] => SealedFile(Active)
<1>1. \A t \in Threads : op[t].pc = "idle"
  BY NoThreadAssumption DEF Consistent, InThreads
<1> QED
  BY <1>1 DEF Consistent, InThreads

\* An fsync of the tail changes no record.
LEMMA SafeSync == ASSUME TypeInv, Consistent, Sync PROVE Consistent'
<1>1. /\ status = "up" /\ lock = NoThread /\ FsyncTail
      /\ UNCHANGED <<files, status, segs, next, size, open, threads>>
  BY DEF Sync
<1>2. /\ OnDisk' /\ InMemory' /\ Active' = Active /\ recs' = recs /\ torn' = torn
      /\ open[Active]
  BY <1>1, SafeFsync
<1>3. (\A t \in Threads : op'[t].pc = "idle") /\ Counted(Active)' /\ ~ torn'[Active] /\ open'[Active]
  BY <1>1, <1>2, LockFree DEF Counted, threads
<1>4. InThreads'
  BY <1>2, <1>3 DEF InThreads
<1> QED
  BY <1>2, <1>4 DEF Consistent

\* Closing the tail changes no record, and leaves a log that takes no more appends.
LEMMA SafeClose == ASSUME TypeInv, Consistent, Close PROVE Consistent'
<1>1. /\ status = "up" /\ lock = NoThread /\ FsyncTail
      /\ UNCHANGED <<files, status, segs, next, size, threads>>
  BY DEF Close
<1>2. /\ OnDisk' /\ InMemory' /\ Active' = Active /\ recs' = recs /\ torn' = torn
      /\ ~ torn[Active] => SealedFile(Active)'
  BY <1>1, SafeFsync
<1>3. (\A t \in Threads : op'[t].pc = "idle") /\ Counted(Active)' /\ ~ torn'[Active]
      /\ SealedFile(Active)'
  BY <1>1, <1>2, LockFree DEF Counted, threads
<1>4. InThreads'
  BY <1>2, <1>3 DEF InThreads
<1> QED
  BY <1>2, <1>4 DEF Consistent

\* Before the next file is made the tail is whole and fsynced.
LEMMA SafeSeal ==
    ASSUME TypeInv, Consistent, NEW t \in Threads, Seal(t)
    PROVE  Consistent'
<1>1. /\ op[t].pc = "seal" /\ Goto(t, "create")
      /\ UNCHANGED <<files, status, segs, next, size, lock>>
  BY DEF Seal
<1>2. /\ status = "up" /\ Active \in Offsets /\ lock = t
      /\ \A u \in Threads \ {t} : op[u].pc = "idle"
  BY <1>1, LockHeld, ActiveLast DEF Consistent, InThreads
<1>3. Counted(Active) /\ ~ torn[Active] /\ (~ open[Active] => SealedFile(Active))
  <2>1. \A u \in Threads : op[u].pc \notin {"flush", "account"}
    BY <1>1, <1>2
  <2> QED
    BY <1>2, <2>1 DEF Consistent, InThreads
<1>4. /\ op'[t].pc = "create" /\ op'[t].off = op[t].off /\ op'[t].val = op[t].val
      /\ \A u \in Threads \ {t} : op'[u] = op[u]
  BY <1>1 DEF Goto, TypeInv, TypeOK, OpType
<1>5. recs[Active] # <<>> /\ (op[t].val # NoValue => op[t].off = next[Active])
  BY <1>1 DEF Consistent, InThreads
<1>6. /\ OnDisk' /\ InMemory' /\ Active' = Active /\ recs' = recs /\ torn' = torn
      /\ ~ open'[Active] /\ SealedFile(Active)'
  <2>1. CASE FsyncTail /\ open' = [open EXCEPT ![Active] = FALSE]
    <3>1. ~ open'[Active]
      BY <1>2, <2>1 DEF TypeInv, TypeOK
    <3> QED
      BY <1>1, <1>2, <1>3, <2>1, <3>1, SafeFsync
  <2>2. CASE ~ open[Active] /\ UNCHANGED <<recs, buf, torn, stray, synced, linked, open>>
    <3>1. UNCHANGED <<disk, status>> /\ Active' = Active
      BY <1>1, <2>2 DEF disk, Active
    <3>2. OnDisk' /\ InMemory'
      <4>1. OnDisk'
        BY <1>1, <2>2 DEF Consistent, OnDisk, SequentialFiles, ChainedFiles
      <4>2. InMemory'
        BY <1>1, <2>2 DEF Consistent, InMemory, NeverRefused, Unopened, Opened, Active, Counted
      <4> QED
        BY <4>1, <4>2
    <3> QED
      BY <1>3, <2>2, <3>1, <3>2 DEF SealedFile
  <2> QED
    BY <2>1, <2>2 DEF Seal
<1>7. Counted(Active)'
  BY <1>1, <1>3, <1>6 DEF Counted
<1>8. InThreads'
  BY <1>1, <1>2, <1>3, <1>4, <1>5, <1>6, <1>7 DEF InThreads
<1> QED
  BY <1>6, <1>8 DEF Consistent

\* The chain of segments with one more at its end.
LEMMA Extended ==
    ASSUME TypeInv, NEW b \in Offsets, NewSegment(b)
    PROVE  /\ Len(segs) \in Nat /\ Len(segs') = Len(segs) + 1
           /\ \A i \in 1 .. Len(segs) : segs'[i] = segs[i]
           /\ segs'[Len(segs) + 1] = b /\ Active' = b
           /\ Opened' = Opened \cup {b} /\ Unopened' = Unopened \ {b}
<1>1. segs \in Seq(Offsets) /\ segs' = Append(segs, b)
  BY DEF NewSegment, TypeInv, TypeOK
<1>2. /\ Len(segs) \in Nat /\ Len(segs') = Len(segs) + 1
      /\ \A i \in 1 .. Len(segs) : segs'[i] = segs[i]
      /\ segs'[Len(segs) + 1] = b /\ segs' \in Seq(Offsets)
  BY <1>1, AppendProperties, LenProperties
<1>3. DOMAIN segs = 1 .. Len(segs) /\ DOMAIN segs' = 1 .. Len(segs) + 1
  BY <1>1, <1>2, LenProperties
<1>4. Opened' = Opened \cup {b}
  BY <1>2, <1>3 DEF Opened
<1>5. Unopened' = Unopened \ {b}
  BY <1>4 DEF Unopened, NewSegment
<1> QED
  BY <1>2, <1>4, <1>5 DEF Active

\* The new file continues the chain, and is empty.
LEMMA SafeCreate ==
    ASSUME TypeInv, Consistent, NEW t \in Threads, Create(t)
    PROVE  Consistent'
<1> DEFINE b == next[Active]
<1>1. /\ op[t].pc = "create" /\ NewSegment(b) /\ open' = [open EXCEPT ![b] = TRUE]
      /\ UNCHANGED <<recs, torn, stray, synced, linked, status, buf>>
  BY DEF Create
<1>2. /\ status = "up" /\ lock = t /\ Active \in files /\ Active \in Nat /\ Active \in Offsets
      /\ recs[Active] \in Seq(RecordType) /\ Len(recs[Active]) \in Nat
      /\ \A u \in Threads \ {t} : op[u].pc = "idle"
      /\ \A x \in files : x <= Active
      /\ \A i \in 1 .. Len(segs) : segs[i] <= Active
  BY <1>1, LockHeld, ActiveLast DEF Consistent, InThreads
<1>3. /\ Counted(Active) /\ SealedFile(Active) /\ recs[Active] # <<>>
      /\ (op[t].val # NoValue => op[t].off = b)
  BY <1>1, <1>2 DEF Consistent, InThreads
<1>4. b = Active + Len(recs[Active]) /\ b > Active /\ b \in Offsets /\ b \in Nat
  <2>1. Len(recs[Active]) # 0
    BY <1>2, <1>3, EmptySeq
  <2>2. b \in Offsets
    BY <1>2 DEF TypeInv, TypeOK
  <2> QED
    BY <1>2, <1>3, <2>1, <2>2 DEF Counted, Offsets
<1> HIDE DEF b
<1>5. files \subseteq Offsets /\ files' = files \cup {b} /\ \A x \in files : x \in Nat
  BY <1>1 DEF NewSegment, TypeInv, TypeOK, Offsets
<1>6. b \notin files
  BY <1>2, <1>4
<1>7. recs[b] = <<>> /\ ~ torn[b] /\ synced[b] = 0 /\ b \notin linked
  BY <1>4, <1>6 DEF Consistent, OnDisk
<1>8. SequentialFiles'
  <2>1. Len(recs[b]) = 0
    BY <1>7, EmptySeq
  <2>2. ASSUME NEW x \in files', NEW i \in 1 .. Len(recs[x])
        PROVE  recs[x][i].off = x + i - 1
    <3>1. x # b
      BY <2>1, <2>2
    <3> QED
      BY <1>5, <2>2, <3>1 DEF Consistent, OnDisk, SequentialFiles
  <2> QED
    BY <1>1, <2>2 DEF SequentialFiles
<1>9. ChainedFiles'
  <2>1. 0 \in files'
    BY <1>2, <1>5 DEF Consistent, OnDisk, ChainedFiles
  <2>2. ASSUME NEW x \in files', NEW y \in files', x < y
        PROVE  x + Len(recs[x]) <= y /\ SealedFile(x)
    <3>1. x \in files
      BY <1>2, <1>4, <1>5, <2>2
    <3>2. CASE y \in files
      BY <2>2, <3>1, <3>2 DEF Consistent, OnDisk, ChainedFiles, SealedFile
    <3>3. CASE y = b /\ x = Active
      BY <1>3, <1>4, <3>3
    <3>4. CASE y = b /\ x # Active
      <4>1. x < Active
        BY <1>2, <1>5, <3>1, <3>4
      <4>2. x + Len(recs[x]) <= Active /\ SealedFile(x)
        BY <1>2, <3>1, <4>1 DEF Consistent, OnDisk, ChainedFiles, SealedFile
      <4>3. x + Len(recs[x]) \in Nat
        BY <1>5, <3>1, LenProperties DEF TypeInv, TypeOK
      <4> QED
        BY <1>2, <1>4, <3>4, <4>2, <4>3
    <3> QED
      BY <1>5, <3>2, <3>3, <3>4
  <2>3. ASSUME NEW c \in files' \ {0}
        PROVE  \E x \in files' : x < c /\ x + Len(recs[x]) = c
    <3>1. CASE c = b
      BY <1>2, <1>4, <1>5, <3>1
    <3>2. CASE c # b
      BY <1>5, <3>2 DEF Consistent, OnDisk, ChainedFiles
    <3> QED
      BY <3>1, <3>2
  <2> QED
    BY <1>1, <2>1, <2>2, <2>3 DEF ChainedFiles, SealedFile
<1>10. OnDisk'
  BY <1>1, <1>5, <1>8, <1>9 DEF Consistent, OnDisk
<1>11. /\ Len(segs) \in Nat /\ Len(segs') = Len(segs) + 1
       /\ \A i \in 1 .. Len(segs) : segs'[i] = segs[i]
       /\ segs'[Len(segs) + 1] = b /\ Active' = b
       /\ Unopened' = Unopened \ {b}
  BY <1>1, <1>4, Extended
<1>12. InMemory'
  <2>1. Unopened' = {} /\ status' = "up"
    BY <1>1, <1>2, <1>11 DEF Consistent, InMemory
  <2>2. \A i \in 1 .. Len(segs') : segs'[i] \in files'
    BY <1>5, <1>11 DEF Consistent, InMemory
  <2>3. \A i, j \in 1 .. Len(segs') : i < j => segs'[i] < segs'[j]
    <3> TAKE i, j \in 1 .. Len(segs')
    <3> HAVE i < j
    <3>1. CASE j = Len(segs) + 1
      <4>1. segs'[i] \in files /\ segs'[i] <= Active /\ segs'[j] = b
        BY <1>2, <1>11, <3>1 DEF Consistent, InMemory
      <4>2. segs'[i] \in Nat
        BY <1>5, <4>1
      <4> QED
        BY <1>2, <1>4, <4>1, <4>2
    <3>2. CASE j # Len(segs) + 1
      BY <1>11, <3>2 DEF Consistent, InMemory
    <3> QED
      BY <3>1, <3>2
  <2> QED
    BY <2>1, <2>2, <2>3 DEF InMemory, NeverRefused
<1>13. /\ next'[b] = b /\ size'[b] = 0 /\ open'[b]
  BY <1>1, <1>4 DEF NewSegment, TypeInv, TypeOK
<1>14. (Counted(Active))' /\ ~ torn'[Active']
  <2>1. Len(recs[b]) = 0
    BY <1>7, EmptySeq
  <2> QED
    BY <1>1, <1>4, <1>7, <1>11, <1>13, <2>1 DEF Counted, FileEnd
<1>15. InThreads'
  <2>1. CASE Leave(t)
    <3>1. \A u \in Threads : op'[u].pc = "idle"
      BY <1>2, <2>1 DEF Leave, Idle, TypeInv, TypeOK
    <3> QED
      BY <1>11, <1>13, <1>14, <3>1 DEF InThreads
  <2>2. CASE Goto(t, "write") /\ UNCHANGED lock /\ op[t].val # NoValue
    <3>1. /\ op'[t].pc = "write" /\ op'[t].off = b /\ lock' = t
          /\ \A u \in Threads \ {t} : op'[u].pc = "idle"
      BY <1>2, <1>3, <2>2 DEF Goto, TypeInv, TypeOK, OpType
    <3> QED
      BY <1>11, <1>13, <1>14, <3>1 DEF InThreads
  <2> QED
    BY <2>1, <2>2 DEF Create
<1> QED
  BY <1>10, <1>12, <1>15 DEF Consistent

-----------------------------------------------------------------------------
(* Opening.                                                                *)

\* While the log is not up no thread is inside append or roll, so InThreads
\* says nothing there.
LEMMA NotUp ==
    ASSUME TypeInv, status # "up", status' # "up", UNCHANGED op
    PROVE  InThreads'
BY DEF TypeInv, Sane, InThreads

\* Opening starts with no segment.
LEMMA SafeStart == ASSUME TypeInv, Consistent, Start PROVE Consistent'
<1>1. OnDisk'
  BY DEF Start, Consistent, OnDisk, SequentialFiles, ChainedFiles, disk, chain
<1>2. Len(segs) = 0
  BY EmptySeq DEF Start, Consistent, InMemory
<1>3. InMemory'
  BY <1>2 DEF Start, Consistent, InMemory, NeverRefused, chain
<1>4. InThreads'
  BY NotUp DEF Start, threads
<1> QED
  BY <1>1, <1>3, <1>4 DEF Consistent

\* The next file in the chain, or the first of an empty directory, is opened.
LEMMA SafeRecoverBegin == ASSUME TypeInv, Consistent, RecoverBegin PROVE Consistent'
<1>1. PICK b \in (IF files = {} THEN {0} ELSE Unopened) :
          (\A c \in Unopened : b <= c) /\ NewSegment(b)
  BY DEF RecoverBegin
<1>2. /\ status = "opening" /\ status' = "scanning"
      /\ UNCHANGED <<recs, torn, stray, synced, linked, open, buf, threads>>
  BY DEF RecoverBegin
<1>3. files \subseteq Offsets /\ 0 \in Offsets /\ b \in Offsets /\ b \in Nat
      /\ \A x \in files : x \in Nat
  <2>1. files \subseteq Offsets
    BY DEF TypeInv, TypeOK
  <2>2. 0 \in Offsets /\ \A x \in Offsets : x \in Nat
    BY BoundsAssumption DEF Offsets
  <2>3. b \in Offsets
    BY <1>1, <2>1, <2>2 DEF Unopened
  <2> QED
    BY <2>1, <2>2, <2>3
<1>4. files' = files \cup {b} /\ (b \in files \/ (files = {} /\ b = 0))
  <2>1. files' = files \cup {b}
    BY <1>1 DEF NewSegment
  <2>2. CASE files = {}
    BY <1>1, <2>1, <2>2
  <2>3. CASE files # {}
    <3>1. b \in Unopened
      BY <1>1, <2>3
    <3>2. b \in files
      BY <3>1 DEF Unopened
    <3> QED
      BY <2>1, <3>2
  <2> QED
    BY <2>2, <2>3
<1>5. b \notin files => Len(recs[b]) = 0
  BY <1>3, EmptySeq DEF Consistent, OnDisk
<1>6. OnDisk'
  <2>1. CASE b \in files
    <3>1. files' = files
      BY <1>4, <2>1
    <3> QED
      BY <1>2, <3>1 DEF Consistent, OnDisk, SequentialFiles, ChainedFiles
  <2>2. CASE b \notin files
    <3>1. files = {} /\ files' = {0} /\ b = 0 /\ Len(recs[0]) = 0
      BY <1>4, <1>5, <2>2
    <3>2. SequentialFiles' /\ ChainedFiles'
      BY <1>2, <3>1 DEF SequentialFiles, ChainedFiles
    <3> QED
      BY <1>2, <3>1, <3>2 DEF Consistent, OnDisk
  <2> QED
    BY <2>1, <2>2
<1>7. /\ Len(segs) \in Nat /\ Len(segs') = Len(segs) + 1
      /\ \A i \in 1 .. Len(segs) : segs'[i] = segs[i]
      /\ segs'[Len(segs) + 1] = b /\ Active' = b
      /\ Unopened' = Unopened \ {b}
  BY <1>1, <1>3, Extended
<1>8. \A i \in 1 .. Len(segs) : segs[i] \in files /\ segs[i] < b /\ b \in Unopened
  <2> TAKE i \in 1 .. Len(segs)
  <2>1. segs[i] \in files
    BY DEF Consistent, InMemory
  <2>2. b \in Unopened
    BY <1>1, <2>1
  <2> QED
    BY <2>1, <2>2 DEF Consistent, InMemory
<1>9. /\ next' = [next EXCEPT ![b] = b] /\ size' = [size EXCEPT ![b] = 0]
      /\ next'[b] = b /\ size'[b] = 0
  BY <1>1, <1>3 DEF NewSegment, TypeInv, TypeOK
<1>10. InMemory'
  <2>1. \A i \in 1 .. Len(segs') : segs'[i] \in files' /\ segs'[i] <= b
    <3> TAKE i \in 1 .. Len(segs')
    <3>1. CASE i = Len(segs) + 1
      BY <1>3, <1>4, <1>7, <3>1
    <3>2. CASE i # Len(segs) + 1
      <4>1. i \in 1 .. Len(segs) /\ segs'[i] = segs[i]
        BY <1>7, <3>2
      <4>2. segs[i] \in files /\ segs[i] < b /\ segs[i] \in Nat
        BY <1>3, <1>8, <4>1
      <4> QED
        BY <1>3, <1>4, <4>1, <4>2
    <3> QED
      BY <3>1, <3>2
  <2>2. \A i, j \in 1 .. Len(segs') : i < j => segs'[i] < segs'[j]
    <3> TAKE i, j \in 1 .. Len(segs')
    <3>1. CASE j = Len(segs) + 1
      BY <1>7, <1>8, <3>1
    <3>2. CASE j # Len(segs) + 1
      BY <1>7, <3>2 DEF Consistent, InMemory
    <3> QED
      BY <3>1, <3>2
  <2>3. \A i \in 1 .. Len(segs') : \A c \in Unopened' : segs'[i] < c
    <3>1. \A c \in Unopened' : b < c /\ c \in Nat
      <4> TAKE c \in Unopened'
      <4>1. c \in Unopened /\ c # b /\ b <= c
        BY <1>1, <1>7
      <4>2. c \in Nat
        BY <1>3, <4>1 DEF Unopened
      <4> QED
        BY <1>3, <4>1, <4>2
    <3>2. \A i \in 1 .. Len(segs') : segs'[i] \in Nat
      BY <1>3, <1>4, <2>1
    <3> QED
      BY <1>3, <2>1, <3>1, <3>2
  <2>4. \A i \in 1 .. Len(segs) :
            /\ next'[segs[i]] = segs[i] + Len(recs'[segs[i]])
            /\ size'[segs[i]] = FileEnd(recs'[segs[i]])
            /\ open'[segs[i]] /\ ~ torn'[segs[i]]
    <3> TAKE i \in 1 .. Len(segs)
    <3>1. segs[i] \in Offsets /\ segs[i] # b
      <4>1. segs[i] \in files /\ segs[i] < b
        BY <1>8
      <4>2. segs[i] \in Offsets /\ segs[i] \in Nat
        BY <1>3, <4>1
      <4> QED
        BY <1>3, <4>1, <4>2
    <3>2. Counted(segs[i]) /\ open[segs[i]] /\ ~ torn[segs[i]]
      BY <1>2 DEF Consistent, InMemory
    <3>3. next'[segs[i]] = next[segs[i]] /\ size'[segs[i]] = size[segs[i]]
      BY <1>9, <3>1 DEF TypeInv, TypeOK
    <3> QED
      BY <1>2, <3>2, <3>3 DEF Counted
  <2>5. \A i \in 1 .. Len(segs') :
            i < Len(segs') => Counted(segs[i])' /\ open'[segs'[i]] /\ ~ torn'[segs'[i]]
    BY <1>7, <2>4 DEF Counted
  <2>6. next'[b] \in b .. b + Len(recs'[b])
    <3>1. Len(recs[b]) \in Nat
      BY <1>3, LenProperties DEF TypeInv, TypeOK
    <3> QED
      BY <1>2, <1>3, <1>9, <3>1
  <2> QED
    BY <1>2, <1>7, <1>9, <2>1, <2>2, <2>3, <2>5, <2>6 DEF InMemory, NeverRefused
<1>11. InThreads'
  BY <1>2, NotUp DEF threads
<1> QED
  BY <1>6, <1>10, <1>11 DEF Consistent

\* The scan finds each record at the offset it expects, so it never refuses.
LEMMA SafeRecoverRecord == ASSUME TypeInv, Consistent, RecoverRecord PROVE Consistent'
<1> DEFINE k == Scanned(Active) + 1
           rec == recs[Active][k]
<1>1. /\ status = "scanning" /\ Scanned(Active) < Len(recs[Active])
      /\ UNCHANGED <<disk, segs, open, buf, threads>>
  BY DEF RecoverRecord
<1>2. /\ Active \in files /\ Active \in Offsets /\ Active \in Nat
      /\ recs[Active] \in Seq(RecordType) /\ Len(recs[Active]) \in Nat
      /\ Len(segs) \in Nat /\ Len(segs) >= 1
  BY <1>1, ActiveLast DEF Consistent
<1>3. /\ next[Active] \in Active .. Active + Len(recs[Active]) /\ next[Active] \in Nat
      /\ k = next[Active] - Active + 1 /\ k \in 1 .. Len(recs[Active])
  BY <1>1, <1>2 DEF Consistent, InMemory, Scanned, TypeInv, TypeOK, Offsets
<1>4. rec.off = Active + k - 1
  BY <1>2, <1>3 DEF Consistent, OnDisk, SequentialFiles
<1>5. rec.off = next[Active]
  BY <1>2, <1>3, <1>4
<1>6. Count(Active, rec.off, rec.pos, RecordEnd(rec)) /\ status' = status
  BY <1>5 DEF RecoverRecord
<1> HIDE DEF k
<1>7. /\ next' = [next EXCEPT ![Active] = next[Active] + 1]
      /\ size' = [size EXCEPT ![Active] = RecordEnd(recs[Active][k])]
  BY <1>5, <1>6 DEF Count
<1>8. next'[Active] = next[Active] + 1 /\ size'[Active] = RecordEnd(recs[Active][k])
  BY <1>2, <1>7 DEF TypeInv, TypeOK
<1>9. OnDisk'
  BY <1>1 DEF Consistent, OnDisk, SequentialFiles, ChainedFiles, disk
<1>10. Active' = Active
  BY <1>1 DEF Active
<1>11. InMemory'
  <2>1. \A i \in 1 .. Len(segs) : i < Len(segs) => segs[i] # Active /\ segs[i] \in Offsets
    <3> TAKE i \in 1 .. Len(segs)
    <3> HAVE i < Len(segs)
    <3>1. segs[i] < Active
      BY <1>2 DEF Consistent, InMemory, Active
    <3>2. segs[i] \in files /\ segs[i] \in Offsets
      BY DEF Consistent, InMemory, TypeInv, TypeOK
    <3> QED
      BY <1>2, <3>1, <3>2 DEF Offsets
  <2>2. \A i \in 1 .. Len(segs) : i < Len(segs) =>
            Counted(segs[i])' /\ open'[segs[i]] /\ ~ torn'[segs[i]]
    BY <1>1, <1>7, <2>1 DEF Consistent, InMemory, Counted, TypeInv, TypeOK, disk
  <2>3. /\ next'[Active] \in Active .. Active + Len(recs[Active])
        /\ next'[Active] # Active /\ next'[Active] - Active = k
    BY <1>2, <1>3, <1>8
  <2>4. \A i \in 1 .. Len(segs') :
            i < Len(segs') => Counted(segs[i])' /\ open'[segs'[i]] /\ ~ torn'[segs'[i]]
    BY <1>1, <2>2
  <2>6. Unopened' = Unopened
    BY <1>1 DEF Unopened, Opened, disk
  <2> QED
    BY <1>1, <1>6, <1>8, <1>10, <2>3, <2>4, <2>6 DEF Consistent, InMemory, NeverRefused, disk
<1>12. InThreads'
  BY <1>1, <1>6, NotUp DEF threads
<1> QED
  BY <1>9, <1>11, <1>12 DEF Consistent

\* At the end of the scan the segment has counted its whole file, and the file
\* has no torn record left.
LEMMA SafeRecoverEnd == ASSUME TypeInv, Consistent, RecoverEnd PROVE Consistent'
<1>1. /\ status = "scanning" /\ Scanned(Active) = Len(recs[Active])
      /\ torn' = [torn EXCEPT ![Active] = FALSE]
      /\ stray' = [stray EXCEPT ![Active] = "no"]
      /\ open' = [open EXCEPT ![Active] = TRUE]
      /\ status' = "opening"
      /\ UNCHANGED <<files, recs, synced, linked, segs, next, size, buf, threads>>
  BY DEF RecoverEnd
<1>2. /\ Active \in files /\ Active \in Offsets /\ Active \in Nat
      /\ recs[Active] \in Seq(RecordType) /\ Len(recs[Active]) \in Nat
      /\ Len(segs) \in Nat /\ Len(segs) >= 1
  BY <1>1, ActiveLast DEF Consistent
<1>3. /\ ~ torn'[Active] /\ open'[Active]
      /\ \A b \in Offsets : (torn'[b] => torn[b]) /\ (open[b] => open'[b]) /\ stray'[b] = "no"
  BY <1>1, <1>2 DEF TypeInv, TypeOK, Consistent, OnDisk
<1>4. OnDisk'
  <2>1. SequentialFiles'
    BY <1>1 DEF Consistent, OnDisk, SequentialFiles
  <2>2. ChainedFiles'
    <3>1. \A b \in files : b \in Offsets
      BY DEF TypeInv, TypeOK
    <3> QED
      BY <1>1, <1>3, <3>1 DEF Consistent, OnDisk, ChainedFiles
  <2> QED
    BY <1>1, <1>3, <2>1, <2>2 DEF Consistent, OnDisk
<1>5. next[Active] = Active + Len(recs[Active]) /\ size[Active] = FileEnd(recs[Active])
  <2>1. next[Active] \in Nat
    BY <1>2 DEF TypeInv, TypeOK, Offsets
  <2>2. next[Active] = Active + Len(recs[Active])
    BY <1>1, <1>2, <2>1 DEF Scanned
  <2>3. next[Active] = Active <=> recs[Active] = <<>>
    BY <1>2, <2>2, EmptySeq
  <2>4. next[Active] - Active = Len(recs[Active])
    BY <1>2, <2>2
  <2> QED
    BY <1>1, <2>2, <2>3, <2>4 DEF Consistent, InMemory, FileEnd
<1>6. InMemory'
  <2>1. \A i \in 1 .. Len(segs) : Counted(segs[i]) /\ open'[segs[i]] /\ ~ torn'[segs[i]]
    <3> TAKE i \in 1 .. Len(segs)
    <3>1. CASE i = Len(segs)
      BY <1>3, <1>5, <3>1 DEF Counted, Active
    <3>2. CASE i # Len(segs)
      <4>1. segs[i] \in Offsets
        BY DEF Consistent, InMemory, TypeInv, TypeOK
      <4> QED
        BY <1>1, <1>2, <1>3, <3>2, <4>1 DEF Consistent, InMemory
    <3> QED
      BY <3>1, <3>2
  <2>2. Unopened' = Unopened
    BY <1>1 DEF Unopened, Opened
  <2> QED
    BY <1>1, <2>1, <2>2 DEF Consistent, InMemory, NeverRefused, Counted
<1>7. InThreads'
  BY <1>1, NotUp DEF threads
<1> QED
  BY <1>4, <1>6, <1>7 DEF Consistent

\* The chain of the files is the chain of the segments: one that ends where
\* the next begins is the one just before it.
LEMMA ChainAccepted ==
    ASSUME TypeInv, Consistent, status = "opening", Unopened = {}
    PROVE  ChainUnbroken
<1>1. segs \in Seq(Offsets) /\ Len(segs) \in Nat /\ DOMAIN segs = 1 .. Len(segs)
  BY LenProperties DEF TypeInv, TypeOK
<1>2. \A j \in 1 .. Len(segs) : segs[j] \in files /\ segs[j] \in Offsets /\ segs[j] \in Nat
  <2>1. \A j \in 1 .. Len(segs) : segs[j] \in files /\ segs[j] \in Offsets
    BY DEF Consistent, InMemory, TypeInv, TypeOK
  <2> QED
    BY <2>1 DEF Offsets
<1>3. \A j, k \in 1 .. Len(segs) : j < k => segs[j] < segs[k]
  BY DEF Consistent, InMemory
<1>4. SUFFICES ASSUME NEW i \in 1 .. Len(segs) - 1 PROVE segs[i + 1] = next[segs[i]]
  BY DEF ChainUnbroken
<1>5. i \in 1 .. Len(segs) /\ i + 1 \in 1 .. Len(segs) /\ segs[i] < segs[i + 1]
  BY <1>1, <1>3
<1>6. segs[i + 1] \in files \ {0}
  BY <1>2, <1>5
<1>7. PICK p \in files : p < segs[i + 1] /\ p + Len(recs[p]) = segs[i + 1]
  BY <1>6 DEF Consistent, OnDisk, ChainedFiles
<1>8. PICK j \in 1 .. Len(segs) : segs[j] = p
  BY <1>1 DEF Unopened, Opened
<1>9. j <= i
  <2>1. CASE j > i + 1
    BY <1>2, <1>3, <1>5, <1>7, <1>8, <2>1
  <2>2. CASE j = i + 1
    BY <1>2, <1>5, <1>7, <1>8, <2>2
  <2> QED
    BY <1>1, <2>1, <2>2
<1>10. j = i
  <2>1. SUFFICES ASSUME j < i PROVE FALSE
    BY <1>9
  <2>2. segs[j] < segs[i] /\ segs[j] \in files /\ segs[i] \in files
    BY <1>2, <1>3, <1>5, <2>1
  <2>3. segs[j] + Len(recs[segs[j]]) <= segs[i]
    BY <2>2 DEF Consistent, OnDisk, ChainedFiles
  <2> QED
    BY <1>2, <1>5, <1>7, <1>8, <2>3
<1>11. next[segs[i]] = segs[i] + Len(recs[segs[i]])
  BY <1>5 DEF Consistent, InMemory, Counted
<1> QED
  BY <1>7, <1>8, <1>10, <1>11

\* Once all files are open the chain holds, and sealing all but the last of
\* them changes none.
LEMMA SafeOpenEnd == ASSUME TypeInv, Consistent, OpenEnd PROVE Consistent'
<1> DEFINE sealed == Opened \ {Active}
<1>1. /\ status = "opening" /\ segs # <<>> /\ Unopened = {}
      /\ UNCHANGED <<files, recs, torn, stray, segs, next, size, buf, threads>>
  BY DEF OpenEnd
<1>2. /\ synced' = [b \in Offsets |-> IF b \in sealed THEN Len(recs[b]) ELSE synced[b]]
      /\ linked' = linked \cup sealed
      /\ open' = [b \in Offsets |-> open[b] /\ b \notin sealed]
      /\ status' = "up"
  BY <1>1, ChainAccepted DEF OpenEnd
<1>3. /\ segs \in Seq(Offsets) /\ Len(segs) \in Nat /\ Len(segs) >= 1
      /\ DOMAIN segs = 1 .. Len(segs)
  BY <1>1, LenProperties, EmptySeq DEF TypeInv, TypeOK
<1>4. Active \in files /\ Active \in Offsets /\ Counted(Active) /\ open[Active] /\ ~ torn[Active]
  <2>1. Len(segs) \in 1 .. Len(segs)
    BY <1>3
  <2>2. Active \in files /\ Counted(Active) /\ open[Active] /\ ~ torn[Active]
    BY <1>1, <2>1 DEF Consistent, InMemory, Active
  <2> QED
    BY <2>2 DEF TypeInv, TypeOK
<1>5. sealed \subseteq files /\ files \subseteq Offsets
  BY <1>3 DEF Consistent, InMemory, Opened, TypeInv, TypeOK
<1> HIDE DEF sealed
<1>6. OnDisk'
  <2>1. SequentialFiles'
    BY <1>1 DEF Consistent, OnDisk, SequentialFiles
  <2>2. \A b \in Offsets :
            /\ synced'[b] = (IF b \in sealed THEN Len(recs[b]) ELSE synced[b])
            /\ b \in linked' <=> b \in linked \/ b \in sealed
    BY <1>2
  <2>3. ChainedFiles'
    BY <1>1, <1>5, <2>2 DEF Consistent, OnDisk, ChainedFiles
  <2>4. \A b \in Offsets : Len(recs[b]) \in Nat
    BY LenProperties DEF TypeInv, TypeOK
  <2>5. \A b \in Offsets : synced'[b] <= Len(recs[b])
    BY <2>2, <2>4 DEF Consistent, OnDisk
  <2>6. \A b \in Offsets : /\ b \notin linked' => synced'[b] = 0
                           /\ b \notin files => b \notin linked'
    BY <1>5, <2>2 DEF Consistent, OnDisk
  <2> QED
    BY <1>1, <2>1, <2>3, <2>5, <2>6 DEF Consistent, OnDisk
<1>7. Active' = Active /\ Unopened' = Unopened
  BY <1>1 DEF Active, Unopened, Opened
<1>8. InMemory'
  BY <1>1, <1>2, <1>7 DEF Consistent, InMemory, NeverRefused
<1>9. InThreads'
  <2>1. open'[Active]
    BY <1>2, <1>4 DEF sealed
  <2>2. \A t \in Threads : op'[t].pc = "idle"
    BY <1>1 DEF TypeInv, Sane, threads
  <2>3. Counted(Active)' /\ ~ torn'[Active]
    BY <1>1, <1>4, <1>7 DEF Counted
  <2> QED
    BY <1>7, <2>1, <2>2, <2>3 DEF InThreads
<1> QED
  BY <1>6, <1>8, <1>9 DEF Consistent

-----------------------------------------------------------------------------
(* Crashes.                                                                *)

\* With the memory gone there is only the directory to answer for.
LEMMA MemoryLost == ASSUME LoseMemory PROVE InMemory' /\ InThreads'
<1>1. segs' = <<>> /\ Len(segs') = 0 /\ status' = "down"
  BY EmptySeq DEF LoseMemory
<1>2. \A t \in Threads : op'[t].pc = "idle"
  BY DEF LoseMemory, Idle
<1> QED
  BY <1>1, <1>2 DEF InMemory, InThreads, NeverRefused

\* A process crash leaves the directory as it is.
LEMMA SafeProcessCrash == ASSUME TypeInv, Consistent, ProcessCrash PROVE Consistent'
<1>1. LoseMemory /\ UNCHANGED disk
  BY DEF ProcessCrash
<1>2. \A b \in Offsets : buf'[b] = <<>>
  BY <1>1 DEF LoseMemory
<1>3. OnDisk'
  BY <1>1, <1>2 DEF Consistent, OnDisk, SequentialFiles, ChainedFiles, disk
<1> QED
  BY <1>1, <1>3, MemoryLost DEF Consistent

\* A power loss can shorten or remove only the last file: roll fsyncs a file
\* before it makes the next one.
LEMMA SafePowerLoss == ASSUME TypeInv, Consistent, PowerLoss PROVE Consistent'
<1>1. PICK gone \in SUBSET (files \ linked), keep \in [files -> 0 .. MaxOffset] :
        /\ \A b \in files : IF b \in gone THEN keep[b] = 0
                                          ELSE keep[b] \in synced[b] .. Len(recs[b])
        /\ \E frag \in SUBSET {b \in files \ gone : torn[b] \/ keep[b] < Len(recs[b])} :
            torn' = [b \in Offsets |-> b \in frag]
        /\ files' = files \ gone
        /\ recs' = [b \in Offsets |-> IF b \in files THEN SubSeq(recs[b], 1, keep[b]) ELSE <<>>]
  BY DEF PowerLoss
<1>2. LoseMemory /\ UNCHANGED <<synced, linked>>
  BY DEF PowerLoss
<1>3. /\ files \subseteq Offsets /\ \A b \in files : b \in Nat
      /\ \A b \in Offsets : recs[b] \in Seq(RecordType) /\ Len(recs[b]) \in Nat /\ synced[b] \in Nat
  <2>1. /\ files \subseteq Offsets /\ recs \in [Offsets -> Seq(RecordType)]
        /\ synced \in [Offsets -> Nat]
    BY DEF TypeInv, TypeOK
  <2>2. \A b \in Offsets : b \in Nat
    BY DEF Offsets
  <2>3. \A b \in Offsets : recs[b] \in Seq(RecordType) /\ Len(recs[b]) \in Nat
    BY <2>1, LenProperties
  <2>4. QED
    BY <2>1, <2>2, <2>3
<1>4. \A b \in files :
        /\ keep[b] \in Nat /\ keep[b] <= Len(recs[b]) /\ synced[b] <= keep[b]
        /\ recs'[b] = SubSeq(recs[b], 1, keep[b])
        /\ b \in gone => keep[b] = 0
  <2> TAKE b \in files
  <2>1. b \in Offsets /\ (b \in gone => synced[b] = 0)
    BY <1>3 DEF Consistent, OnDisk
  <2>2. keep[b] \in Nat
    BY BoundsAssumption
  <2> QED
    BY <1>1, <1>3, <2>1, <2>2
<1>5. \A b \in files : /\ Len(recs'[b]) = keep[b]
                       /\ \A i \in 1 .. keep[b] : recs'[b][i] = recs[b][i]
  <2> TAKE b \in files
  <2>1. \A i \in 1 .. keep[b] : recs[b][i] \in RecordType
    BY <1>3, <1>4, ElementOfSeq
  <2> QED
    BY <1>4, <2>1, SubSeqProperties
<1>6. ASSUME NEW b \in files, NEW c \in files, b < c
      PROVE  b \notin gone /\ recs'[b] = recs[b] /\ ~ torn'[b]
  <2>1. ~ torn[b] /\ synced[b] = Len(recs[b]) /\ b \in linked
    BY <1>6 DEF Consistent, OnDisk, ChainedFiles
  <2>2. keep[b] = Len(recs[b])
    BY <1>3, <1>4, <2>1
  <2>3. recs'[b] = recs[b]
    <3>1. recs[b] \in Seq(RecordType)
      BY <1>3
    <3>2. SubSeq(recs[b], 1, Len(recs[b])) = recs[b]
      BY <3>1, SubSeqFull
    <3> QED
      BY <1>4, <2>2, <3>2
  <2>4. ~ torn'[b]
    <3>1. PICK frag \in SUBSET {x \in files \ gone : torn[x] \/ keep[x] < Len(recs[x])} :
            torn' = [x \in Offsets |-> x \in frag]
      BY <1>1
    <3>2. Len(recs[b]) \in Nat /\ b \in Offsets
      BY <1>3
    <3>3. b \notin frag
      BY <2>1, <2>2, <3>2
    <3> QED
      BY <3>1, <3>2, <3>3
  <2> QED
    BY <2>1, <2>3, <2>4
<1>7. SequentialFiles'
  BY <1>1, <1>4, <1>5, <1>3 DEF Consistent, OnDisk, SequentialFiles
<1>8. ChainedFiles'
  <2>1. files' # {} => 0 \in files'
    <3>1. SUFFICES ASSUME NEW b \in files' PROVE 0 \in files'
      OBVIOUS
    <3>2. b \in files /\ 0 \in files
      BY <1>1 DEF Consistent, OnDisk, ChainedFiles
    <3>3. b # 0 => 0 \notin gone
      BY <1>3, <1>6, <3>2
    <3> QED
      BY <1>1, <3>2, <3>3
  <2>2. ASSUME NEW b \in files', NEW c \in files', b < c
        PROVE  b + Len(recs'[b]) <= c /\ ~ torn'[b] /\ synced'[b] = Len(recs'[b]) /\ b \in linked'
    <3>1. b \in files /\ c \in files
      BY <1>1
    <3> QED
      BY <1>2, <1>6, <2>2, <3>1 DEF Consistent, OnDisk, ChainedFiles
  <2>3. ASSUME NEW c \in files' \ {0}
        PROVE  \E b \in files' : b < c /\ b + Len(recs'[b]) = c
    <3>1. c \in files \ {0}
      BY <1>1
    <3>2. PICK b \in files : b < c /\ b + Len(recs[b]) = c
      BY <3>1 DEF Consistent, OnDisk, ChainedFiles
    <3> QED
      BY <1>1, <1>6, <3>1, <3>2
  <2> QED
    BY <2>1, <2>2, <2>3 DEF ChainedFiles
<1>9. \A b \in Offsets : stray'[b] = "no"
  <2>1. \A b \in files : stray[b] = "no"
    BY <1>3 DEF Consistent, OnDisk
  <2>2. \E left : DOMAIN left = {} /\ stray' = [b \in Offsets |-> IF b \in DOMAIN left THEN left[b] ELSE "no"]
    BY <2>1 DEF PowerLoss
  <2> QED
    BY <2>2
<1>10. ASSUME NEW b \in Offsets
      PROVE  /\ synced'[b] <= Len(recs'[b])
             /\ b \notin linked' => synced'[b] = 0
             /\ b \notin files' => recs'[b] = <<>> /\ ~ torn'[b] /\ b \notin linked'
             /\ buf'[b] = <<>> /\ stray'[b] = "no"
  <2>1. synced'[b] <= Len(recs'[b])
    <3>1. CASE b \in files
      BY <1>2, <1>4, <1>5, <3>1
    <3>2. CASE b \notin files
      BY <1>1, <1>2, <3>2, EmptySeq DEF Consistent, OnDisk
    <3> QED
      BY <3>1, <3>2
  <2>2. b \notin files' => recs'[b] = <<>> /\ ~ torn'[b] /\ b \notin linked'
    <3>1. SUFFICES ASSUME b \notin files' PROVE recs'[b] = <<>> /\ ~ torn'[b] /\ b \notin linked'
      OBVIOUS
    <3>2. CASE b \in gone
      <4>1. Len(recs'[b]) = 0 /\ recs'[b] = SubSeq(recs[b], 1, 0)
        BY <1>4, <1>5, <3>2
      <4>2. recs'[b] \in Seq(RecordType)
        BY TypePowerLoss DEF TypeInv, TypeOK
      <4> QED
        BY <1>1, <1>2, <3>2, <4>1, <4>2, EmptySeq
    <3>3. CASE b \notin files
      BY <1>1, <1>2, <3>3 DEF Consistent, OnDisk
    <3> QED
      BY <1>1, <3>1, <3>2, <3>3
  <2>3. buf'[b] = <<>> /\ stray'[b] = "no"
    BY <1>2, <1>9 DEF LoseMemory
  <2> QED
    BY <1>2, <2>1, <2>2, <2>3 DEF Consistent, OnDisk
<1>11. OnDisk'
  BY <1>7, <1>8, <1>10 DEF OnDisk
<1> QED
  BY <1>2, <1>11, MemoryLost DEF Consistent

-----------------------------------------------------------------------------
(* The invariant, and what follows from it.                                *)

\* An empty directory is in order.
LEMMA SafeInit == Init => Safe
<1> SUFFICES ASSUME Init PROVE Consistent
  BY DEF Safe, Consistent
<1>1. Len(segs) = 0 /\ segs = <<>> /\ status = "down" /\ files = {}
  BY EmptySeq DEF Init
<1>2. OnDisk
  <2>1. \A b \in Offsets : Len(recs[b]) = 0
    BY EmptySeq DEF Init
  <2> QED
    BY <1>1, <2>1 DEF Init, OnDisk, SequentialFiles, ChainedFiles
<1>3. InMemory
  BY <1>1 DEF InMemory, NeverRefused
<1>4. InThreads
  BY <1>1 DEF Init, InThreads, Idle
<1> QED
  BY <1>2, <1>3, <1>4 DEF Consistent

\* Until a write or the creation of a file fails, every action keeps the log
\* consistent.
LEMMA SafeNext == TypeInv /\ Safe /\ [Next]_vars => Safe'
<1> SUFFICES ASSUME TypeInv, Safe, [Next]_vars, faults' = 0 PROVE Consistent'
  BY DEF Safe, Consistent
<1>1. faults \in Nat
  BY BoundsAssumption DEF TypeInv, TypeOK
<1>2. ASSUME faults # faults' PROVE \E t \in Threads : FlushFails(t) \/ CreateFails(t)
  <2>1. Next /\ ~ UNCHANGED faults
    BY <1>2 DEF vars, bounds
  <2>2. ~ (Recover \/ Sync \/ Close \/ ProcessCrash \/ PowerLoss)
    BY <2>1 DEF Recover, Start, RecoverBegin, RecoverRecord, RecoverEnd, RecoverJunk, OpenEnd, Sync,
                Close, ProcessCrash, PowerLoss, bounds
  <2>3. \A t \in Threads : ~ (RollBegin(t) \/ Proceed(t) \/ FlushPartly(t)
                              \/ \E v \in Values : AppendBegin(t, v))
    BY <2>1 DEF RollBegin, AppendBegin, Proceed, Seal, Create, WriteBegin, WriteRejected, Flush,
                Bury, AppendReturns, AppendMismatch, FlushPartly, bounds
  <2>4. \A r \in Readers : ~ (ReadStep(r) \/ \E o \in Offsets : ReadBegin(r, o))
    BY <2>1 DEF ReadStep, ReadBegin, ReadOpen, ReadRecord, ReadEof, bounds
  <2> QED
    BY <2>1, <2>2, <2>3, <2>4 DEF Next, Fail
<1>3. \A t \in Threads : ~ FlushFails(t) /\ ~ CreateFails(t)
  <2>1. \A t \in Threads : FlushFails(t) \/ CreateFails(t) => faults' = faults + 1
    BY DEF FlushFails, CreateFails
  <2> QED
    BY <1>1, <2>1
<1>4. Consistent
  BY <1>2, <1>3 DEF Safe, Consistent
<1>5. CASE Recover
  BY <1>4, <1>5, SafeStart, SafeRecoverBegin, SafeRecoverRecord, SafeRecoverEnd, SafeOpenEnd,
     NoneStray DEF Recover
<1>6. ASSUME NEW t \in Threads,
             RollBegin(t) \/ (\E v \in Values : AppendBegin(t, v)) \/ Proceed(t) \/ Fail(t)
      PROVE  Consistent'
  <2>1. CASE RollBegin(t) \/ \E v \in Values : AppendBegin(t, v)
    BY <1>4, <2>1, SafeRollBegin, SafeAppendBegin
  <2>2. CASE Proceed(t)
    BY <1>4, <2>2, SafeSeal, SafeCreate, SafeWriteBegin, SafeWriteRejected, SafeFlush,
       SafeAppendReturns, NoMismatch, NoneStray DEF Proceed
  <2>3. CASE Fail(t)
    BY <1>3, <1>4, <2>3, SafeFlushPartly DEF Fail
  <2> QED
    BY <1>6, <2>1, <2>2, <2>3
<1>7. CASE Sync \/ Close
  BY <1>4, <1>7, SafeSync, SafeClose
<1>8. ASSUME NEW r \in Readers, ReadStep(r) \/ \E o \in Offsets : ReadBegin(r, o)
      PROVE  Consistent'
  <2>1. UNCHANGED <<disk, status, chain, threads>>
    BY <1>8 DEF ReadStep, ReadBegin, ReadOpen, ReadRecord, ReadEof
  <2> QED
    BY <1>4, <2>1, SafeRead
<1>9. CASE ProcessCrash \/ PowerLoss
  BY <1>4, <1>9, SafeProcessCrash, SafePowerLoss
<1>10. CASE UNCHANGED vars
  BY <1>4, <1>10, SafeRead DEF vars
<1> QED
  BY <1>5, <1>6, <1>7, <1>8, <1>9, <1>10 DEF Next

\* Safe holds throughout.
LEMMA SafeInvariant == Spec => []Safe
<1>1. Spec => [](TypeInv /\ Safe)
  BY TypeInit, TypeNext, SafeInit, SafeNext, PTL DEF Spec
<1> QED
  BY <1>1, PTL

\* Offsets on disk are strictly sequential in every file: two appends never
\* claim one offset under Log.append's lock, and neither a roll, a crash or a
\* recovery leaves a gap or a repetition, until a write fails.
THEOREM FilesSequential == Spec => [](faults = 0 => SequentialFiles)
<1>1. Safe => (faults = 0 => SequentialFiles)
  BY DEF Safe, OnDisk
<1> QED
  BY <1>1, SafeInvariant, PTL

\* The files of a partition are one chain from offset 0, all but the last
\* sealed, whole and safe from a power loss (Log.roll), until a write or the
\* creation of a segment fails.
THEOREM FilesChained == Spec => [](faults = 0 => ChainedFiles)
<1>1. Safe => (faults = 0 => ChainedFiles)
  BY DEF Safe, OnDisk
<1> QED
  BY <1>1, SafeInvariant, PTL

\* Reopening never raises CorruptRecord or CorruptLog (Segment._recover,
\* Log.__init__) on a directory in which no write and no creation failed.
THEOREM ReopenAccepted == Spec => [](faults = 0 => NeverRefused)
<1>1. Safe => (faults = 0 => NeverRefused)
  BY DEF Safe, InMemory
<1> QED
  BY <1>1, SafeInvariant, PTL
=============================================================================
