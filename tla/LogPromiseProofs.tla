-------------------------- MODULE LogPromiseProofs --------------------------
(***************************************************************************)
(* What a Log keeps for those who were told that it would, for every       *)
(* value of its constants.                                                 *)
(*                                                                         *)
(* The first part asks for no good fortune: writes and file creations may  *)
(* fail.  What an append acknowledged is in the files, what a sync or a    *)
(* close vouched for is where no power loss reaches, and a sealed file     *)
(* does not change.  Kept is inductive; it does not say that the files are *)
(* in order (after a failed flush they may not be), only that files are    *)
(* fsynced before there is a later one, and that records are never taken   *)
(* out of a file that runs.                                                *)
(*                                                                         *)
(* The second part is the refinement: until a write fails, the records in  *)
(* the files are one run from offset 0, and every step of a Log is a step  *)
(* of DurableLog or none.                                                  *)
(*                                                                         *)
(* The third part is reading.  A reader holds a copy of the chain and no   *)
(* lock; its invariant, Reading, relates where it is to the chain and the  *)
(* files as they are now, which have only grown since (Onward).            *)
(***************************************************************************)
EXTENDS LogSafetyProofs

\* All of the file is out of the reach of a power loss.
Settled(b) == synced[b] = Len(recs[b]) /\ b \in linked

KeptFiles ==
    /\ \A b, c \in files : b < c => Settled(b)
    /\ \A b \in Offsets :
        /\ synced[b] <= Len(recs[b])
        /\ b \notin linked => synced[b] = 0
        /\ b \notin files => recs[b] = <<>> /\ b \notin linked

\* While the tail is open there is no later file; after a creation that failed
\* there may be one, which is empty.
KeptChain ==
    /\ status = "down" => segs = <<>>
    /\ \A i \in 1 .. Len(segs) : segs[i] \in files
    /\ \A i, j \in 1 .. Len(segs) : i < j => segs[i] < segs[j]
    /\ status \in {"opening", "scanning"} =>
        \A i \in 1 .. Len(segs) : \A c \in Unopened : segs[i] < c
    /\ \A b \in Offsets : size[b] # 0 => next[b] > b
    /\ \A i \in 1 .. Len(segs) : next[segs[i]] >= segs[i]
    /\ status = "opening" /\ segs # <<>> => open[Active]
    /\ status = "up" =>
        /\ open[Active] => Unopened = {}
        /\ ~ open[Active] => Settled(Active)
        /\ \A c \in Unopened : c = next[Active] /\ c > Active /\ recs[c] = <<>>

\* Where the thread that holds the lock is.
KeptOps ==
    \A t \in Threads :
        /\ op[t].pc # "idle" => lock = t
        /\ op[t].pc \in {"seal", "create"} => next[Active] > Active
        /\ op[t].pc = "create" => ~ open[Active]
        /\ op[t].pc \in {"flush", "account"} => open[Active]
        /\ op[t].pc # "idle" /\ op[t].val # NoValue => op[t].off = next[Active]
        /\ op[t].pc = "account" => [off |-> op[t].off, val |-> op[t].val] \in InFile(Active)

KeptRecords == AckedOnDisk /\ PromisedSafe

Kept == KeptFiles /\ KeptChain /\ KeptOps /\ KeptRecords

\* No file with a later one beside it changes or goes.
Frozen == \A b, c \in files : b < c => b \in files' /\ recs'[b] = recs[b]

\* Every file keeps its records, and may get more after them.
Grown ==
    \A b \in files :
        /\ b \in files'
        /\ Len(recs[b]) <= Len(recs'[b])
        /\ \A i \in 1 .. Len(recs[b]) : recs'[b][i] = recs[b][i]

-----------------------------------------------------------------------------
(* Facts used in several places.                                           *)

\* Files are named by numbers, and their lengths are numbers.
LEMMA Numbers ==
    ASSUME TypeInv
    PROVE  /\ files \subseteq Offsets /\ Offsets \subseteq Nat
           /\ \A b \in Offsets :
               /\ recs[b] \in Seq(RecordType) /\ Len(recs[b]) \in Nat
               /\ synced[b] \in Nat /\ next[b] \in Nat /\ size[b] \in Nat
<1>1. Offsets \subseteq Nat
  BY DEF Offsets
<1>2. /\ files \subseteq Offsets /\ recs \in [Offsets -> Seq(RecordType)]
      /\ synced \in [Offsets -> Nat] /\ next \in [Offsets -> Offsets]
      /\ size \in [Offsets -> Nat]
  BY DEF TypeInv, TypeOK
<1>3. \A b \in Offsets : recs[b] \in Seq(RecordType) /\ Len(recs[b]) \in Nat
  BY <1>2, LenProperties
<1>4. \A b \in Offsets : synced[b] \in Nat /\ next[b] \in Nat /\ size[b] \in Nat
  BY <1>1, <1>2
<1> QED
  BY <1>1, <1>2, <1>3, <1>4

\* The chain is a sequence of numbers.
LEMMA SegsType ==
    ASSUME TypeInv
    PROVE  /\ segs \in Seq(Offsets) /\ Len(segs) \in Nat /\ DOMAIN segs = 1 .. Len(segs)
           /\ \A i \in 1 .. Len(segs) : segs[i] \in Offsets /\ segs[i] \in Nat
<1>1. segs \in Seq(Offsets)
  BY DEF TypeInv, TypeOK
<1>2. Len(segs) \in Nat /\ DOMAIN segs = 1 .. Len(segs)
  BY <1>1, LenProperties
<1>3. \A i \in 1 .. Len(segs) : segs[i] \in Offsets
  BY <1>1, ElementOfSeq
<1> QED
  BY <1>1, <1>2, <1>3 DEF Offsets

\* The tail is a file and comes after every other segment, and while it can be
\* written, after every other file.
LEMMA TailLast ==
    ASSUME TypeInv, KeptChain, status \in {"scanning", "up"}
    PROVE  /\ Len(segs) >= 1 /\ Active \in files /\ Active \in Offsets /\ Active \in Nat
           /\ next[Active] >= Active
           /\ \A i \in 1 .. Len(segs) : segs[i] <= Active
           /\ status = "up" /\ open[Active] => \A b \in files : b <= Active
<1>1. Len(segs) \in 1 .. Len(segs)
  BY SegsType, EmptySeq DEF TypeInv, Sane
<1>2. Active \in files /\ Active \in Offsets /\ Active \in Nat /\ next[Active] >= Active
  BY <1>1, SegsType DEF KeptChain, Active
<1>3. \A i \in 1 .. Len(segs) : segs[i] <= Active
  <2> TAKE i \in 1 .. Len(segs)
  <2>1. i \in Nat /\ Len(segs) \in Nat /\ segs[i] \in Nat
    BY SegsType
  <2>2. CASE i = Len(segs)
    BY <1>2, <2>1, <2>2 DEF Active
  <2>3. CASE i < Len(segs)
    <3>1. segs[i] < segs[Len(segs)]
      BY <1>1, <2>3 DEF KeptChain
    <3> QED
      BY <1>2, <2>1, <3>1 DEF Active
  <2> QED
    BY <2>1, <2>2, <2>3
<1>4. status = "up" /\ open[Active] => \A b \in files : b <= Active
  <2> SUFFICES ASSUME status = "up", open[Active], NEW b \in files PROVE b <= Active
    OBVIOUS
  <2>1. b \in Opened
    BY DEF KeptChain, Unopened
  <2>2. PICK i \in 1 .. Len(segs) : b = segs[i]
    BY <2>1, SegsType DEF Opened
  <2> QED
    BY <1>3, <2>2
<1> QED
  BY <1>1, <1>2, <1>3, <1>4

\* Only one thread is inside append or roll.
LEMMA Alone ==
    ASSUME TypeInv, KeptOps, NEW t \in Threads, op[t].pc # "idle"
    PROVE  status = "up" /\ \A u \in Threads \ {t} : op[u].pc = "idle"
BY DEF TypeInv, Sane, KeptOps

\* While the lock is free no thread is.
LEMMA NobodyIn ==
    ASSUME KeptOps, lock = NoThread
    PROVE  \A u \in Threads : op[u].pc = "idle"
BY NoThreadAssumption DEF KeptOps

\* What is written stays written when files only grow.
LEMMA RecordsStay ==
    ASSUME TypeInv, Grown
    PROVE  Written \subseteq Written'
<1>1. \A b \in files : InFile(b) \subseteq InFile(b)'
  <2> SUFFICES ASSUME NEW b \in files, NEW i \in 1 .. Len(recs[b])
               PROVE  [off |-> recs[b][i].off, val |-> recs[b][i].val] \in InFile(b)'
    BY DEF InFile
  <2>1. i \in 1 .. Len(recs'[b]) /\ recs'[b][i] = recs[b][i]
    <3>1. Len(recs[b]) \in Nat
      BY Numbers
    <3> QED
      BY <3>1 DEF Grown
  <2> QED
    BY <2>1 DEF InFile
<1> QED
  BY <1>1 DEF Written, Grown

\* And what is safe stays safe when no fsync is undone.
LEMMA SafeStays ==
    ASSUME TypeInv, KeptFiles, Grown, linked \subseteq linked',
           \A b \in files \cap linked : synced'[b] \in Int /\ synced[b] <= synced'[b]
    PROVE  WrittenSafe \subseteq WrittenSafe'
<1>1. \A b \in files \cap linked : Durable(b) \subseteq Durable(b)'
  <2> SUFFICES ASSUME NEW b \in files \cap linked, NEW i \in 1 .. synced[b]
               PROVE  [off |-> recs[b][i].off, val |-> recs[b][i].val] \in Durable(b)'
    BY DEF Durable
  <2>1. i \in 1 .. synced'[b] /\ recs'[b][i] = recs[b][i]
    <3>1. b \in Offsets /\ Len(recs[b]) \in Nat /\ synced[b] \in Nat /\ synced[b] <= Len(recs[b])
      BY Numbers DEF KeptFiles
    <3> QED
      BY <3>1 DEF Grown
  <2> QED
    BY <2>1 DEF Durable
<1> QED
  BY <1>1 DEF WrittenSafe, Grown

-----------------------------------------------------------------------------
(* Steps that change neither the files nor the segments.                   *)

\* All but KeptOps speaks of the directory, the chain and the history.
LEMMA KeptSame ==
    ASSUME Kept, UNCHANGED <<files, recs, synced, linked, status, chain, history>>
    PROVE  KeptFiles' /\ KeptChain' /\ KeptRecords' /\ Frozen
<1>1. KeptFiles' /\ Frozen
  BY DEF Kept, KeptFiles, Settled, Frozen
<1>2. KeptChain'
  BY DEF Kept, KeptChain, Unopened, Opened, Active, Settled, chain
<1>3. KeptRecords'
  BY DEF Kept, KeptRecords, AckedOnDisk, PromisedSafe, Written, WrittenSafe, InFile, Durable, history
<1> QED
  BY <1>1, <1>2, <1>3

\* A thread that leaves the critical section leaves nobody there.
LEMMA KeptLeave ==
    ASSUME TypeInv, KeptOps, NEW t \in Threads, op[t].pc # "idle", Leave(t)
    PROVE  KeptOps'
<1>1. \A u \in Threads : op'[u].pc = "idle"
  BY Alone DEF Leave, Idle, TypeInv, TypeOK
<1> QED
  BY <1>1 DEF KeptOps

\* A reader disturbs nothing.
LEMMA KeptRead ==
    ASSUME Kept, UNCHANGED <<disk, status, chain, threads, history>>
    PROVE  Kept' /\ Frozen
<1>1. KeptOps'
  BY ZenonT(40) DEF Kept, KeptOps, Active, InFile, disk, chain, threads
<1> QED
  BY <1>1, KeptSame DEF Kept, disk

\* The offset an append claims is the next one of the tail.
LEMMA KeptAppendBegin ==
    ASSUME TypeInv, Kept, NEW t \in Threads, NEW v \in Values, AppendBegin(t, v)
    PROVE  Kept' /\ Frozen
<1> DEFINE new == [pc  |-> IF HasRoomFor(size[Active], v) THEN "write" ELSE "seal",
                   off |-> next[Active], val |-> v, at |-> 0]
<1>1. /\ op' = [op EXCEPT ![t] = new] /\ lock' = t /\ lock = NoThread /\ status = "up"
      /\ UNCHANGED <<disk, status, chain, history>>
  BY DEF AppendBegin, Acquire
<1>2. Active \in Offsets
  BY <1>1, TailLast DEF Kept
<1>3. new.pc \in {"write", "seal"} /\ new.off = next[Active]
      /\ (new.pc = "seal" => next[Active] > Active)
  BY <1>2 DEF HasRoomFor, Kept, KeptChain
<1> HIDE DEF new
<1>4. op'[t] = new /\ \A u \in Threads \ {t} : op'[u].pc = "idle"
  BY <1>1, NobodyIn DEF Kept, TypeInv, TypeOK
<1>5. Active' = Active /\ next' = next
  BY <1>1 DEF Active, chain
<1>6. KeptOps'
  BY <1>1, <1>3, <1>4, <1>5 DEF KeptOps
<1> QED
  BY <1>1, <1>6, KeptSame DEF Kept, disk

\* A roll that begins has claimed nothing, and its tail is not empty.
LEMMA KeptRollBegin ==
    ASSUME TypeInv, Kept, NEW t \in Threads, RollBegin(t)
    PROVE  Kept' /\ Frozen
<1> DEFINE new == [Idle EXCEPT !.pc = "seal"]
<1>1. /\ op' = [op EXCEPT ![t] = new] /\ lock' = t /\ lock = NoThread /\ status = "up"
      /\ size[Active] # 0 /\ UNCHANGED <<disk, status, chain, history>>
  BY DEF RollBegin, Acquire
<1>2. Active \in Offsets
  BY <1>1, TailLast DEF Kept
<1>3. new.pc = "seal" /\ new.val = NoValue /\ next[Active] > Active
  BY <1>1, <1>2 DEF Idle, Kept, KeptChain
<1> HIDE DEF new
<1>4. op'[t] = new /\ \A u \in Threads \ {t} : op'[u].pc = "idle"
  BY <1>1, NobodyIn DEF Kept, TypeInv, TypeOK
<1>5. Active' = Active /\ next' = next
  BY <1>1 DEF Active, chain
<1>6. KeptOps'
  BY <1>1, <1>3, <1>4, <1>5 DEF KeptOps
<1> QED
  BY <1>1, <1>6, KeptSame DEF Kept, disk

\* The check of Segment.append passes: the tail is open.
LEMMA KeptWriteBegin ==
    ASSUME TypeInv, Kept, NEW t \in Threads, WriteBegin(t)
    PROVE  Kept' /\ Frozen
<1>1. /\ op' = [op EXCEPT ![t].pc = "flush", ![t].at = size[Active]] /\ lock' = lock
      /\ UNCHANGED <<disk, status, chain, history>> /\ open[Active] /\ op[t].pc = "write"
  BY DEF WriteBegin
<1>2. \A u \in Threads \ {t} : op'[u].pc = "idle"
  BY <1>1, Alone DEF Kept, TypeInv, TypeOK
<1>3. op'[t].pc = "flush" /\ op'[t].off = op[t].off /\ op'[t].val = op[t].val
  BY <1>1 DEF TypeInv, TypeOK, OpType
<1>4. Active' = Active /\ next' = next /\ open' = open
  BY <1>1 DEF Active, chain
<1>5. lock = t /\ (op[t].val # NoValue => op[t].off = next[Active])
  BY <1>1 DEF Kept, KeptOps
<1>6. KeptOps'
  BY <1>1, <1>2, <1>3, <1>4, <1>5 DEF KeptOps
<1> QED
  BY <1>1, <1>6, KeptSame DEF Kept, disk

\* Refused appends and those that find other bytes than theirs add no record.
LEMMA KeptRefused ==
    ASSUME TypeInv, Kept, NEW t \in Threads, WriteRejected(t) \/ AppendMismatch(t) \/ Bury(t)
    PROVE  Kept' /\ Frozen
<1>1. Leave(t) /\ op[t].pc # "idle"
      /\ UNCHANGED <<files, recs, synced, linked, status, chain, history>>
  BY DEF WriteRejected, AppendMismatch, Bury, disk
<1> QED
  BY <1>1, KeptLeave, KeptSame DEF Kept

-----------------------------------------------------------------------------
(* Steps that write to the tail.                                           *)

\* What a sequence is when more is written after it.
Extends(new, old) == Len(old) <= Len(new) /\ \A i \in 1 .. Len(old) : new[i] = old[i]

\* A sequence with another after it.
LEMMA ConcatExtends ==
    ASSUME NEW s \in Seq(RecordType), NEW more \in Seq(RecordType)
    PROVE  Extends(s \o more, s)
<1>1. Len(s) \in Nat /\ Len(more) \in Nat
  BY LenProperties
<1>2. Len(s \o more) = Len(s) + Len(more) /\ \A i \in 1 .. Len(s) : (s \o more)[i] = s[i]
  BY <1>1, ConcatProperties
<1> QED
  BY <1>1, <1>2 DEF Extends

\* A flush writes after what is there.
LEMMA FlushedExtends ==
    ASSUME TypeInv, NEW b \in Offsets
    PROVE  Extends(Flushed(b), recs[b])
<1>1. recs[b] \in Seq(RecordType) /\ buf[b] \in Seq(RecordType)
  BY DEF TypeInv, TypeOK
<1> QED
  BY <1>1, ConcatExtends DEF Flushed

\* A write at the end of the open tail, with or without an fsync, takes nothing
\* from any file, and no file with a later one is touched.
LEMMA TailWritten ==
    ASSUME TypeInv, Kept, status = "up", open[Active],
           NEW new \in Seq(RecordType), Extends(new, recs[Active]),
           recs' = [recs EXCEPT ![Active] = new], files' = files,
           \/ UNCHANGED <<synced, linked>>
           \/ synced' = [synced EXCEPT ![Active] = Len(new)] /\ linked' = linked \cup {Active}
    PROVE  KeptFiles' /\ Frozen /\ Written \subseteq Written' /\ WrittenSafe \subseteq WrittenSafe'
<1>1. Active \in files /\ Active \in Offsets /\ \A b \in files : b <= Active
  BY TailLast DEF Kept
<1>2. Len(new) \in Nat /\ \A b \in Offsets : recs'[b] = IF b = Active THEN new ELSE recs[b]
  BY <1>1, LenProperties DEF TypeInv, TypeOK
<1>3. \A b \in Offsets : /\ synced'[b] = synced[b] \/ (b = Active /\ synced'[b] = Len(new))
                         /\ b \in linked' <=> b \in linked \/ (b = Active /\ linked' # linked)
  BY <1>1 DEF TypeInv, TypeOK
<1>4. \A b, c \in files : b < c => b # Active
  BY <1>1, Numbers
<1>5. Frozen
  BY <1>2, <1>4, Numbers DEF Frozen
<1>6. Grown
  BY <1>2, Numbers DEF Grown, Extends
<1>7. KeptFiles'
  <2>1. \A b, c \in files : b < c => Settled(b)'
    <3> SUFFICES ASSUME NEW b \in files, NEW c \in files, b < c PROVE Settled(b)'
      OBVIOUS
    <3>1. b # Active /\ b \in Offsets /\ Settled(b)
      BY <1>4, Numbers DEF Kept, KeptFiles
    <3> QED
      BY <1>2, <1>3, <3>1 DEF Settled
  <2>2. ASSUME NEW b \in Offsets
        PROVE  /\ synced'[b] <= Len(recs'[b])
               /\ b \notin linked' => synced'[b] = 0
               /\ b \notin files => recs'[b] = <<>> /\ b \notin linked'
    <3>1. /\ synced[b] \in Nat /\ Len(recs[b]) \in Nat /\ synced[b] <= Len(recs[b])
          /\ b \notin linked => synced[b] = 0
          /\ b \notin files => recs[b] = <<>> /\ b \notin linked
      BY Numbers DEF Kept, KeptFiles
    <3>2. CASE b = Active
      <4>1. Len(recs[b]) <= Len(new) /\ recs'[b] = new
        BY <1>2, <3>2 DEF Extends
      <4>2. synced'[b] <= Len(new)
        BY <1>2, <1>3, <3>1, <4>1
      <4>3. b \notin linked' => synced'[b] = 0
        BY <1>1, <3>1, <3>2
      <4> QED
        BY <1>1, <3>2, <4>1, <4>2, <4>3
    <3>3. CASE b # Active
      BY <1>2, <1>3, <3>1, <3>3
    <3> QED
      BY <3>2, <3>3
  <2> QED
    BY <2>1, <2>2 DEF KeptFiles
<1>8. \A b \in files \cap linked : synced'[b] \in Int /\ synced[b] <= synced'[b]
  <2> TAKE b \in files \cap linked
  <2>1. b \in Offsets /\ synced[b] \in Nat /\ Len(recs[b]) \in Nat /\ synced[b] <= Len(recs[b])
    BY Numbers DEF Kept, KeptFiles
  <2>2. b = Active => Len(recs[b]) <= Len(new)
    BY DEF Extends
  <2> QED
    BY <1>2, <1>3, <2>1, <2>2
<1>9. linked \subseteq linked'
  OBVIOUS
<1> QED
  BY <1>5, <1>6, <1>7, <1>8, <1>9, RecordsStay, SafeStays DEF Kept

\* A part of a record may reach the tail: nothing that is whole changes.
LEMMA KeptFlushPartly ==
    ASSUME TypeInv, Kept, NEW t \in Threads, FlushPartly(t)
    PROVE  Kept' /\ Frozen
<1>1. UNCHANGED <<files, recs, synced, linked, status, chain, threads, history>>
  BY DEF FlushPartly
<1>2. KeptFiles' /\ Frozen
  BY <1>1 DEF Kept, KeptFiles, Settled, Frozen
<1>3. KeptChain'
  BY <1>1 DEF Kept, KeptChain, Unopened, Opened, Active, Settled, chain
<1>4. KeptOps'
  BY <1>1 DEF Kept, KeptOps, Active, InFile, chain, threads
<1>5. KeptRecords'
  BY <1>1 DEF Kept, KeptRecords, AckedOnDisk, PromisedSafe, Written, WrittenSafe, InFile, Durable,
         history
<1> QED
  BY <1>2, <1>3, <1>4, <1>5 DEF Kept

\* While the chain and the counters stay, so does what is said of them; a tail
\* that is closed has to be settled.
LEMMA KeptTail ==
    ASSUME TypeInv, Kept, status = "up", open[Active],
           UNCHANGED <<files, status, segs, next, size>>,
           open' = open \/ (open' = [open EXCEPT ![Active] = FALSE] /\ Settled(Active)')
    PROVE  KeptChain'
<1>1. Active' = Active /\ Unopened' = Unopened /\ Active \in Offsets
  BY TailLast DEF Active, Unopened, Opened, Kept
<1>2. Unopened = {}
  BY DEF Kept, KeptChain
<1>3. ~ open'[Active] => Settled(Active)'
  OBVIOUS
<1> QED
  BY <1>1, <1>2, <1>3 DEF Kept, KeptChain, Settled

\* An fsync of the tail takes nothing away and settles the tail.
LEMMA KeptFsync ==
    ASSUME TypeInv, Kept, status = "up", FsyncTail, UNCHANGED <<files, segs>>
    PROVE  /\ KeptFiles' /\ Frozen /\ Written \subseteq Written' /\ WrittenSafe \subseteq WrittenSafe'
           /\ Active' = Active /\ Settled(Active)'
<1>1. Active \in Offsets /\ Active' = Active
  BY TailLast DEF Active, Kept
<1>2. Flushed(Active) \in Seq(RecordType) /\ Extends(Flushed(Active), recs[Active])
  BY <1>1, TypeFlushed, FlushedExtends
<1>3. /\ open[Active] /\ recs' = [recs EXCEPT ![Active] = Flushed(Active)]
      /\ synced' = [synced EXCEPT ![Active] = Len(Flushed(Active))]
      /\ linked' = linked \cup {Active}
  BY DEF FsyncTail
<1>4. KeptFiles' /\ Frozen /\ Written \subseteq Written' /\ WrittenSafe \subseteq WrittenSafe'
  BY <1>2, <1>3, TailWritten
<1>5. Settled(Active)'
  BY <1>1, <1>3 DEF Settled, TypeInv, TypeOK
<1> QED
  BY <1>1, <1>4, <1>5

\* After it everything that was written is safe: the files before the tail
\* were settled when they were sealed, and there is none after it.
LEMMA AllSafe ==
    ASSUME TypeInv, Kept, status = "up", FsyncTail, UNCHANGED <<files, segs>>
    PROVE  Written \subseteq WrittenSafe'
<1>1. Written \subseteq Written' /\ KeptFiles' /\ Active' = Active /\ Settled(Active)' /\ open[Active]
  BY KeptFsync DEF FsyncTail
<1>2. \A b \in files : b <= Active
  BY <1>1, TailLast DEF Kept
<1>3. Active \in files /\ Active \in Nat /\ files \subseteq Nat
  BY Numbers, TailLast DEF Kept
<1>4. \A b \in files : Settled(b)'
  <2> TAKE b \in files
  <2>1. b = Active \/ b < Active
    BY <1>2, <1>3
  <2> QED
    BY <1>1, <1>3, <2>1 DEF KeptFiles, Settled
<1>5. \A b \in files : b \in files' \cap linked' /\ InFile(b)' = Durable(b)'
  BY <1>4 DEF Settled, InFile, Durable
<1>6. Written' \subseteq WrittenSafe'
  BY <1>5 DEF Written, WrittenSafe
<1> QED
  BY <1>1, <1>6

\* Log.sync and Log.close: what they vouch for is what was acknowledged.
LEMMA KeptSync ==
    ASSUME TypeInv, Kept, Sync \/ Close
    PROVE  Kept' /\ Frozen
<1>1. /\ status = "up" /\ lock = NoThread /\ FsyncTail /\ promised' = acked /\ acked' = acked
      /\ UNCHANGED <<files, status, segs, next, size, threads>>
      /\ open' = open \/ open' = [open EXCEPT ![Active] = FALSE]
  BY DEF Sync, Close
<1>2. /\ KeptFiles' /\ Frozen /\ Written \subseteq Written' /\ Written \subseteq WrittenSafe'
      /\ Settled(Active)'
  BY <1>1, KeptFsync, AllSafe
<1>3. KeptChain'
  BY <1>1, <1>2, KeptTail DEF FsyncTail
<1>4. KeptOps'
  BY <1>1, NobodyIn DEF Kept, KeptOps, threads
<1>5. KeptRecords'
  BY <1>1, <1>2 DEF Kept, KeptRecords, AckedOnDisk, PromisedSafe
<1> QED
  BY <1>2, <1>3, <1>4, <1>5 DEF Kept

\* Log.roll seals the tail before there is a later file.
LEMMA KeptSeal ==
    ASSUME TypeInv, Kept, NEW t \in Threads, Seal(t)
    PROVE  Kept' /\ Frozen
<1>1. /\ op[t].pc = "seal" /\ op' = [op EXCEPT ![t].pc = "create"] /\ lock' = lock
      /\ UNCHANGED <<files, status, segs, next, size, history>>
  BY DEF Seal, Goto
<1>2. status = "up" /\ \A u \in Threads \ {t} : op[u].pc = "idle"
  BY <1>1, Alone DEF Kept
<1>3. Active' = Active /\ Active \in Offsets
  BY <1>1, <1>2, TailLast DEF Active, Kept
<1>4. KeptFiles' /\ Frozen /\ Written \subseteq Written' /\ WrittenSafe \subseteq WrittenSafe'
      /\ KeptChain' /\ ~ open'[Active]
  <2>1. CASE FsyncTail /\ open' = [open EXCEPT ![Active] = FALSE]
    <3>1. KeptFiles' /\ Frozen /\ Written \subseteq Written' /\ WrittenSafe \subseteq WrittenSafe'
          /\ Settled(Active)'
      BY <1>1, <1>2, <2>1, KeptFsync
    <3>2. KeptChain'
      BY <1>1, <1>2, <2>1, <3>1, KeptTail DEF FsyncTail
    <3>3. ~ open'[Active]
      BY <1>3, <2>1 DEF TypeInv, TypeOK
    <3> QED
      BY <3>1, <3>2, <3>3
  <2>2. CASE ~ open[Active] /\ UNCHANGED <<recs, buf, torn, stray, synced, linked, open>>
    <3>1. KeptFiles' /\ Frozen
      BY <1>1, <2>2 DEF Kept, KeptFiles, Settled, Frozen
    <3>2. Written' = Written /\ WrittenSafe' = WrittenSafe
      BY <1>1, <2>2 DEF Written, WrittenSafe, InFile, Durable
    <3>3. KeptChain'
      BY <1>1, <2>2 DEF Kept, KeptChain, Unopened, Opened, Active, Settled
    <3> QED
      BY <2>2, <3>1, <3>2, <3>3
  <2> QED
    BY <2>1, <2>2 DEF Seal
<1>5. KeptOps'
  <2>1. \A u \in Threads \ {t} : op'[u].pc = "idle"
    BY <1>1, <1>2 DEF TypeInv, TypeOK
  <2>2. op'[t].pc = "create" /\ op'[t].off = op[t].off /\ op'[t].val = op[t].val
    BY <1>1 DEF TypeInv, TypeOK, OpType
  <2>3. lock = t /\ next[Active] > Active /\ (op[t].val # NoValue => op[t].off = next[Active])
    BY <1>1 DEF Kept, KeptOps
  <2> QED
    BY <1>1, <1>3, <1>4, <2>1, <2>2, <2>3 DEF KeptOps
<1>6. KeptRecords'
  BY <1>1, <1>4 DEF Kept, KeptRecords, AckedOnDisk, PromisedSafe, history
<1> QED
  BY <1>4, <1>5, <1>6 DEF Kept

\* A flush puts the record at the end of the tail.
LEMMA KeptFlush ==
    ASSUME TypeInv, Kept, NEW t \in Threads, Flush(t)
    PROVE  Kept' /\ Frozen
<1> DEFINE old == Flushed(Active)
           rec == LandAt(old, op[t].off, op[t].val)
           new == Append(old, rec)
<1>1. /\ op[t].pc = "flush" /\ op' = [op EXCEPT ![t].pc = "account"] /\ lock' = lock
      /\ recs' = [recs EXCEPT ![Active] = new]
      /\ UNCHANGED <<files, synced, linked, status, segs, next, size, open, history>>
  BY DEF Flush, Goto
<1>2. status = "up" /\ open[Active] /\ \A u \in Threads \ {t} : op[u].pc = "idle"
  BY <1>1, Alone DEF Kept, KeptOps
<1>3. Active' = Active /\ Active \in Offsets
  BY <1>1, <1>2, TailLast DEF Active, Kept
<1>4. old \in Seq(RecordType) /\ rec \in RecordType /\ Extends(old, recs[Active])
  BY <1>1, <1>3, TypeRecord, TypeFlushed, FlushedExtends
<1>5. rec.off = op[t].off /\ rec.val = op[t].val
  BY DEF LandAt
<1> HIDE DEF rec, old
<1>6. new \in Seq(RecordType) /\ Len(new) \in Nat /\ Len(new) >= 1 /\ new[Len(new)] = rec
      /\ Extends(new, recs[Active])
  <2>1. Len(old) \in Nat /\ Len(recs[Active]) \in Nat
    BY <1>3, <1>4, Numbers, LenProperties
  <2>2. /\ new \in Seq(RecordType) /\ Len(new) = Len(old) + 1 /\ new[Len(old) + 1] = rec
        /\ \A i \in 1 .. Len(old) : new[i] = old[i]
    BY <1>4, AppendProperties
  <2> HIDE DEF new
  <2> QED
    BY <1>4, <2>1, <2>2 DEF Extends
<1> HIDE DEF new
<1>7. KeptFiles' /\ Frozen /\ Written \subseteq Written' /\ WrittenSafe \subseteq WrittenSafe'
  BY <1>1, <1>2, <1>6, TailWritten
<1>8. KeptChain'
  BY <1>1, <1>2, KeptTail
<1>9. KeptOps'
  <2>1. \A u \in Threads \ {t} : op'[u].pc = "idle"
    BY <1>1, <1>2 DEF TypeInv, TypeOK
  <2>2. op'[t].pc = "account" /\ op'[t].off = op[t].off /\ op'[t].val = op[t].val
    BY <1>1 DEF TypeInv, TypeOK, OpType
  <2>3. lock = t /\ (op[t].val # NoValue => op[t].off = next[Active])
    BY <1>1 DEF Kept, KeptOps
  <2>4. recs'[Active] = new
    BY <1>1, <1>3 DEF TypeInv, TypeOK
  <2>5. [off |-> op[t].off, val |-> op[t].val] \in InFile(Active)'
    BY <1>3, <1>5, <1>6, <2>4 DEF InFile
  <2> QED
    BY <1>1, <1>2, <1>3, <2>1, <2>2, <2>3, <2>5 DEF KeptOps
<1>10. KeptRecords'
  BY <1>1, <1>7 DEF Kept, KeptRecords, AckedOnDisk, PromisedSafe, history
<1> QED
  BY <1>7, <1>8, <1>9, <1>10 DEF Kept

\* A flush that fails may have written a part of what it should have.
LEMMA KeptFlushFails ==
    ASSUME TypeInv, Kept, NEW t \in Threads, FlushFails(t)
    PROVE  Kept' /\ Frozen
<1> DEFINE out == Append(buf[Active], LandAt(Flushed(Active), op[t].off, op[t].val))
<1>1. /\ op[t].pc = "flush" /\ Leave(t)
      /\ UNCHANGED <<files, synced, linked, status, segs, next, size, open, history>>
  BY DEF FlushFails
<1>2. PICK k \in 0 .. Len(out) - 1 : recs' = [recs EXCEPT ![Active] = @ \o SubSeq(out, 1, k)]
  BY DEF FlushFails
<1>3. status = "up" /\ open[Active]
  BY <1>1, Alone DEF Kept, KeptOps
<1>4. Active \in Offsets /\ recs[Active] \in Seq(RecordType)
  BY <1>3, TailLast, Numbers DEF Kept
<1>5. SubSeq(out, 1, k) \in Seq(RecordType)
  <2>1. out \in Seq(RecordType) /\ Len(out) \in Nat
    BY <1>1, <1>4, TypeRecord, AppendProperties, LenProperties DEF TypeInv, TypeOK
  <2> HIDE DEF out
  <2>2. \A i \in 1 .. k : out[i] \in RecordType
    BY <2>1, ElementOfSeq
  <2> QED
    BY <2>1, <2>2, SubSeqProperties
<1> DEFINE new == recs[Active] \o SubSeq(out, 1, k)
<1>6. recs' = [recs EXCEPT ![Active] = new]
  BY <1>2
<1> HIDE DEF out
<1>7. new \in Seq(RecordType) /\ Extends(new, recs[Active])
  BY <1>4, <1>5, ConcatProperties, ConcatExtends
<1> HIDE DEF new
<1>8. KeptFiles' /\ Frozen /\ Written \subseteq Written' /\ WrittenSafe \subseteq WrittenSafe'
  BY <1>1, <1>3, <1>6, <1>7, TailWritten
<1>9. KeptChain'
  BY <1>1, <1>3, KeptTail
<1>10. KeptOps'
  BY <1>1, KeptLeave DEF Kept
<1>11. KeptRecords'
  BY <1>1, <1>8 DEF Kept, KeptRecords, AckedOnDisk, PromisedSafe, history
<1> QED
  BY <1>8, <1>9, <1>10, <1>11 DEF Kept

\* What append acknowledges is what its flush wrote.
LEMMA KeptAppendReturns ==
    ASSUME TypeInv, Kept, NEW t \in Threads, AppendReturns(t)
    PROVE  Kept' /\ Frozen
<1>1. /\ op[t].pc = "account" /\ Leave(t)
      /\ Count(Active, op[t].off, op[t].at, FileEnd(recs[Active]))
      /\ acked' = acked \cup {[off |-> op[t].off, val |-> op[t].val]}
      /\ UNCHANGED <<disk, status, segs, open, promised>>
  BY DEF AppendReturns
<1>2. status = "up" /\ open[Active]
  BY <1>1, Alone DEF Kept, KeptOps
<1>3. Active \in files /\ Active \in Offsets /\ Active \in Nat /\ Active' = Active
  BY <1>1, <1>2, TailLast DEF Active, Kept
<1>4. op[t].off = next[Active] /\ next[Active] \in Nat /\ next[Active] >= Active
  <2>1. op[t].val # NoValue
    BY <1>1, TypeRecord, NoValueAssumption
  <2> QED
    BY <1>1, <1>2, <1>3, <2>1, TailLast, Numbers DEF Kept, KeptOps
<1>5. /\ next' = [next EXCEPT ![Active] = op[t].off + 1]
      /\ size' = [size EXCEPT ![Active] = FileEnd(recs[Active])]
  BY <1>1 DEF Count
<1>6. KeptFiles' /\ Frozen /\ WrittenSafe' = WrittenSafe /\ Written' = Written
  BY <1>1 DEF Kept, KeptFiles, Settled, Frozen, Written, WrittenSafe, InFile, Durable, disk
<1>7. KeptChain'
  <2>1. ASSUME NEW b \in Offsets, size'[b] # 0 PROVE next'[b] > b
    <3>1. CASE b = Active
      BY <1>3, <1>4, <1>5, <3>1 DEF TypeInv, TypeOK
    <3>2. CASE b # Active
      BY <1>5, <2>1, <3>2 DEF Kept, KeptChain, TypeInv, TypeOK
    <3> QED
      BY <3>1, <3>2
  <2>2. ASSUME NEW i \in 1 .. Len(segs) PROVE next'[segs[i]] >= segs[i]
    <3>1. segs[i] \in Offsets /\ next[segs[i]] >= segs[i]
      BY SegsType DEF Kept, KeptChain
    <3> QED
      BY <1>3, <1>4, <1>5, <3>1, SMTT(30) DEF TypeInv, TypeOK
  <2>3. Unopened' = Unopened /\ Unopened = {}
    BY <1>1, <1>2 DEF Unopened, Opened, disk, Kept, KeptChain
  <2>4. open' = open /\ segs' = segs /\ files' = files /\ status' = status
    BY <1>1 DEF disk
  <2> QED
    BY <1>2, <1>3, <2>1, <2>2, <2>3, <2>4 DEF Kept, KeptChain
<1>8. KeptOps'
  BY <1>1, KeptLeave DEF Kept
<1>9. [off |-> op[t].off, val |-> op[t].val] \in Written
  <2>1. [off |-> op[t].off, val |-> op[t].val] \in InFile(Active)
    BY <1>1 DEF Kept, KeptOps
  <2> QED
    BY <1>3, <2>1 DEF Written
<1>10. KeptRecords'
  BY <1>1, <1>6, <1>9 DEF Kept, KeptRecords, AckedOnDisk, PromisedSafe
<1> QED
  BY <1>6, <1>7, <1>8, <1>10 DEF Kept

-----------------------------------------------------------------------------
(* New files, and opening.                                                 *)

\* A file may be added when all that are there are before it and settled.
LEMMA FileAdded ==
    ASSUME TypeInv, Kept, NEW b \in Offsets, files' = files \/ files' = files \cup {b},
           b \notin files => \A c \in files : c < b /\ Settled(c),
           UNCHANGED <<recs, synced, linked>>
    PROVE  KeptFiles' /\ Frozen /\ Written \subseteq Written' /\ WrittenSafe \subseteq WrittenSafe'
<1>1. Frozen
  BY DEF Frozen
<1>2. ASSUME NEW c \in files', NEW d \in files', c < d PROVE Settled(c)'
  <2>1. c \in Nat /\ d \in Nat
    BY <1>2, Numbers
  <2>2. CASE c \in files /\ d \in files
    BY <1>2, <2>2 DEF Kept, KeptFiles, Settled
  <2>3. CASE b \notin files /\ c = b
    BY <1>2, <2>1, <2>3
  <2>4. CASE b \notin files /\ d = b /\ c \in files
    BY <2>4 DEF Settled
  <2> QED
    BY <2>2, <2>3, <2>4
<1>3. KeptFiles'
  BY <1>2 DEF Kept, KeptFiles, Settled
<1>4. Written \subseteq Written' /\ WrittenSafe \subseteq WrittenSafe'
  BY DEF Written, WrittenSafe, InFile, Durable
<1> QED
  BY <1>1, <1>3, <1>4

\* A segment constructed at the end of the chain is its tail.
LEMMA SegmentAdded ==
    ASSUME TypeInv, NEW b \in Offsets, segs' = Append(segs, b)
    PROVE  /\ Len(segs') = Len(segs) + 1 /\ Active' = b /\ segs' # <<>>
           /\ \A i \in 1 .. Len(segs) : segs'[i] = segs[i]
           /\ Opened' = Opened \cup {b}
<1>1. /\ Len(segs') = Len(segs) + 1 /\ segs'[Len(segs) + 1] = b /\ segs' # <<>>
      /\ \A i \in 1 .. Len(segs) : segs'[i] = segs[i]
      /\ segs' \in Seq(Offsets)
  BY SegsType, AppendProperties
<1>2. Active' = b
  BY <1>1 DEF Active
<1>3. DOMAIN segs' = 1 .. Len(segs) + 1 /\ DOMAIN segs = 1 .. Len(segs)
  BY <1>1, SegsType, LenProperties
<1>4. Opened' = Opened \cup {b}
  <2>1. ASSUME NEW x \in Opened' PROVE x \in Opened \cup {b}
    <3>1. PICK i \in 1 .. Len(segs) + 1 : x = segs'[i]
      BY <1>3 DEF Opened
    <3>2. i \in 1 .. Len(segs) \/ i = Len(segs) + 1
      BY SegsType
    <3> QED
      BY <1>1, <1>3, <3>1, <3>2 DEF Opened
  <2>2. Opened \subseteq Opened'
    <3> SUFFICES ASSUME NEW i \in 1 .. Len(segs) PROVE segs[i] \in Opened'
      BY <1>3 DEF Opened
    <3>1. i \in 1 .. Len(segs) + 1 /\ segs'[i] = segs[i]
      BY <1>1, SegsType
    <3> QED
      BY <1>3, <3>1 DEF Opened
  <2>3. b \in Opened'
    <3>1. Len(segs) + 1 \in 1 .. Len(segs) + 1
      BY SegsType
    <3> QED
      BY <1>1, <1>3, <3>1 DEF Opened
  <2> QED
    BY <2>1, <2>2, <2>3
<1> QED
  BY <1>1, <1>2, <1>4

\* The counters of a constructed segment, and its place behind the others.
LEMMA SegmentCounts ==
    ASSUME TypeInv, Kept, NEW b \in Offsets, NewSegment(b),
           \A i \in 1 .. Len(segs) : segs[i] < b
    PROVE  /\ \A i \in 1 .. Len(segs') : segs'[i] \in files' /\ next'[segs'[i]] >= segs'[i]
           /\ \A i, j \in 1 .. Len(segs') : i < j => segs'[i] < segs'[j]
           /\ \A c \in Offsets : size'[c] # 0 => next'[c] > c
<1>1. /\ Len(segs') = Len(segs) + 1 /\ segs'[Len(segs) + 1] = b /\ Len(segs) \in Nat
      /\ \A i \in 1 .. Len(segs) : segs'[i] = segs[i]
  BY SegmentAdded, SegsType DEF NewSegment, Active
<1>2. /\ files' = files \cup {b} /\ b \in Nat
      /\ \A c \in Offsets : /\ next'[c] = IF c = b THEN b ELSE next[c]
                            /\ size'[c] = IF c = b THEN 0 ELSE size[c]
  BY Numbers DEF NewSegment, TypeInv, TypeOK
<1>3. ASSUME NEW i \in 1 .. Len(segs')
      PROVE  segs'[i] \in files' /\ next'[segs'[i]] >= segs'[i]
  <2>1. CASE i = Len(segs) + 1
    BY <1>1, <1>2, <2>1
  <2>2. CASE i \in 1 .. Len(segs)
    <3>1. segs[i] \in files /\ segs[i] \in Offsets /\ next[segs[i]] >= segs[i] /\ segs'[i] = segs[i]
          /\ segs[i] \in Nat
      BY <1>1, <2>2, SegsType DEF Kept, KeptChain
    <3>2. segs[i] # b
      BY <1>2, <2>2, <3>1
    <3> QED
      BY <1>2, <3>1, <3>2
  <2> QED
    BY <1>1, <2>1, <2>2
<1>4. ASSUME NEW i \in 1 .. Len(segs'), NEW j \in 1 .. Len(segs'), i < j
      PROVE  segs'[i] < segs'[j]
  <2>1. i \in 1 .. Len(segs) /\ segs'[i] = segs[i]
    BY <1>1, <1>4
  <2>2. CASE j = Len(segs) + 1
    BY <1>1, <2>1, <2>2
  <2>3. CASE j \in 1 .. Len(segs)
    BY <1>1, <1>4, <2>1, <2>3 DEF Kept, KeptChain
  <2> QED
    BY <1>1, <2>2, <2>3
<1>5. \A c \in Offsets : size'[c] # 0 => next'[c] > c
  BY <1>2 DEF Kept, KeptChain
<1> QED
  BY <1>3, <1>4, <1>5

\* Where a roll makes its file every file there is, is before it and settled;
\* or there is a file already, the empty one of a roll that failed.
LEMMA RollRoom ==
    ASSUME TypeInv, Kept, NEW t \in Threads, op[t].pc = "create"
    PROVE  /\ status = "up" /\ ~ open[Active] /\ lock = t
           /\ Active \in Nat /\ next[Active] \in Offsets
           /\ next[Active] > Active /\ Unopened \subseteq {next[Active]}
           /\ next[Active] \notin files => \A c \in files : c < next[Active] /\ Settled(c)
           /\ \A i \in 1 .. Len(segs) : segs[i] < next[Active]
<1>1. status = "up" /\ ~ open[Active] /\ next[Active] > Active /\ lock = t
  BY Alone DEF Kept, KeptOps
<1>2. /\ Active \in Offsets /\ Active \in Nat /\ Active \in files
      /\ \A i \in 1 .. Len(segs) : segs[i] <= Active
  BY <1>1, TailLast DEF Kept
<1>3. next[Active] \in Offsets /\ next[Active] \in Nat
  BY <1>2, Numbers DEF TypeInv, TypeOK
<1>4. Unopened \subseteq {next[Active]} /\ Settled(Active)
  BY <1>1 DEF Kept, KeptChain
<1>5. \A i \in 1 .. Len(segs) : segs[i] < next[Active]
  BY <1>1, <1>2, <1>3, SegsType
<1>6. ASSUME next[Active] \notin files, NEW c \in files PROVE c < next[Active] /\ Settled(c)
  <2>1. c \in Opened
    BY <1>4, <1>6 DEF Unopened
  <2>2. PICK i \in 1 .. Len(segs) : c = segs[i]
    BY <2>1, SegsType DEF Opened
  <2>3. c < next[Active] /\ (c = Active \/ c < Active)
    BY <1>2, <1>5, <2>2, SegsType
  <2> QED
    BY <1>2, <1>4, <2>3 DEF Kept, KeptFiles
<1> QED
  BY <1>1, <1>2, <1>3, <1>4, <1>5, <1>6

\* Log.roll starts the new tail behind a settled one.
LEMMA KeptCreate ==
    ASSUME TypeInv, Kept, NEW t \in Threads, Create(t)
    PROVE  Kept' /\ Frozen
<1> DEFINE b == next[Active]
<1>1. /\ op[t].pc = "create" /\ NewSegment(b) /\ open' = [open EXCEPT ![b] = TRUE]
      /\ UNCHANGED <<recs, synced, linked, status, history>>
  BY DEF Create
<1>2. /\ status = "up" /\ lock = t /\ b \in Offsets /\ b \in Nat /\ Unopened \subseteq {b}
      /\ b \notin files => \A c \in files : c < b /\ Settled(c)
      /\ \A i \in 1 .. Len(segs) : segs[i] < b
  BY <1>1, RollRoom, Numbers
<1>3. op[t].val # NoValue => op[t].off = b
  BY <1>1 DEF Kept, KeptOps
<1> HIDE DEF b
<1>4. files' = files \cup {b} /\ segs' = Append(segs, b) /\ next' = [next EXCEPT ![b] = b]
  BY <1>1 DEF NewSegment
<1>5. KeptFiles' /\ Frozen /\ Written \subseteq Written' /\ WrittenSafe \subseteq WrittenSafe'
  BY <1>1, <1>2, <1>4, FileAdded
<1>6. Active' = b /\ segs' # <<>> /\ Opened' = Opened \cup {b} /\ open'[b] = TRUE /\ next'[b] = b
  BY <1>1, <1>2, <1>4, SegmentAdded DEF TypeInv, TypeOK
<1>7. Unopened' = {}
  BY <1>2, <1>4, <1>6 DEF Unopened
<1>8. KeptChain'
  <2>1. /\ \A i \in 1 .. Len(segs') : segs'[i] \in files' /\ next'[segs'[i]] >= segs'[i]
        /\ \A i, j \in 1 .. Len(segs') : i < j => segs'[i] < segs'[j]
        /\ \A c \in Offsets : size'[c] # 0 => next'[c] > c
    BY <1>1, <1>2, SegmentCounts
  <2> QED
    BY <1>1, <1>2, <1>6, <1>7, <2>1 DEF KeptChain
<1>9. KeptOps'
  <2>1. CASE Leave(t)
    BY <1>1, <2>1, KeptLeave DEF Kept
  <2>2. CASE op[t].val # NoValue /\ Goto(t, "write") /\ UNCHANGED lock
    <3>1. \A u \in Threads \ {t} : op'[u].pc = "idle"
      BY <1>1, <2>2, Alone DEF Goto, Kept, TypeInv, TypeOK
    <3>2. op'[t].pc = "write" /\ op'[t].off = op[t].off /\ op'[t].val = op[t].val
      BY <2>2 DEF Goto, TypeInv, TypeOK, OpType
    <3> QED
      BY <1>2, <1>3, <1>6, <2>2, <3>1, <3>2 DEF KeptOps
  <2> QED
    BY <2>1, <2>2 DEF Create
<1>10. KeptRecords'
  BY <1>1, <1>5 DEF Kept, KeptRecords, AckedOnDisk, PromisedSafe, history
<1> QED
  BY <1>5, <1>8, <1>9, <1>10 DEF Kept

\* Its file may be there although the roll failed; it is empty, and the tail
\* is closed, so that nothing is written before it any more.
LEMMA KeptCreateFails ==
    ASSUME TypeInv, Kept, NEW t \in Threads, CreateFails(t)
    PROVE  Kept' /\ Frozen
<1> DEFINE b == next[Active]
<1>1. /\ op[t].pc = "create" /\ Leave(t) /\ (files' = files \/ files' = files \cup {b})
      /\ UNCHANGED <<recs, synced, linked, status, chain, history>>
  BY DEF CreateFails
<1>2. /\ status = "up" /\ ~ open[Active] /\ b \in Offsets /\ Active \in Nat /\ b > Active
      /\ Unopened \subseteq {b}
      /\ b \notin files => \A c \in files : c < b /\ Settled(c)
      /\ \A i \in 1 .. Len(segs) : segs[i] < b
  BY <1>1, RollRoom
<1>3. KeptFiles' /\ Frozen /\ Written \subseteq Written' /\ WrittenSafe \subseteq WrittenSafe'
  BY <1>1, <1>2, FileAdded
<1>4. recs[b] = <<>>
  <2>1. b \in files => b \in Unopened
    <3> SUFFICES ASSUME b \in Opened PROVE FALSE
      BY DEF Unopened
    <3>1. PICK i \in 1 .. Len(segs) : b = segs[i]
      BY SegsType DEF Opened
    <3> QED
      BY <1>2, <3>1, SegsType
  <2> QED
    BY <1>2, <2>1 DEF Kept, KeptChain, KeptFiles
<1>5. Active' = Active /\ next' = next /\ Unopened' \subseteq {b} /\ segs' = segs /\ open' = open
      /\ size' = size
  <2>1. Opened' = Opened /\ Active' = Active
    BY <1>1 DEF Opened, Active, chain
  <2> QED
    BY <1>1, <1>2, <2>1 DEF Unopened, chain
<1>6. KeptChain'
  <2>1. \A c \in Unopened' : c = next'[Active] /\ c > Active /\ recs'[c] = <<>>
    BY <1>1, <1>2, <1>4, <1>5
  <2>2. files \subseteq files'
    BY <1>1
  <2> HIDE DEF b
  <2> QED
    BY <1>1, <1>2, <1>5, <2>1, <2>2 DEF Kept, KeptChain, Settled
<1>7. KeptOps'
  BY <1>1, KeptLeave DEF Kept
<1>8. KeptRecords'
  BY <1>1, <1>3 DEF Kept, KeptRecords, AckedOnDisk, PromisedSafe, history
<1> QED
  BY <1>3, <1>6, <1>7, <1>8 DEF Kept

\* Nobody appends to a log that is not open.
LEMMA KeptNotUp ==
    ASSUME TypeInv, status # "up", UNCHANGED op
    PROVE  KeptOps'
BY DEF TypeInv, Sane, KeptOps

\* Opening changes the history of nothing.
LEMMA KeptOpening ==
    ASSUME Kept, Written \subseteq Written', WrittenSafe \subseteq WrittenSafe', UNCHANGED history
    PROVE  KeptRecords'
BY DEF Kept, KeptRecords, AckedOnDisk, PromisedSafe, history

\* Opening starts with no segment.
LEMMA KeptStart == ASSUME TypeInv, Kept, Start PROVE Kept' /\ Frozen
<1>1. /\ status = "down" /\ status' = "opening"
      /\ UNCHANGED <<disk, chain, threads, history>>
  BY DEF Start
<1>2. segs = <<>> /\ Len(segs) = 0
  BY <1>1, EmptySeq DEF Kept, KeptChain
<1>3. KeptFiles' /\ Frozen
  BY <1>1 DEF Kept, KeptFiles, Settled, Frozen, disk
<1>4. KeptChain'
  BY <1>1, <1>2 DEF Kept, KeptChain, chain
<1>5. KeptOps'
  BY <1>1, KeptNotUp DEF threads
<1>6. KeptRecords'
  BY <1>1 DEF Kept, KeptRecords, AckedOnDisk, PromisedSafe, Written, WrittenSafe, InFile, Durable,
              disk, history
<1> QED
  BY <1>3, <1>4, <1>5, <1>6 DEF Kept

\* The segment that is opened next comes after those that are open, and before
\* the other files.
LEMMA KeptRecoverBegin == ASSUME TypeInv, Kept, RecoverBegin PROVE Kept' /\ Frozen
<1>1. PICK b \in (IF files = {} THEN {0} ELSE Unopened) :
          (\A c \in Unopened : b <= c) /\ NewSegment(b)
  BY DEF RecoverBegin
<1>2. /\ status = "opening" /\ status' = "scanning"
      /\ UNCHANGED <<recs, synced, linked, open, threads, history>>
  BY DEF RecoverBegin
<1>3. files \subseteq Offsets /\ b \in Offsets /\ b \in Nat /\ (files # {} => b \in Unopened)
      /\ \A c \in files : c \in Nat
  <2>1. 0 \in Offsets
    BY BoundsAssumption DEF Offsets
  <2> QED
    BY <1>1, <2>1, Numbers DEF Unopened
<1>4. files' = files \cup {b} /\ segs' = Append(segs, b) /\ (b \notin files => files = {})
  BY <1>1, <1>3 DEF NewSegment, Unopened
<1>5. \A i \in 1 .. Len(segs) : segs[i] < b
  BY <1>2, <1>3 DEF Kept, KeptChain
<1>6. KeptFiles' /\ Frozen /\ Written \subseteq Written' /\ WrittenSafe \subseteq WrittenSafe'
  BY <1>2, <1>3, <1>4, FileAdded
<1>7. /\ Len(segs') = Len(segs) + 1 /\ Active' = b /\ Opened' = Opened \cup {b}
      /\ \A i \in 1 .. Len(segs) : segs'[i] = segs[i]
  BY <1>3, <1>4, SegmentAdded
<1>8. /\ \A i \in 1 .. Len(segs') : segs'[i] \in files' /\ next'[segs'[i]] >= segs'[i]
      /\ \A i, j \in 1 .. Len(segs') : i < j => segs'[i] < segs'[j]
      /\ \A c \in Offsets : size'[c] # 0 => next'[c] > c
  BY <1>1, <1>3, <1>5, SegmentCounts
<1>9. ASSUME NEW c \in Unopened', NEW i \in 1 .. Len(segs') PROVE segs'[i] < c
  <2>1. c \in Unopened /\ c # b /\ c \in Nat
    BY <1>3, <1>4, <1>7 DEF Unopened
  <2>2. b < c
    BY <1>1, <1>3, <2>1
  <2>3. CASE i = Len(segs) + 1
    <3>1. segs'[i] = b
      BY <1>7, <2>3 DEF Active
    <3> QED
      BY <2>2, <3>1
  <2>4. CASE i \in 1 .. Len(segs)
    BY <1>2, <1>7, <2>1, <2>4 DEF Kept, KeptChain
  <2> QED
    BY <1>7, <2>3, <2>4, SegsType
<1>10. KeptChain'
  BY <1>2, <1>8, <1>9 DEF KeptChain
<1>11. KeptOps'
  BY <1>2, KeptNotUp DEF threads
<1> QED
  BY <1>2, <1>6, <1>10, <1>11, KeptOpening DEF Kept

\* The scan only counts; it takes nothing from the file.
LEMMA KeptRecoverRecord == ASSUME TypeInv, Kept, RecoverRecord PROVE Kept' /\ Frozen
<1> DEFINE rec == recs[Active][Scanned(Active) + 1]
<1>1. /\ status = "scanning" /\ UNCHANGED <<disk, segs, open, threads, history>>
      /\ \/ /\ rec.off = next[Active] /\ status' = status
            /\ Count(Active, rec.off, rec.pos, RecordEnd(rec))
         \/ status' = "refused" /\ UNCHANGED <<next, size>>
  BY DEF RecoverRecord
<1>2. Active \in Offsets /\ Active \in Nat /\ next[Active] >= Active /\ next[Active] \in Nat
  BY <1>1, TailLast, Numbers DEF Kept
<1>3. KeptFiles' /\ Frozen /\ Written' = Written /\ WrittenSafe' = WrittenSafe
  BY <1>1 DEF Kept, KeptFiles, Settled, Frozen, Written, WrittenSafe, InFile, Durable, disk
<1>4. \A c \in Offsets : \/ next'[c] = next[c] /\ size'[c] = size[c]
                         \/ c = Active /\ next'[c] = next[c] + 1
  <2>1. CASE UNCHANGED <<next, size>>
    BY <2>1
  <2>2. CASE Count(Active, rec.off, rec.pos, RecordEnd(rec)) /\ rec.off = next[Active]
    <3>1. /\ next' = [next EXCEPT ![Active] = next[Active] + 1]
          /\ size' = [size EXCEPT ![Active] = RecordEnd(rec)]
      BY <2>2 DEF Count
    <3> QED
      BY <3>1 DEF TypeInv, TypeOK
  <2> QED
    BY <1>1, <2>1, <2>2
<1> HIDE DEF rec
<1>5. /\ \A c \in Offsets : size'[c] # 0 => next'[c] > c
      /\ \A i \in 1 .. Len(segs) : next'[segs[i]] >= segs[i]
  <2>1. \A c \in Offsets : size'[c] # 0 => next'[c] > c
    BY <1>2, <1>4 DEF Kept, KeptChain
  <2>2. ASSUME NEW i \in 1 .. Len(segs) PROVE next'[segs[i]] >= segs[i]
    <3>1. segs[i] \in Offsets /\ segs[i] \in Nat /\ next[segs[i]] >= segs[i]
      BY SegsType DEF Kept, KeptChain
    <3>2. next'[segs[i]] = next[segs[i]] \/ next'[segs[i]] = next[segs[i]] + 1
      BY <1>4, <3>1
    <3> QED
      BY <3>1, <3>2, Numbers
  <2> QED
    BY <2>1, <2>2
<1>6. KeptChain'
  <2>1. Unopened' = Unopened /\ segs' = segs /\ files' = files
    BY <1>1 DEF Unopened, Opened, disk
  <2> QED
    BY <1>1, <1>5, <2>1 DEF Kept, KeptChain
<1>7. KeptOps'
  BY <1>1, KeptNotUp DEF threads
<1> QED
  BY <1>1, <1>3, <1>6, <1>7, KeptOpening DEF Kept

\* A scan that meets junk leaves the file as it is.
LEMMA KeptRecoverJunk == ASSUME TypeInv, Kept, RecoverJunk PROVE Kept' /\ Frozen
<1>1. /\ status = "scanning" /\ status' = "refused"
      /\ UNCHANGED <<disk, chain, threads, history>>
  BY DEF RecoverJunk
<1>2. KeptFiles' /\ Frozen /\ Written' = Written /\ WrittenSafe' = WrittenSafe
  BY <1>1 DEF Kept, KeptFiles, Settled, Frozen, Written, WrittenSafe, InFile, Durable, disk
<1>3. KeptChain'
  <2>1. Unopened' = Unopened /\ segs' = segs /\ files' = files /\ next' = next /\ size' = size
    BY <1>1 DEF Unopened, Opened, disk, chain
  <2> QED
    BY <1>1, <2>1 DEF Kept, KeptChain
<1>4. KeptOps'
  BY <1>1, KeptNotUp DEF threads
<1> QED
  BY <1>1, <1>2, <1>3, <1>4, KeptOpening DEF Kept

\* The end of the scan cuts off no whole record.
LEMMA KeptRecoverEnd == ASSUME TypeInv, Kept, RecoverEnd PROVE Kept' /\ Frozen
<1>1. /\ status = "scanning" /\ status' = "opening" /\ open' = [open EXCEPT ![Active] = TRUE]
      /\ UNCHANGED <<files, recs, synced, linked, segs, next, size, threads, history>>
  BY DEF RecoverEnd
<1>2. KeptFiles' /\ Frozen /\ Written' = Written /\ WrittenSafe' = WrittenSafe
  BY <1>1 DEF Kept, KeptFiles, Settled, Frozen, Written, WrittenSafe, InFile, Durable
<1>3. Active' = Active /\ Active \in Offsets /\ Unopened' = Unopened
  BY <1>1, TailLast DEF Kept, Active, Unopened, Opened
<1>4. open'[Active']
  BY <1>1, <1>3 DEF TypeInv, TypeOK
<1>5. KeptChain'
  BY <1>1, <1>3, <1>4 DEF Kept, KeptChain
<1>6. KeptOps'
  BY <1>1, KeptNotUp DEF threads
<1> QED
  BY <1>1, <1>2, <1>5, <1>6, KeptOpening DEF Kept

\* The log is up when every file is a segment; all but the tail are fsynced.
LEMMA KeptOpenEnd == ASSUME TypeInv, Kept, OpenEnd PROVE Kept' /\ Frozen
<1> DEFINE sealed == Opened \ {Active}
<1>1. /\ status = "opening" /\ segs # <<>> /\ Unopened = {}
      /\ UNCHANGED <<files, recs, segs, next, size, threads, history>>
      /\ \/ /\ synced' = [b \in Offsets |-> IF b \in sealed THEN Len(recs[b]) ELSE synced[b]]
            /\ linked' = linked \cup sealed
            /\ open' = [b \in Offsets |-> open[b] /\ b \notin sealed]
            /\ status' = "up"
         \/ status' = "refused" /\ UNCHANGED <<synced, linked, open>>
  BY DEF OpenEnd
<1>2. Active' = Active /\ Unopened' = Unopened /\ Active \in Offsets /\ open[Active]
  <2>1. Len(segs) \in 1 .. Len(segs)
    BY <1>1, SegsType, EmptySeq
  <2> QED
    BY <1>1, <2>1, SegsType DEF Kept, KeptChain, Active, Unopened, Opened
<1>3. sealed \subseteq files /\ files \subseteq Offsets /\ Active \notin sealed
  BY SegsType, Numbers DEF Kept, KeptChain, Opened
<1> HIDE DEF sealed
<1>4. \A b \in Offsets : \/ synced'[b] = synced[b] /\ (b \in linked' <=> b \in linked)
                         \/ synced'[b] = Len(recs[b]) /\ b \in linked' /\ b \in files
  BY <1>1, <1>3
<1>5. linked \subseteq linked' /\ recs' = recs /\ files' = files
  BY <1>1
<1>6. KeptFiles'
  <2>1. \A b \in Offsets : Len(recs[b]) \in Nat
    BY Numbers
  <2> QED
    BY <1>3, <1>4, <1>5, <2>1 DEF Kept, KeptFiles, Settled
<1>7. Written' = Written /\ WrittenSafe \subseteq WrittenSafe'
  <2>1. Grown /\ Written' = Written
    BY <1>5, Numbers DEF Grown, Written, InFile
  <2>2. \A b \in files \cap linked : synced'[b] \in Int /\ synced[b] <= synced'[b]
    BY <1>4, Numbers DEF Kept, KeptFiles
  <2> QED
    BY <1>5, <2>1, <2>2, SafeStays DEF Kept
<1>8. Frozen
  BY <1>5 DEF Frozen
<1>9. KeptChain'
  <2>1. CASE status' = "up"
    <3>1. open'[Active]
      BY <1>1, <1>2, <1>3, <2>1
    <3> QED
      BY <1>1, <1>2, <2>1, <3>1 DEF Kept, KeptChain
  <2>2. CASE status' = "refused"
    BY <1>1, <2>2 DEF Kept, KeptChain
  <2> QED
    BY <1>1, <2>1, <2>2
<1>10. KeptOps'
  BY <1>1, KeptNotUp DEF threads
<1> QED
  BY <1>1, <1>6, <1>7, <1>8, <1>9, <1>10, KeptOpening DEF Kept

-----------------------------------------------------------------------------
(* Crashes.                                                                *)

\* With the memory gone there is only the directory to answer for.
LEMMA KeptMemoryLost == ASSUME LoseMemory PROVE KeptChain' /\ KeptOps'
<1>1. segs' = <<>> /\ Len(segs') = 0 /\ status' = "down" /\ \A b \in Offsets : size'[b] = 0
  BY EmptySeq DEF LoseMemory
<1>2. \A t \in Threads : op'[t].pc = "idle"
  BY DEF LoseMemory, Idle
<1> QED
  BY <1>1, <1>2 DEF KeptChain, KeptOps

\* A process crash leaves the directory as it is.
LEMMA KeptProcessCrash == ASSUME TypeInv, Kept, ProcessCrash PROVE Kept' /\ Frozen
<1>1. LoseMemory /\ UNCHANGED <<disk, history>>
  BY DEF ProcessCrash
<1>2. KeptFiles' /\ Frozen
  BY <1>1 DEF Kept, KeptFiles, Settled, Frozen, disk
<1>3. KeptRecords'
  BY <1>1 DEF Kept, KeptRecords, AckedOnDisk, PromisedSafe, Written, WrittenSafe, InFile, Durable,
              disk, history
<1> QED
  BY <1>1, <1>2, <1>3, KeptMemoryLost DEF Kept

\* What a power loss leaves of a file: all that was fsynced and no more than
\* there was.  A file whose entry was not durable may be gone.
LEMMA Remains ==
    ASSUME TypeInv, KeptFiles, PowerLoss
    PROVE  /\ files' \subseteq files /\ files \cap linked \subseteq files'
           /\ UNCHANGED <<synced, linked>>
           /\ \A b \in files : /\ Len(recs'[b]) \in Nat
                               /\ synced[b] <= Len(recs'[b]) /\ Len(recs'[b]) <= Len(recs[b])
                               /\ \A i \in 1 .. Len(recs'[b]) : recs'[b][i] = recs[b][i]
                               /\ Settled(b) => recs'[b] = recs[b]
           /\ \A b \in Offsets \ files' : recs'[b] = <<>>
<1>1. PICK gone \in SUBSET (files \ linked), keep \in [files -> 0 .. MaxOffset] :
        /\ \A b \in files : IF b \in gone THEN keep[b] = 0
                                          ELSE keep[b] \in synced[b] .. Len(recs[b])
        /\ files' = files \ gone
        /\ recs' = [b \in Offsets |-> IF b \in files THEN SubSeq(recs[b], 1, keep[b]) ELSE <<>>]
  BY DEF PowerLoss
<1>2. UNCHANGED <<synced, linked>>
  BY DEF PowerLoss
<1>3. ASSUME NEW b \in files
      PROVE  /\ b \in Offsets /\ recs[b] \in Seq(RecordType) /\ Len(recs[b]) \in Nat
             /\ keep[b] \in Nat /\ keep[b] <= Len(recs[b]) /\ synced[b] <= keep[b]
             /\ recs'[b] = SubSeq(recs[b], 1, keep[b])
             /\ b \in gone => keep[b] = 0
  <2>1. b \in Offsets /\ recs[b] \in Seq(RecordType) /\ Len(recs[b]) \in Nat /\ synced[b] \in Nat
    BY Numbers
  <2>2. b \in gone => synced[b] = 0
    BY <2>1 DEF KeptFiles
  <2>3. keep[b] \in Nat
    BY BoundsAssumption
  <2> QED
    BY <1>1, <2>1, <2>2, <2>3
<1>4. ASSUME NEW b \in files
      PROVE  /\ Len(recs'[b]) = keep[b] /\ \A i \in 1 .. keep[b] : recs'[b][i] = recs[b][i]
             /\ recs'[b] \in Seq(RecordType)
  <2> DEFINE kept == SubSeq(recs[b], 1, keep[b])
  <2>1. \A i \in 1 .. keep[b] : recs[b][i] \in RecordType
    BY <1>3, ElementOfSeq
  <2>2. Len(kept) = keep[b] /\ \A i \in 1 .. keep[b] : kept[i] = recs[b][i]
    BY <1>3, <2>1, SubSeqProperties
  <2>3. kept \in Seq(RecordType)
    BY <1>3, <2>1, SubSeqProperties
  <2> QED
    BY <1>3, <2>2, <2>3
<1>5. ASSUME NEW b \in files, Settled(b) PROVE recs'[b] = recs[b]
  <2>1. keep[b] = Len(recs[b])
    BY <1>3, <1>5 DEF Settled
  <2> QED
    BY <1>3, <2>1, SubSeqFull
<1>6. ASSUME NEW b \in Offsets \ files' PROVE recs'[b] = <<>>
  <2>1. CASE b \in files
    <3>1. b \in gone
      BY <1>1, <1>6, <2>1
    <3>2. keep[b] = 0 /\ recs'[b] \in Seq(RecordType) /\ Len(recs'[b]) = keep[b]
      BY <1>3, <1>4, <2>1, <3>1
    <3> QED
      BY <3>2, EmptySeq
  <2>2. CASE b \notin files
    BY <1>1, <2>2
  <2> QED
    BY <2>1, <2>2
<1>7. \A b \in files : /\ Len(recs'[b]) \in Nat
                       /\ synced[b] <= Len(recs'[b]) /\ Len(recs'[b]) <= Len(recs[b])
                       /\ \A i \in 1 .. Len(recs'[b]) : recs'[b][i] = recs[b][i]
  BY <1>3, <1>4
<1> QED
  BY <1>1, <1>2, <1>5, <1>6, <1>7

\* A power loss takes nothing that was fsynced, and so nothing of a file with
\* a later one, and nothing that was vouched for.
LEMMA KeptPowerLoss == ASSUME TypeInv, Kept, PowerLoss PROVE Kept' /\ Frozen
<1>1. /\ files' \subseteq files /\ files \cap linked \subseteq files' /\ UNCHANGED <<synced, linked>>
      /\ \A b \in files : /\ Len(recs'[b]) \in Nat
                          /\ synced[b] <= Len(recs'[b]) /\ Len(recs'[b]) <= Len(recs[b])
                          /\ \A i \in 1 .. Len(recs'[b]) : recs'[b][i] = recs[b][i]
                          /\ Settled(b) => recs'[b] = recs[b]
      /\ \A b \in Offsets \ files' : recs'[b] = <<>>
  BY Remains DEF Kept
<1>2. LoseMemory /\ acked' = acked \cap Written' /\ promised' = promised
  BY DEF PowerLoss
<1>3. Frozen
  BY <1>1 DEF Frozen, Kept, KeptFiles, Settled
<1>4. KeptFiles'
  <2>1. \A b, c \in files' : b < c => Settled(b)'
    BY <1>1, <1>3 DEF Frozen, Kept, KeptFiles, Settled
  <2>2. ASSUME NEW b \in Offsets
        PROVE  /\ synced'[b] <= Len(recs'[b])
               /\ b \notin linked' => synced'[b] = 0
               /\ b \notin files' => recs'[b] = <<>> /\ b \notin linked'
    <3>1. CASE b \in files
      BY <1>1, <3>1 DEF Kept, KeptFiles
    <3>2. CASE b \notin files
      <4>1. recs'[b] = <<>> /\ recs[b] = <<>> /\ b \notin linked
        BY <1>1, <3>2 DEF Kept, KeptFiles
      <4> QED
        BY <1>1, <4>1 DEF Kept, KeptFiles
    <3> QED
      BY <3>1, <3>2
  <2> QED
    BY <2>1, <2>2 DEF KeptFiles
<1>5. WrittenSafe \subseteq WrittenSafe'
  <2> SUFFICES ASSUME NEW b \in files \cap linked PROVE b \in files' /\ Durable(b) \subseteq Durable(b)'
    BY <1>1 DEF WrittenSafe
  <2> SUFFICES ASSUME NEW i \in 1 .. synced[b] PROVE recs'[b][i] = recs[b][i]
    BY <1>1 DEF Durable
  <2>1. synced[b] \in Nat
    BY Numbers
  <2> QED
    BY <1>1, <2>1
<1>6. KeptRecords'
  BY <1>2, <1>5 DEF Kept, KeptRecords, AckedOnDisk, PromisedSafe
<1> QED
  BY <1>2, <1>3, <1>4, <1>6, KeptMemoryLost DEF Kept

-----------------------------------------------------------------------------
(* The invariant, and what follows from it.                                *)

\* Nothing has been promised of an empty directory.
LEMMA KeptInit == Init => Kept
<1> SUFFICES ASSUME Init PROVE Kept
  OBVIOUS
<1>1. Len(segs) = 0 /\ segs = <<>> /\ status = "down" /\ files = {} /\ linked = {}
      /\ acked = {} /\ promised = {}
  BY EmptySeq DEF Init
<1>2. KeptFiles
  <2>1. \A b \in Offsets : Len(recs[b]) = 0 /\ recs[b] = <<>> /\ synced[b] = 0
    BY EmptySeq DEF Init
  <2> QED
    BY <1>1, <2>1 DEF KeptFiles
<1>3. KeptChain
  BY <1>1 DEF Init, KeptChain
<1>4. KeptOps
  BY DEF Init, KeptOps, Idle
<1>5. KeptRecords
  BY <1>1 DEF KeptRecords, AckedOnDisk, PromisedSafe
<1> QED
  BY <1>2, <1>3, <1>4, <1>5 DEF Kept

\* Every action keeps what was promised, and every sealed file.
LEMMA KeptNext == TypeInv /\ Kept /\ [Next]_vars => Kept' /\ Frozen
<1> SUFFICES ASSUME TypeInv, Kept, [Next]_vars PROVE Kept' /\ Frozen
  OBVIOUS
<1>1. CASE Recover
  BY <1>1, KeptStart, KeptRecoverBegin, KeptRecoverRecord, KeptRecoverEnd, KeptRecoverJunk,
     KeptOpenEnd DEF Recover
<1>2. ASSUME NEW t \in Threads,
             RollBegin(t) \/ (\E v \in Values : AppendBegin(t, v)) \/ Proceed(t) \/ Fail(t)
      PROVE  Kept' /\ Frozen
  <2>1. CASE RollBegin(t) \/ \E v \in Values : AppendBegin(t, v)
    BY <2>1, KeptRollBegin, KeptAppendBegin
  <2>2. CASE Proceed(t)
    BY <2>2, KeptSeal, KeptCreate, KeptWriteBegin, KeptRefused, KeptFlush, KeptAppendReturns
       DEF Proceed
  <2>3. CASE Fail(t)
    BY <2>3, KeptFlushPartly, KeptFlushFails, KeptCreateFails DEF Fail
  <2> QED
    BY <1>2, <2>1, <2>2, <2>3
<1>3. CASE Sync \/ Close
  BY <1>3, KeptSync
<1>4. ASSUME NEW r \in Readers, ReadStep(r) \/ \E o \in Offsets : ReadBegin(r, o)
      PROVE  Kept' /\ Frozen
  <2>1. UNCHANGED <<disk, status, chain, threads, history>>
    BY <1>4 DEF ReadStep, ReadBegin, ReadOpen, ReadRecord, ReadEof
  <2> QED
    BY <2>1, KeptRead
<1>5. CASE ProcessCrash \/ PowerLoss
  BY <1>5, KeptProcessCrash, KeptPowerLoss
<1>6. CASE UNCHANGED vars
  BY <1>6, KeptRead DEF vars
<1> QED
  BY <1>1, <1>2, <1>3, <1>4, <1>5, <1>6 DEF Next

\* Kept holds throughout.
LEMMA KeptInvariant == Spec => [](TypeInv /\ Kept)
BY TypeInit, TypeNext, KeptInit, KeptNext, PTL DEF Spec

\* A record whose append has returned is in the files until a power loss takes
\* it, also when writes fail, rolls fail halfway and the log is opened again
\* (Log.append, Segment._recover).
THEOREM AckedKept == Spec => []AckedOnDisk
<1>1. Kept => AckedOnDisk
  BY DEF Kept, KeptRecords
<1> QED
  BY <1>1, KeptInvariant, PTL

\* What Log.sync or Log.close vouched for is where no power loss can take it,
\* though Log.sync fsyncs only the tail: the files before it were fsynced when
\* they were sealed, by roll or by the opening.
THEOREM PromisedKept == Spec => []PromisedSafe
<1>1. Kept => PromisedSafe
  BY DEF Kept, KeptRecords
<1> QED
  BY <1>1, KeptInvariant, PTL

\* No step changes a file that has a later one, not even a power loss (Log.roll
\* seals before it starts the next file): readers may read it without the lock.
THEOREM SealedNeverChange == Spec => SealedFrozen
<1>1. TypeInv /\ Kept /\ [Next]_vars
        => [\A b, c \in files : b < c => b \in files' /\ recs'[b] = recs[b]]_vars
  BY KeptNext DEF Frozen
<1> QED
  BY <1>1, KeptInvariant, PTL DEF Spec, SealedFrozen

-----------------------------------------------------------------------------
(* The log as one run of records: until a write fails, a Log implements    *)
(* DurableLog.                                                             *)

\* A set of numbers that is not empty has a least member.
LEMMA LeastNumber ==
    ASSUME NEW T \in SUBSET Nat, T # {}
    PROVE  \E m \in T : \A k \in T : m <= k
<1>1. PICK m \in T : \A k \in T : <<k, m>> \notin OpToRel(<, Nat)
  BY WFMin, NatLessThanWellFounded, Zenon
<1>2. \A k \in T : ~ (k < m)
  BY <1>1, Zenon DEF OpToRel
<1> QED
  BY <1>2

\* The records of a file are those of the offsets from its base on.
LEMMA FileRun ==
    ASSUME TypeInv, OnDisk, NEW b \in files
    PROVE  /\ DL!OffsetsOf(InFile(b)) = b .. b + Len(recs[b]) - 1
           /\ \A x \in InFile(b) : /\ x.off \in Nat /\ x.off < MaxOffset
                                   /\ b <= x.off /\ x.off < b + Len(recs[b])
           /\ \A x \in InFile(b) : x = [off |-> recs[b][x.off - b + 1].off,
                                        val |-> recs[b][x.off - b + 1].val]
<1>1. b \in Nat /\ recs[b] \in Seq(RecordType) /\ Len(recs[b]) \in Nat
  BY Numbers
<1>2. ASSUME NEW i \in 1 .. Len(recs[b])
      PROVE  /\ recs[b][i].off = b + i - 1
             /\ recs[b][i].off \in 0 .. MaxOffset - 1
             /\ recs[b][i].off - b + 1 = i
  <2>1. recs[b][i].off = b + i - 1
    BY DEF OnDisk, SequentialFiles
  <2>2. recs[b][i] \in RecordType
    BY <1>1, ElementOfSeq
  <2> QED
    BY <1>1, <2>1, <2>2 DEF RecordType
<1>3. \A x \in InFile(b) : /\ x.off \in Nat /\ x.off < MaxOffset
                           /\ b <= x.off /\ x.off < b + Len(recs[b])
                           /\ x = [off |-> recs[b][x.off - b + 1].off,
                                   val |-> recs[b][x.off - b + 1].val]
  <2> TAKE x \in InFile(b)
  <2>1. PICK i \in 1 .. Len(recs[b]) : x = [off |-> recs[b][i].off, val |-> recs[b][i].val]
    BY DEF InFile
  <2>2. x.off = recs[b][i].off
    BY <2>1
  <2> QED
    BY <1>1, <1>2, <2>1, <2>2, BoundsAssumption, SMTT(30)
<1>4. ASSUME NEW o \in b .. b + Len(recs[b]) - 1 PROVE o \in DL!OffsetsOf(InFile(b))
  <2>1. o - b + 1 \in 1 .. Len(recs[b]) /\ b + (o - b + 1) - 1 = o
    BY <1>1
  <2>2. recs[b][o - b + 1].off = o
    BY <1>2, <2>1
  <2>3. [off |-> o, val |-> recs[b][o - b + 1].val] \in InFile(b)
    BY <2>1, <2>2 DEF InFile
  <2> QED
    BY <2>3 DEF DL!OffsetsOf
<1>5. DL!OffsetsOf(InFile(b)) \subseteq b .. b + Len(recs[b]) - 1
  BY <1>1, <1>3 DEF DL!OffsetsOf
<1> QED
  BY <1>3, <1>4, <1>5

\* The file that holds an offset: the chain leaves none out before its end.
LEMMA HeldBy ==
    ASSUME TypeInv, OnDisk, NEW last \in files, \A b \in files : b <= last,
           NEW o \in 0 .. last + Len(recs[last]) - 1
    PROVE  \E b \in files : b <= o /\ o < b + Len(recs[b])
<1> DEFINE T == {c \in files : o < c}
<1>1. files \subseteq Nat /\ last \in Nat /\ Len(recs[last]) \in Nat /\ o \in Nat
  BY Numbers
<1>2. CASE T = {}
  BY <1>1, <1>2
<1>3. CASE T # {}
  <2>1. PICK c \in T : \A d \in T : c <= d
    BY <1>1, <1>3, LeastNumber
  <2>2. PICK b \in files : b < c /\ b + Len(recs[b]) = c
    BY <1>1, <2>1 DEF OnDisk, ChainedFiles
  <2> QED
    BY <1>1, <2>1, <2>2
<1> QED
  BY <1>2, <1>3

\* So all the records are one run from 0 to the end of the last file.
LEMMA OneRun ==
    ASSUME TypeInv, OnDisk, NEW last \in files, \A b \in files : b <= last
    PROVE  /\ DL!OffsetsOf(Written) = 0 .. last + Len(recs[last]) - 1
           /\ \A x \in Written : x.off < last + Len(recs[last])
<1>1. files \subseteq Nat /\ last \in Nat /\ Len(recs[last]) \in Nat
  BY Numbers
<1>2. ASSUME NEW x \in Written PROVE x.off \in 0 .. last + Len(recs[last]) - 1
  <2>1. PICK b \in files : x \in InFile(b)
    BY DEF Written
  <2>2. x.off \in Nat /\ x.off < b + Len(recs[b]) /\ Len(recs[b]) \in Nat /\ b \in Nat
    BY <1>1, <2>1, FileRun, Numbers
  <2>3. b = last \/ b + Len(recs[b]) <= last
    BY <1>1 DEF OnDisk, ChainedFiles
  <2> QED
    BY <1>1, <2>2, <2>3
<1>3. ASSUME NEW o \in 0 .. last + Len(recs[last]) - 1 PROVE o \in DL!OffsetsOf(Written)
  <2>1. PICK b \in files : b <= o /\ o < b + Len(recs[b])
    BY HeldBy
  <2>2. o \in b .. b + Len(recs[b]) - 1
    BY <1>1, <2>1, Numbers
  <2>3. o \in DL!OffsetsOf(InFile(b))
    BY <2>2, FileRun
  <2> QED
    BY <2>3 DEF DL!OffsetsOf, Written
<1> QED
  BY <1>1, <1>2, <1>3 DEF DL!OffsetsOf

\* A flush is a Write: the record goes to the offset after the last.
LEMMA FlushWrites ==
    ASSUME TypeInv, Consistent, NEW t \in Threads, Flush(t)
    PROVE  DL!Write
<1> DEFINE old == recs[Active]
           rec == LandAt(old, op[t].off, op[t].val)
           x == [off |-> op[t].off, val |-> op[t].val]
<1>1. /\ op[t].pc = "flush" /\ UNCHANGED <<files, acked, promised>>
      /\ recs' = [recs EXCEPT ![Active] =
                     Append(Flushed(Active), LandAt(Flushed(Active), op[t].off, op[t].val))]
  BY DEF Flush, history
<1>2. /\ status = "up" /\ Active \in files /\ Active \in Offsets /\ Active \in Nat
      /\ old \in Seq(RecordType) /\ Len(old) \in Nat /\ \A b \in files : b <= Active
      /\ \A u \in Threads \ {t} : op[u].pc = "idle"
  BY <1>1, LockHeld, ActiveLast DEF Consistent
<1>3. op[t].off \in 0 .. MaxOffset - 1 /\ op[t].val \in Values /\ op[t].off \in Nat
      /\ op[t].val # NoValue
  BY <1>1, TypeRecord, NoValueAssumption
<1>4. Flushed(Active) = old
  BY <1>2, ConcatEmptySeq DEF Flushed, Consistent, OnDisk
<1>5. recs' = [recs EXCEPT ![Active] = Append(old, rec)]
  BY <1>1, <1>4
<1>6. op[t].off = Active + Len(old)
  <2>1. op[t].off = next[Active]
    BY <1>1, <1>3 DEF Consistent, InThreads
  <2>2. Counted(Active)
    BY <1>1, <1>2 DEF Consistent, InThreads
  <2> QED
    BY <2>1, <2>2 DEF Counted
<1>7. DL!OffsetsOf(Written) = 0 .. op[t].off - 1
  BY <1>2, <1>6, OneRun DEF Consistent
<1>8. InFile(Active)' = InFile(Active) \cup {x}
  <2>1. Active' = Active
    BY DEF Flush, Active
  <2>2. rec \in RecordType /\ rec.off = op[t].off /\ rec.val = op[t].val
    BY <1>1, <1>2, <1>4, TypeRecord, TypeFlushed DEF LandAt
  <2> HIDE DEF rec
  <2>3. /\ recs'[Active] = Append(old, rec)
        /\ Len(Append(old, rec)) = Len(old) + 1 /\ Append(old, rec)[Len(old) + 1] = rec
        /\ \A i \in 1 .. Len(old) : Append(old, rec)[i] = old[i]
    BY <1>2, <1>5, <2>2, AppendProperties DEF TypeInv, TypeOK
  <2> DEFINE new == recs'[Active]
  <2>4. /\ Len(new) = Len(old) + 1 /\ new[Len(old) + 1] = rec
        /\ \A i \in 1 .. Len(old) : new[i] = old[i]
    BY <2>3
  <2>5. InFile(Active)' = {[off |-> new[i].off, val |-> new[i].val] : i \in 1 .. Len(new)}
    BY <2>1 DEF InFile
  <2> HIDE DEF new
  <2>6. ASSUME NEW i \in 1 .. Len(new)
        PROVE  [off |-> new[i].off, val |-> new[i].val] \in InFile(Active) \cup {x}
    <3>1. i \in 1 .. Len(old) \/ i = Len(old) + 1
      BY <1>2, <2>4
    <3> QED
      BY <2>2, <2>4, <3>1 DEF InFile
  <2>7. InFile(Active) \subseteq InFile(Active)'
    <3> SUFFICES ASSUME NEW i \in 1 .. Len(old)
                 PROVE  [off |-> old[i].off, val |-> old[i].val] \in InFile(Active)'
      BY DEF InFile
    <3>1. i \in 1 .. Len(new)
      BY <1>2, <2>4
    <3> QED
      BY <2>4, <2>5, <3>1
  <2>8. x \in InFile(Active)'
    <3>1. Len(old) + 1 \in 1 .. Len(new)
      BY <1>2, <2>4
    <3> QED
      BY <2>2, <2>4, <2>5, <3>1
  <2> QED
    BY <2>5, <2>6, <2>7, <2>8
<1>9. \A b \in files \ {Active} : InFile(b)' = InFile(b)
  BY <1>2, <1>5, Numbers DEF InFile, TypeInv, TypeOK
<1>10. Written' = Written \cup {x}
  <2>1. Active' = Active
    BY DEF Flush, Active
  <2> HIDE DEF x
  <2>2. ASSUME NEW b \in files
        PROVE  InFile(b)' = IF b = Active THEN InFile(b) \cup {x} ELSE InFile(b)
    <3>1. CASE b = Active
      <4>1. InFile(b)' = InFile(Active)' /\ InFile(b) = InFile(Active)
        BY <2>1, <3>1 DEF InFile
      <4> QED
        BY <1>8, <3>1, <4>1
    <3>2. CASE b # Active
      BY <1>9, <3>2
    <3> QED
      BY <3>1, <3>2
  <2>3. files' = files
    BY <1>1
  <2> QED
    BY <1>2, <2>2, <2>3 DEF Written
<1> QED
  BY <1>1, <1>3, <1>7, <1>10 DEF DL!Write

\* An append that returns is an Ack, of the newest record.
LEMMA AppendAcks ==
    ASSUME TypeInv, Consistent, Kept, NEW t \in Threads, AppendReturns(t)
    PROVE  DL!Ack \/ UNCHANGED DL!vars
<1> DEFINE x == [off |-> op[t].off, val |-> op[t].val]
<1>1. /\ op[t].pc = "account" /\ UNCHANGED <<disk, promised>> /\ acked' = acked \cup {x}
  BY DEF AppendReturns
<1>2. Written' = Written
  BY <1>1 DEF Written, InFile, disk
<1>3. /\ status = "up" /\ Active \in files /\ Active \in Nat /\ \A b \in files : b <= Active
      /\ Len(recs[Active]) \in Nat
  BY <1>1, LockHeld, ActiveLast DEF Consistent
<1>4. x \in Written
  <2>1. x \in InFile(Active)
    BY <1>1 DEF Kept, KeptOps
  <2> QED
    BY <1>3, <2>1 DEF Written
<1>5. \A y \in Written : y.off <= x.off
  <2>1. op[t].val # NoValue
    BY <1>1, TypeRecord, NoValueAssumption
  <2>2. op[t].off = next[Active] /\ Len(recs[Active]) = next[Active] - Active + 1
    BY <1>1, <2>1 DEF Consistent, InThreads
  <2>3. Active + Len(recs[Active]) = op[t].off + 1 /\ op[t].off \in Nat
    <3>1. next[Active] \in Nat
      BY <1>3, Numbers
    <3> QED
      BY <1>3, <2>2, <3>1
  <2>4. \A y \in Written : y.off < op[t].off + 1
    BY <1>3, <2>3, OneRun DEF Consistent
  <2>5. \A y \in Written : y.off \in Nat
    BY FileRun DEF Written, Consistent
  <2> QED
    BY <2>3, <2>4, <2>5
<1> HIDE DEF x
<1>6. CASE x \in acked
  BY <1>1, <1>2, <1>6 DEF DL!vars
<1>7. CASE x \notin acked
  BY <1>1, <1>2, <1>4, <1>5, <1>7 DEF DL!Ack
<1> QED
  BY <1>6, <1>7

\* A sync and a close are a Promise.
LEMMA SyncPromises ==
    ASSUME TypeInv, Consistent, Sync \/ Close
    PROVE  DL!Promise
<1>1. /\ status = "up" /\ FsyncTail /\ promised' = acked /\ acked' = acked
      /\ UNCHANGED <<files, segs, status>>
  BY DEF Sync, Close
<1>2. recs' = recs
  BY <1>1, SafeFsync
<1> QED
  BY <1>1, <1>2 DEF DL!Promise, Written, InFile

\* A power loss is a Lose: what goes is the end of the last file, and nothing
\* that was vouched for.
LEMMA PowerLoses ==
    ASSUME TypeInv, Consistent, Kept, PowerLoss, Kept', Frozen
    PROVE  DL!Lose
<1>1. /\ files' \subseteq files
      /\ \A b \in files : /\ Len(recs'[b]) \in Nat /\ Len(recs'[b]) <= Len(recs[b])
                          /\ \A i \in 1 .. Len(recs'[b]) : recs'[b][i] = recs[b][i]
      /\ \A b \in Offsets \ files' : recs'[b] = <<>>
  BY Remains DEF Kept
<1>2. files \subseteq Nat /\ \A b \in files : Len(recs[b]) \in Nat /\ b \in Offsets
  BY Numbers
<1>3. acked' = acked \cap Written' /\ promised' = promised
  BY DEF PowerLoss
<1>4. promised \subseteq Written'
  <2>1. \A b \in files' : Durable(b)' \subseteq InFile(b)'
    <3> TAKE b \in files'
    <3>1. b \in files /\ b \in Offsets
      BY <1>1, <1>2
    <3>2. synced'[b] <= Len(recs'[b]) /\ synced'[b] \in Nat /\ Len(recs'[b]) \in Nat
      BY <1>1, <3>1, Numbers DEF Kept, KeptFiles, PowerLoss
    <3> QED
      BY <3>2 DEF Durable, InFile
  <2>2. WrittenSafe' \subseteq Written'
    BY <2>1 DEF WrittenSafe, Written
  <2> QED
    BY <1>3, <2>2 DEF Kept, KeptRecords, PromisedSafe
<1>5. ASSUME NEW b \in files
      PROVE  InFile(b)' = {x \in InFile(b) : x.off < b + Len(recs'[b])}
  <2>1. b \in Nat /\ Len(recs[b]) \in Nat /\ Len(recs'[b]) \in Nat
    BY <1>1, <1>2
  <2>2. \A i \in 1 .. Len(recs[b]) : recs[b][i].off = b + i - 1
    BY DEF Consistent, OnDisk, SequentialFiles
  <2>3. ASSUME NEW i \in 1 .. Len(recs'[b])
        PROVE  /\ i \in 1 .. Len(recs[b]) /\ recs'[b][i] = recs[b][i]
               /\ recs[b][i].off < b + Len(recs'[b])
    BY <1>1, <2>1, <2>2
  <2>4. ASSUME NEW i \in 1 .. Len(recs[b]), recs[b][i].off < b + Len(recs'[b])
        PROVE  i \in 1 .. Len(recs'[b])
    BY <2>1, <2>2, <2>4
  <2>5. InFile(b)' \subseteq {x \in InFile(b) : x.off < b + Len(recs'[b])}
    BY <2>3 DEF InFile
  <2>6. {x \in InFile(b) : x.off < b + Len(recs'[b])} \subseteq InFile(b)'
    <3> SUFFICES ASSUME NEW x \in InFile(b), x.off < b + Len(recs'[b]) PROVE x \in InFile(b)'
      OBVIOUS
    <3>1. PICK i \in 1 .. Len(recs[b]) : x = [off |-> recs[b][i].off, val |-> recs[b][i].val]
      BY DEF InFile
    <3>2. i \in 1 .. Len(recs'[b])
      BY <2>4, <3>1
    <3>3. recs'[b][i] = recs[b][i]
      BY <2>3, <3>2
    <3> QED
      BY <3>1, <3>2, <3>3 DEF InFile
  <2> QED
    BY <2>5, <2>6
<1>6. Written' = UNION {InFile(b)' : b \in files}
  <2>1. \A b \in files \ files' : InFile(b)' = {}
    <3> TAKE b \in files \ files'
    <3>1. recs'[b] = <<>> /\ Len(recs'[b]) = 0
      BY <1>1, <1>2, EmptySeq
    <3> QED
      BY <3>1 DEF InFile
  <2> QED
    BY <1>1, <2>1 DEF Written
<1>7. \E n \in 0 .. MaxOffset : Written' = {x \in Written : x.off < n}
  <2>1. CASE \A b \in files : InFile(b)' = InFile(b)
    <3>1. Written' = Written
      BY <1>6, <2>1 DEF Written
    <3>2. \A x \in Written : x.off < MaxOffset
      BY FileRun DEF Written, Consistent
    <3>3. Written' = {x \in Written : x.off < MaxOffset}
      BY <3>1, <3>2
    <3>4. MaxOffset \in 0 .. MaxOffset
      BY BoundsAssumption
    <3> QED
      BY <3>3, <3>4
  <2>2. ASSUME NEW b \in files, InFile(b)' # InFile(b)
        PROVE  \E n \in 0 .. MaxOffset : Written' = {x \in Written : x.off < n}
    <3> DEFINE n == b + Len(recs'[b])
    <3>1. \A c \in files : c = b \/ c < b
      <4> SUFFICES ASSUME NEW c \in files, b < c PROVE FALSE
        BY <1>2
      <4>1. recs'[b] = recs[b]
        BY DEF Frozen
      <4> QED
        BY <2>2, <4>1 DEF InFile
    <3>2. n \in 0 .. MaxOffset
      <4>1. b \in 0 .. MaxOffset /\ Len(recs'[b]) \in Nat
        BY <1>1, <1>2 DEF Offsets
      <4>2. CASE Len(recs'[b]) = 0
        BY <4>1, <4>2
      <4>3. CASE Len(recs'[b]) # 0
        <5>1. Len(recs'[b]) \in 1 .. Len(recs[b])
          BY <1>1, <1>2, <4>3
        <5>2. recs[b][Len(recs'[b])].off = b + Len(recs'[b]) - 1
          BY <5>1 DEF Consistent, OnDisk, SequentialFiles
        <5>3. recs[b][Len(recs'[b])] \in RecordType
          BY <1>2, <5>1, Numbers, ElementOfSeq
        <5>4. recs[b][Len(recs'[b])].off \in 0 .. MaxOffset - 1
          BY <5>3 DEF RecordType
        <5> QED
          BY <4>1, <5>2, <5>4, BoundsAssumption
      <4> QED
        BY <4>2, <4>3
    <3>3. ASSUME NEW c \in files PROVE InFile(c)' = {x \in InFile(c) : x.off < n}
      <4>1. CASE c = b
        BY <1>5, <4>1
      <4>2. CASE c < b
        <5>1. recs'[c] = recs[c]
          BY <4>2 DEF Frozen
        <5>2. c + Len(recs[c]) <= b
          BY <4>2 DEF Consistent, OnDisk, ChainedFiles
        <5>3. \A x \in InFile(c) : x.off < n
          <6> TAKE x \in InFile(c)
          <6>1. x.off \in Nat /\ x.off < c + Len(recs[c])
            BY FileRun DEF Consistent
          <6> QED
            BY <1>1, <1>2, <5>2, <6>1
        <5> QED
          BY <5>1, <5>3 DEF InFile
      <4> QED
        BY <3>1, <4>1, <4>2
    <3> HIDE DEF n
    <3>4. Written' = {x \in Written : x.off < n}
      BY <1>6, <3>3 DEF Written
    <3> QED
      BY <3>2, <3>4
  <2> QED
    BY <2>1, <2>2
<1> QED
  BY <1>3, <1>4, <1>7 DEF DL!Lose

\* The steps that write no record, acknowledge and vouch for none.
LEMMA RecordsSame ==
    ASSUME UNCHANGED history,
           \/ UNCHANGED <<files, recs>>
           \/ \E b : files' = files \cup {b} /\ UNCHANGED recs /\ (b \notin files => recs[b] = <<>>)
    PROVE  UNCHANGED DL!vars
<1>1. CASE UNCHANGED <<files, recs>>
  BY <1>1 DEF DL!vars, Written, InFile, history
<1>2. ASSUME NEW b, files' = files \cup {b}, UNCHANGED recs, b \notin files => recs[b] = <<>>
      PROVE  Written' = Written
  <2>1. \A c : InFile(c)' = InFile(c)
    BY <1>2 DEF InFile
  <2>2. b \notin files => InFile(b) = {}
    BY <1>2, EmptySeq DEF InFile
  <2>3. Written' = UNION {InFile(c) : c \in files \cup {b}}
    BY <1>2, <2>1 DEF Written
  <2> QED
    BY <2>2, <2>3 DEF Written
<1> QED
  BY <1>1, <1>2 DEF DL!vars, history

\* Every step that fails no write is a step of DurableLog, or changes nothing
\* that DurableLog sees.
LEMMA StepImplements ==
    ASSUME TypeInv, Kept, Safe, [Next]_vars, Kept', Frozen, faults = 0, faults' = 0
    PROVE  [DL!Next]_DL!vars
<1>1. Consistent
  BY DEF Safe, Consistent
<1>2. \A t \in Threads : ~ FlushFails(t) /\ ~ CreateFails(t)
  BY DEF FlushFails, CreateFails
<1>3. CASE Recover
  <2>1. UNCHANGED history
    BY <1>3 DEF Recover, Start, RecoverBegin, RecoverRecord, RecoverEnd, RecoverJunk, OpenEnd
  <2>2. CASE RecoverBegin
    <3>1. PICK b \in (IF files = {} THEN {0} ELSE Unopened) : NewSegment(b)
      BY <2>2 DEF RecoverBegin
    <3>2. files' = files \cup {b} /\ UNCHANGED recs
      BY <2>2, <3>1 DEF NewSegment, RecoverBegin
    <3>3. b \notin files => recs[b] = <<>>
      <4>1. 0 \in Offsets
        BY BoundsAssumption DEF Offsets
      <4> QED
        BY <1>1, <3>1, <4>1 DEF Consistent, OnDisk, Unopened
    <3> QED
      BY <2>1, <3>2, <3>3, RecordsSame
  <2>3. CASE ~ RecoverBegin
    <3>1. UNCHANGED <<files, recs>>
      BY <1>3, <2>3 DEF Recover, Start, RecoverRecord, RecoverEnd, RecoverJunk, OpenEnd, disk
    <3> QED
      BY <2>1, <3>1, RecordsSame
  <2> QED
    BY <2>2, <2>3
<1>4. ASSUME NEW t \in Threads,
             RollBegin(t) \/ (\E v \in Values : AppendBegin(t, v)) \/ Proceed(t) \/ Fail(t)
      PROVE  [DL!Next]_DL!vars
  <2>1. CASE \/ RollBegin(t) \/ WriteBegin(t) \/ WriteRejected(t) \/ AppendMismatch(t)
             \/ FlushPartly(t) \/ \E v \in Values : AppendBegin(t, v)
    <3>1. UNCHANGED <<files, recs, history>>
      BY <2>1 DEF RollBegin, AppendBegin, WriteBegin, WriteRejected, AppendMismatch, FlushPartly,
                  disk
    <3> QED
      BY <3>1, RecordsSame
  <2>2. CASE Seal(t)
    <3>1. UNCHANGED <<files, segs, status, history>> /\ op[t].pc = "seal"
      BY <2>2 DEF Seal
    <3>2. recs' = recs
      <4>1. status = "up"
        BY <1>1, <3>1, LockHeld DEF Consistent
      <4>2. CASE FsyncTail
        BY <1>1, <3>1, <4>1, <4>2, SafeFsync
      <4>3. CASE ~ FsyncTail
        BY <2>2, <4>3 DEF Seal
      <4> QED
        BY <4>2, <4>3
    <3> QED
      BY <3>1, <3>2, RecordsSame
  <2>3. CASE Create(t)
    <3>1. files' = files \cup {next[Active]} /\ UNCHANGED <<recs, history>> /\ op[t].pc = "create"
      BY <2>3 DEF Create, NewSegment
    <3>2. next[Active] \in Offsets
      BY <3>1, RollRoom
    <3> QED
      BY <1>1, <3>1, <3>2, RecordsSame DEF Consistent, OnDisk
  <2>4. CASE Flush(t)
    BY <1>1, <2>4, FlushWrites DEF DL!Next
  <2>5. CASE AppendReturns(t)
    BY <1>1, <2>5, AppendAcks DEF DL!Next
  <2> QED
    BY <1>1, <1>2, <1>4, <2>1, <2>2, <2>3, <2>4, <2>5, NoneStray DEF Proceed, Fail
<1>5. CASE Sync \/ Close
  BY <1>1, <1>5, SyncPromises DEF DL!Next
<1>6. CASE \E r \in Readers : ReadStep(r) \/ \E o \in Offsets : ReadBegin(r, o)
  <2>1. UNCHANGED <<disk, history>>
    BY <1>6 DEF ReadStep, ReadBegin, ReadOpen, ReadRecord, ReadEof
  <2> QED
    BY <2>1, RecordsSame DEF disk
<1>7. CASE ProcessCrash
  BY <1>7, RecordsSame DEF ProcessCrash, disk
<1>8. CASE PowerLoss
  BY <1>1, <1>8, PowerLoses DEF DL!Next
<1>9. CASE UNCHANGED vars
  BY <1>9, RecordsSame DEF vars, disk
<1> QED
  BY <1>3, <1>4, <1>5, <1>6, <1>7, <1>8, <1>9 DEF Next

\* All the machinery of segments, rolls, recovery and locks amounts to one
\* durable run of records, as long as no write and no file creation fails.
THEOREM LogImplements == Spec /\ [](faults = 0) => ImplementsDurableLog
<1>1. Init => DL!Init
  <2>1. Init => Written = {}
    BY DEF Init, Written
  <2> QED
    BY <2>1 DEF Init, DL!Init
<1>2. (TypeInv /\ Kept /\ Safe) /\ [Next]_vars => (Kept' /\ Frozen)
  BY KeptNext
<1>3. (TypeInv /\ Kept /\ Safe) /\ [Next]_vars /\ faults = 0 /\ (faults = 0)' => [DL!Next]_DL!vars
  BY <1>2, StepImplements
<1>4. Spec => [](TypeInv /\ Kept /\ Safe)
  BY KeptInvariant, SafeInvariant, PTL
<1> QED
  BY <1>1, <1>3, <1>4, PTL DEF Spec, ImplementsDurableLog, DL!Spec

-----------------------------------------------------------------------------
(* Reading while others write: what the index leads to, and what a read of *)
(* a copied chain yields, until a write fails.                             *)

\* The entries of a segment's index are records that it has counted, in order.
Indexed(b) ==
    /\ \A i \in 1 .. Len(index[b]) : LET e == index[b][i] IN
        /\ b <= e.off /\ e.off < next[b] /\ e.off < b + Len(recs[b])
        /\ recs[b][e.off - b + 1].pos = e.pos
    /\ \A i, j \in 1 .. Len(index[b]) : i < j => index[b][i].off < index[b][j].off

IndexInv == \A k \in 1 .. Len(segs) : Indexed(segs[k])

\* The offset of the record the scan is at: as yet all were before the start,
\* or it is the one after those the read has yielded.
InStep(q, at) == (q.got = <<>> /\ at <= q.from) \/ at = q.from + Len(q.got)

\* A read under way holds a copy of the first segments of the chain, and is at
\* one of them.
Reading(q) ==
    /\ status = "up"
    /\ Len(q.snap) \in 1 .. Len(segs) /\ \A j \in 1 .. Len(q.snap) : q.snap[j] = segs[j]
    /\ q.i \in 1 .. Len(q.snap)
    /\ q.upto <= q.snap[Len(q.snap)] + Len(recs[q.snap[Len(q.snap)]])
    /\ \A k \in 1 .. Len(q.got) : q.got[k].off = q.from + k - 1 /\ q.got[k] \in Written
    /\ q.pc = "open" => InStep(q, q.snap[q.i])
    /\ q.pc = "scan" => /\ q.cur \in 1 .. Len(recs[q.snap[q.i]]) + 1
                        /\ InStep(q, q.snap[q.i] + q.cur - 1)
    /\ q.pc = "done" => q.upto <= q.from + Len(q.got)

ReadInv ==
    \A r \in Readers : IF rd[r].pc = "idle" THEN rd[r].got = <<>> ELSE Reading(rd[r])

\* The chain while the log is consistent: its segments are files, each once.
LEMMA SegsFiles ==
    ASSUME TypeInv, InMemory
    PROVE  /\ \A i \in 1 .. Len(segs) : segs[i] \in files /\ segs[i] \in Offsets /\ segs[i] \in Nat
           /\ \A i, j \in 1 .. Len(segs) : segs[i] = segs[j] => i = j
<1>1. \A i \in 1 .. Len(segs) : segs[i] \in files /\ segs[i] \in Offsets /\ segs[i] \in Nat
  BY SegsType DEF InMemory
<1>2. ASSUME NEW i \in 1 .. Len(segs), NEW j \in 1 .. Len(segs), segs[i] = segs[j] PROVE i = j
  <2>1. ~ (i < j) /\ ~ (j < i)
    BY <1>1, <1>2 DEF InMemory
  <2> QED
    BY <2>1, SegsType
<1> QED
  BY <1>1, <1>2

\* The index of a segment is a sequence of entries.
LEMMA IndexType ==
    ASSUME TypeInv, NEW b \in Offsets
    PROVE  /\ index[b] \in Seq(EntryType) /\ Len(index[b]) \in Nat
           /\ DOMAIN index[b] = 1 .. Len(index[b])
           /\ \A i \in 1 .. Len(index[b]) :
                index[b][i] \in EntryType /\ index[b][i].off \in Nat /\ index[b][i].pos \in Nat
<1>1. index[b] \in Seq(EntryType)
  BY DEF TypeInv, TypeOK
<1>2. Len(index[b]) \in Nat /\ DOMAIN index[b] = 1 .. Len(index[b])
  BY <1>1, LenProperties
<1>3. \A i \in 1 .. Len(index[b]) : index[b][i] \in EntryType
  BY <1>1, ElementOfSeq
<1> QED
  BY <1>1, <1>2, <1>3 DEF EntryType

\* An index that is left alone stays right: the records it leads to stay.
LEMMA IndexStays ==
    ASSUME TypeInv, TypeInv', Grown, NEW b \in files, Indexed(b),
           index'[b] = index[b], next'[b] \in Nat, next[b] <= next'[b]
    PROVE  Indexed(b)'
<1>1. /\ b \in Offsets /\ b \in Nat /\ Len(recs[b]) \in Nat /\ next[b] \in Nat
  BY Numbers
<1>2. /\ b \in files' /\ Len(recs[b]) <= Len(recs'[b])
      /\ \A i \in 1 .. Len(recs[b]) : recs'[b][i] = recs[b][i]
  BY DEF Grown
<1>3. Len(recs'[b]) \in Nat
  <2>1. recs'[b] \in Seq(RecordType)
    BY <1>1 DEF TypeInv, TypeOK
  <2> QED
    BY <2>1, LenProperties
<1>4. ASSUME NEW i \in 1 .. Len(index[b])
      PROVE  LET e == index[b][i] IN
             /\ b <= e.off /\ e.off < next'[b] /\ e.off < b + Len(recs'[b])
             /\ recs'[b][e.off - b + 1].pos = e.pos
  <2>1. /\ b <= index[b][i].off /\ index[b][i].off < next[b] /\ index[b][i].off < b + Len(recs[b])
        /\ recs[b][index[b][i].off - b + 1].pos = index[b][i].pos
    BY DEF Indexed
  <2>2. index[b][i].off \in Nat
    BY <1>1, IndexType
  <2>3. index[b][i].off - b + 1 \in 1 .. Len(recs[b])
    BY <1>1, <2>1, <2>2
  <2>4. index[b][i].off < next'[b] /\ index[b][i].off < b + Len(recs'[b])
    BY <1>1, <1>2, <1>3, <2>1, <2>2, SMTT(30)
  <2>5. recs'[b][index[b][i].off - b + 1] = recs[b][index[b][i].off - b + 1]
    BY <1>2, <2>3
  <2> QED
    BY <2>1, <2>4, <2>5
<1> QED
  BY <1>4 DEF Indexed

\* A record that is counted may get an entry; it comes after the others.
LEMMA IndexCounts ==
    ASSUME TypeInv, NEW b \in files, Indexed(b), NEW k \in 1 .. Len(recs[b]),
           next[b] = b + k - 1, NEW end,
           Count(b, next[b], recs[b][k].pos, end), recs' = recs
    PROVE  Indexed(b)'
<1> DEFINE old == index[b]
           new == [off |-> next[b], pos |-> recs[b][k].pos]
<1>1. /\ b \in Offsets /\ b \in Nat /\ Len(recs[b]) \in Nat /\ next[b] \in Nat
  BY Numbers
<1>2. next'[b] = next[b] + 1 /\ next[b] - b + 1 = k
  BY <1>1 DEF Count, TypeInv, TypeOK
<1>3. index'[b] = old \/ index'[b] = Append(old, new)
  BY <1>1 DEF Count, MaybeAppend, TypeInv, TypeOK
<1>4. ASSUME NEW i \in 1 .. Len(old)
      PROVE  /\ old[i].off \in Nat /\ b <= old[i].off /\ old[i].off < next[b]
             /\ old[i].off < b + Len(recs[b]) /\ recs[b][old[i].off - b + 1].pos = old[i].pos
  BY <1>1, IndexType DEF Indexed
<1>5. CASE index'[b] = old
  BY <1>1, <1>2, <1>4, <1>5 DEF Indexed
<1>6. CASE index'[b] = Append(old, new)
  <2> DEFINE all == index'[b]
  <2>1. new \in EntryType
    <3>1. recs[b][k].pos \in Nat
      <4>1. recs[b][k] \in RecordType
        BY <1>1, Numbers, ElementOfSeq
      <4> QED
        BY <4>1 DEF RecordType
    <3> QED
      BY <1>1, <3>1 DEF EntryType
  <2>2. /\ Len(all) = Len(old) + 1 /\ all[Len(old) + 1] = new /\ Len(old) \in Nat
        /\ \A i \in 1 .. Len(old) : all[i] = old[i]
    BY <1>1, <1>6, <2>1, IndexType, AppendProperties
  <2>3. new.off = next[b] /\ new.pos = recs[b][k].pos
    OBVIOUS
  <2> HIDE DEF all, new, old
  <2>4. ASSUME NEW i \in 1 .. Len(all)
        PROVE  /\ b <= all[i].off /\ all[i].off < next[b] + 1 /\ all[i].off < b + Len(recs[b])
               /\ recs[b][all[i].off - b + 1].pos = all[i].pos
    <3>1. CASE i = Len(old) + 1
      BY <1>1, <1>2, <2>2, <2>3, <3>1
    <3>2. CASE i \in 1 .. Len(old)
      <4>1. /\ old[i].off \in Nat /\ b <= old[i].off /\ old[i].off < next[b]
            /\ old[i].off < b + Len(recs[b]) /\ recs[b][old[i].off - b + 1].pos = old[i].pos
        BY <1>4, <3>2
      <4> QED
        BY <1>1, <2>2, <3>2, <4>1, SMTT(30)
    <3> QED
      BY <2>2, <3>1, <3>2
  <2>5. ASSUME NEW i \in 1 .. Len(all), NEW j \in 1 .. Len(all), i < j
        PROVE  all[i].off < all[j].off
    <3>1. i \in 1 .. Len(old) /\ all[i] = old[i]
      BY <2>2, <2>5
    <3>2. CASE j = Len(old) + 1
      BY <1>4, <2>2, <2>3, <3>1, <3>2
    <3>3. CASE j \in 1 .. Len(old)
      BY <2>2, <2>5, <3>1, <3>3 DEF Indexed, old
    <3> QED
      BY <2>2, <3>2, <3>3
  <2> QED
    BY <1>2, <2>4, <2>5 DEF Indexed, all
<1> QED
  BY <1>3, <1>5, <1>6

\* A log that goes on: files and chain only grow.
Onward ==
    /\ Grown
    /\ status = "up" => status' = "up"
    /\ Len(segs) <= Len(segs')
    /\ \A i \in 1 .. Len(segs) : segs'[i] = segs[i]

\* The steps that open no segment and count no record.
LEMMA QuietStep ==
    ASSUME TypeInv, TypeInv', Consistent, IndexInv, UNCHANGED <<segs, next, index>>,
           Grown, status = "up" => status' = "up"
    PROVE  Onward /\ IndexInv'
<1>1. Onward
  BY SegsType DEF Onward
<1>2. ASSUME NEW k \in 1 .. Len(segs) PROVE Indexed(segs[k])'
  <2>1. segs[k] \in files /\ next[segs[k]] \in Nat
    BY SegsFiles, Numbers DEF Consistent
  <2>2. Indexed(segs[k])
    BY DEF IndexInv
  <2>3. PICK b \in files : b = segs[k]
    BY <2>1
  <2>4. Indexed(b)'
    BY <2>1, <2>2, <2>3, IndexStays
  <2> QED
    BY <2>3, <2>4
<1> QED
  BY <1>1, <1>2 DEF IndexInv

\* Files that keep their records have grown.
LEMMA GrownSame ==
    ASSUME TypeInv, files \subseteq files', recs' = recs
    PROVE  Grown
BY Numbers DEF Grown

\* A segment that is opened has an empty index; it is none of the others.
LEMMA SegmentStep ==
    ASSUME TypeInv, TypeInv', Consistent, IndexInv, NEW b \in Offsets, NewSegment(b), recs' = recs,
           status = "up" => status' = "up", \A i \in 1 .. Len(segs) : segs[i] # b
    PROVE  Onward /\ IndexInv'
<1>1. Grown
  BY GrownSame DEF NewSegment
<1>2. /\ Len(segs') = Len(segs) + 1 /\ Len(segs) \in Nat /\ segs'[Len(segs) + 1] = b
      /\ \A i \in 1 .. Len(segs) : segs'[i] = segs[i]
  BY SegmentAdded, SegsType DEF NewSegment, Active
<1>3. Onward
  BY <1>1, <1>2 DEF Onward
<1>4. /\ index'[b] = <<>>
      /\ \A c \in Offsets \ {b} : index'[c] = index[c] /\ next'[c] = next[c]
  BY DEF NewSegment, TypeInv, TypeOK
<1>5. Indexed(b)'
  <2>1. Len(index'[b]) = 0
    BY <1>4, EmptySeq
  <2> QED
    BY <2>1 DEF Indexed
<1>6. ASSUME NEW k \in 1 .. Len(segs') PROVE Indexed(segs[k])'
  <2>1. CASE k = Len(segs) + 1
    BY <1>2, <1>5, <2>1
  <2>2. CASE k \in 1 .. Len(segs)
    <3>1. PICK c \in files : c = segs[k] /\ c # b /\ c \in Offsets
      BY <2>2, SegsFiles DEF Consistent
    <3>2. next[c] \in Nat /\ Indexed(c)
      BY <2>2, <3>1, Numbers DEF IndexInv
    <3>3. Indexed(c)'
      BY <1>1, <1>4, <3>1, <3>2, IndexStays
    <3> QED
      BY <1>2, <2>2, <3>1, <3>3
  <2> QED
    BY <1>2, <2>1, <2>2
<1> QED
  BY <1>3, <1>6 DEF IndexInv

\* The tail counts its next record.
LEMMA CountStep ==
    ASSUME TypeInv, TypeInv', Consistent, IndexInv, status \in {"scanning", "up"},
           NEW k \in 1 .. Len(recs[Active]), next[Active] = Active + k - 1, NEW end,
           Count(Active, next[Active], recs[Active][k].pos, end),
           UNCHANGED <<files, recs, segs>>, status = "up" => status' = "up"
    PROVE  Onward /\ IndexInv'
<1>1. Grown
  BY GrownSame
<1>2. Onward
  BY <1>1, SegsType DEF Onward
<1>3. PICK b \in files : b = Active /\ b \in Offsets
  BY ActiveLast DEF Consistent
<1>4. \A c \in Offsets \ {b} : index'[c] = index[c] /\ next'[c] = next[c]
  BY <1>3 DEF Count, TypeInv, TypeOK
<1>5. Indexed(b)'
  <2>1. Indexed(b)
    <3>1. Len(segs) \in 1 .. Len(segs)
      BY ActiveLast DEF Consistent
    <3> QED
      BY <1>3, <3>1 DEF IndexInv, Active
  <2> QED
    BY <1>3, <2>1, IndexCounts
<1>6. ASSUME NEW i \in 1 .. Len(segs) PROVE Indexed(segs[i])'
  <2>1. CASE segs[i] = b
    <3>1. segs'[i] = b
      BY <2>1
    <3> QED
      BY <1>5, <3>1
  <2>2. CASE segs[i] # b
    <3>1. PICK c \in files : c = segs[i] /\ c # b /\ c \in Offsets
      BY <2>2, SegsFiles DEF Consistent
    <3>2. next[c] \in Nat /\ Indexed(c)
      BY <3>1, Numbers DEF IndexInv
    <3>3. Indexed(c)'
      BY <1>1, <1>4, <3>1, <3>2, IndexStays
    <3> QED
      BY <3>1, <3>3
  <2> QED
    BY <2>1, <2>2
<1> QED
  BY <1>2, <1>6 DEF IndexInv

\* What the scan of an opening passes is counted with the place it was at.
LEMMA ScanStep ==
    ASSUME TypeInv, TypeInv', Consistent, IndexInv, RecoverRecord
    PROVE  Onward /\ IndexInv'
<1> DEFINE k == Scanned(Active) + 1
           rec == recs[Active][k]
<1>1. /\ status = "scanning" /\ Scanned(Active) < Len(recs[Active])
      /\ UNCHANGED <<disk, segs>>
  BY DEF RecoverRecord
<1>2. Active \in files /\ Active \in Nat /\ Len(recs[Active]) \in Nat /\ next[Active] \in Nat
  BY <1>1, ActiveLast, Numbers DEF Consistent
<1>3. k = next[Active] - Active + 1 /\ k \in 1 .. Len(recs[Active]) /\ next[Active] = Active + k - 1
  <2>1. next[Active] \in Active .. Active + Len(recs[Active])
    BY <1>1 DEF Consistent, InMemory
  <2>2. Scanned(Active) = next[Active] - Active /\ Scanned(Active) < Len(recs[Active])
    BY <1>1 DEF Scanned
  <2> QED
    BY <1>2, <2>1, <2>2
<1>4. rec.off = next[Active]
  BY <1>2, <1>3 DEF Consistent, OnDisk, SequentialFiles
<1>5. Count(Active, next[Active], recs[Active][k].pos, RecordEnd(rec))
  BY <1>4 DEF RecoverRecord
<1> HIDE DEF k, rec
<1> QED
  BY <1>1, <1>3, <1>5, CountStep DEF disk

\* An append counts the record where its flush put it.
LEMMA AppendStep ==
    ASSUME TypeInv, TypeInv', Consistent, Kept, IndexInv, NEW t \in Threads, AppendReturns(t)
    PROVE  Onward /\ IndexInv'
<1> DEFINE k == Len(recs[Active])
           last == recs[Active][k]
<1>1. /\ op[t].pc = "account" /\ UNCHANGED <<disk, segs, status>>
      /\ Count(Active, op[t].off, op[t].at, FileEnd(recs[Active]))
  BY DEF AppendReturns
<1>2. /\ status = "up" /\ Active \in files /\ Active \in Nat /\ k \in Nat /\ next[Active] \in Nat
      /\ recs[Active] \in Seq(RecordType)
  BY <1>1, LockHeld, ActiveLast, Numbers DEF Consistent
<1>3. op[t].val # NoValue /\ op[t].val \in Values
  BY <1>1, TypeRecord, NoValueAssumption
<1>4. /\ op[t].off = next[Active] /\ k = next[Active] - Active + 1
      /\ FileEnd(recs[Active]) = op[t].at + Size[op[t].val]
  BY <1>1, <1>3 DEF Consistent, InThreads
<1>5. next[Active] = Active + k - 1 /\ next[Active] >= Active
  <2>1. next[Active] >= Active
    BY <1>2, TailLast DEF Kept
  <2> QED
    BY <1>2, <1>4, <2>1
<1>6. k \in 1 .. k /\ recs[Active] # <<>>
  <2>1. k >= 1
    BY <1>2, <1>5
  <2> QED
    BY <1>2, <2>1, EmptySeq
<1>7. last.val = op[t].val
  <2> DEFINE x == [off |-> op[t].off, val |-> op[t].val]
  <2>1. x \in InFile(Active)
    BY <1>1 DEF Kept, KeptOps
  <2>2. x = [off |-> recs[Active][x.off - Active + 1].off, val |-> recs[Active][x.off - Active + 1].val]
    BY <1>2, <2>1, FileRun DEF Consistent
  <2>3. x.off - Active + 1 = k /\ x.val = op[t].val
    BY <1>4
  <2> QED
    BY <2>2, <2>3
<1>8. last.pos = op[t].at
  <2>1. FileEnd(recs[Active]) = last.pos + Size[last.val]
    BY <1>6 DEF FileEnd, RecordEnd
  <2>2. Size[op[t].val] \in Nat /\ last.pos \in Nat /\ op[t].at \in Nat
    <3>1. last \in RecordType
      BY <1>2, <1>6, ElementOfSeq
    <3> QED
      BY <1>3, <3>1, SizeAssumption DEF RecordType, TypeInv, TypeOK, OpType
  <2> QED
    BY <1>4, <1>7, <2>1, <2>2
<1> HIDE DEF k, last
<1>9. Count(Active, next[Active], recs[Active][k].pos, FileEnd(recs[Active]))
  BY <1>1, <1>4, <1>8 DEF last
<1>10. k \in 1 .. Len(recs[Active])
  BY <1>6 DEF k
<1> QED
  BY <1>1, <1>2, <1>5, <1>9, <1>10, CountStep DEF disk

\* A flush leaves all records where they are.
LEMMA FlushStep ==
    ASSUME TypeInv, TypeInv', Consistent, IndexInv, NEW t \in Threads, Flush(t)
    PROVE  Onward /\ IndexInv'
<1> DEFINE old == Flushed(Active)
           rec == LandAt(old, op[t].off, op[t].val)
           new == Append(old, rec)
<1>1. /\ op[t].pc = "flush" /\ recs' = [recs EXCEPT ![Active] = new]
      /\ UNCHANGED <<files, status, segs, next, index>>
  BY DEF Flush
<1>2. Active \in Offsets /\ Active \in files
  BY <1>1, LockHeld, ActiveLast DEF Consistent
<1>3. old \in Seq(RecordType) /\ rec \in RecordType /\ Extends(old, recs[Active])
  BY <1>1, <1>2, TypeRecord, TypeFlushed, FlushedExtends
<1> HIDE DEF rec, old
<1>4. Extends(new, recs[Active])
  <2>1. Len(old) \in Nat /\ Len(recs[Active]) \in Nat
    BY <1>2, <1>3, Numbers, LenProperties
  <2>2. Len(new) = Len(old) + 1 /\ \A i \in 1 .. Len(old) : new[i] = old[i]
    BY <1>3, AppendProperties
  <2> HIDE DEF new
  <2> QED
    BY <1>3, <2>1, <2>2 DEF Extends
<1> HIDE DEF new
<1>5. Grown
  <2> SUFFICES ASSUME NEW b \in files
               PROVE  /\ Len(recs[b]) <= Len(recs'[b])
                      /\ \A i \in 1 .. Len(recs[b]) : recs'[b][i] = recs[b][i]
    BY <1>1 DEF Grown
  <2>1. recs'[b] = IF b = Active THEN new ELSE recs[b]
    BY <1>1, <1>2, Numbers DEF TypeInv, TypeOK
  <2>2. Len(recs[b]) \in Nat
    BY Numbers
  <2> QED
    BY <1>4, <2>1, <2>2 DEF Extends
<1> QED
  BY <1>1, <1>5, QuietStep

\* A new segment is opened, by an opening or by a roll.
LEMMA OpenStep ==
    ASSUME TypeInv, TypeInv', Consistent, Kept, IndexInv,
           RecoverBegin \/ \E t \in Threads : Create(t)
    PROVE  Onward /\ IndexInv'
<1>1. CASE RecoverBegin
  <2>1. PICK b \in (IF files = {} THEN {0} ELSE Unopened) : NewSegment(b)
    BY <1>1 DEF RecoverBegin
  <2>2. b \in Offsets /\ \A i \in 1 .. Len(segs) : segs[i] # b
    <3>1. 0 \in Offsets /\ files \subseteq Offsets
      BY BoundsAssumption, Numbers DEF Offsets
    <3>2. \A i \in 1 .. Len(segs) : segs[i] \in files /\ segs[i] \in Opened
      BY SegsFiles, SegsType DEF Opened, Consistent
    <3> QED
      BY <2>1, <3>1, <3>2 DEF Unopened
  <2>3. status # "up" /\ recs' = recs
    BY <1>1 DEF RecoverBegin
  <2> QED
    BY <2>1, <2>2, <2>3, SegmentStep
<1>2. ASSUME NEW t \in Threads, Create(t) PROVE Onward /\ IndexInv'
  <2>1. op[t].pc = "create" /\ NewSegment(next[Active]) /\ UNCHANGED <<recs, status>>
    BY <1>2 DEF Create
  <2>2. next[Active] \in Offsets /\ \A i \in 1 .. Len(segs) : segs[i] < next[Active]
    BY <2>1, RollRoom
  <2>3. \A i \in 1 .. Len(segs) : segs[i] # next[Active]
    BY <2>2, SegsFiles, Numbers DEF Consistent
  <2> QED
    BY <2>1, <2>2, <2>3, SegmentStep
<1> QED
  BY <1>1, <1>2

\* Whatever is done to a log short of stopping it, it goes on, and its index
\* leads to its records.
LEMMA StepOnward ==
    ASSUME TypeInv, TypeInv', Consistent, Kept, IndexInv, [Next]_vars, ~ ProcessCrash, ~ PowerLoss,
           \A t \in Threads : ~ FlushFails(t) /\ ~ CreateFails(t)
    PROVE  Onward /\ IndexInv'
<1>1. CASE Recover
  <2>1. CASE Start \/ RecoverEnd \/ OpenEnd
    <3>1. UNCHANGED <<files, recs, segs, next, index>> /\ status # "up"
      BY <2>1 DEF Start, RecoverEnd, OpenEnd, disk, chain
    <3> QED
      BY <3>1, GrownSame, QuietStep
  <2> QED
    BY <1>1, <2>1, OpenStep, ScanStep, NoneStray DEF Recover
<1>2. ASSUME NEW t \in Threads,
             RollBegin(t) \/ (\E v \in Values : AppendBegin(t, v)) \/ Proceed(t) \/ Fail(t)
      PROVE  Onward /\ IndexInv'
  <2>1. CASE \/ RollBegin(t) \/ WriteBegin(t) \/ WriteRejected(t) \/ AppendMismatch(t)
             \/ FlushPartly(t) \/ \E v \in Values : AppendBegin(t, v)
    <3>1. UNCHANGED <<files, recs, segs, next, index, status>>
      BY <2>1 DEF RollBegin, AppendBegin, WriteBegin, WriteRejected, AppendMismatch, FlushPartly,
                  disk, chain
    <3> QED
      BY <3>1, GrownSame, QuietStep
  <2>2. CASE Seal(t)
    <3>1. UNCHANGED <<files, segs, next, index, status>> /\ op[t].pc = "seal"
      BY <2>2 DEF Seal
    <3>2. recs' = recs
      <4>1. status = "up"
        BY <3>1, LockHeld DEF Consistent
      <4>2. CASE FsyncTail
        BY <3>1, <4>1, <4>2, SafeFsync
      <4>3. CASE ~ FsyncTail
        BY <2>2, <4>3 DEF Seal
      <4> QED
        BY <4>2, <4>3
    <3> QED
      BY <3>1, <3>2, GrownSame, QuietStep
  <2> QED
    BY <1>2, <2>1, <2>2, OpenStep, FlushStep, AppendStep, NoneStray DEF Proceed, Fail
<1>3. CASE Sync \/ Close
  <2>1. /\ status = "up" /\ FsyncTail /\ UNCHANGED <<files, segs, next, index, status>>
    BY <1>3 DEF Sync, Close
  <2>2. recs' = recs
    BY <2>1, SafeFsync
  <2> QED
    BY <2>1, <2>2, GrownSame, QuietStep
<1>4. CASE \E r \in Readers : ReadStep(r) \/ \E o \in Offsets : ReadBegin(r, o)
  <2>1. UNCHANGED <<disk, chain, status>>
    BY <1>4 DEF ReadStep, ReadBegin, ReadOpen, ReadRecord, ReadEof
  <2> QED
    BY <2>1, GrownSame, QuietStep DEF disk, chain
<1>5. CASE UNCHANGED vars
  BY <1>5, GrownSame, QuietStep DEF vars, disk, chain
<1> QED
  BY <1>1, <1>2, <1>3, <1>4, <1>5 DEF Next

\* The segments of an open log are chained: one ends where the next begins.
LEMMA SegsChained ==
    ASSUME TypeInv, Consistent, status = "up", NEW i \in 1 .. Len(segs) - 1
    PROVE  segs[i + 1] = segs[i] + Len(recs[segs[i]])
<1>1. Len(segs) \in Nat /\ i \in 1 .. Len(segs) /\ i + 1 \in 1 .. Len(segs)
  BY SegsType
<1>2. \A j \in 1 .. Len(segs) : segs[j] \in files /\ segs[j] \in Nat /\ Len(recs[segs[j]]) \in Nat
  BY SegsFiles, Numbers DEF Consistent
<1>3. \A j, k \in 1 .. Len(segs) : j < k => segs[j] < segs[k] /\ segs[j] + Len(recs[segs[j]]) <= segs[k]
  BY <1>2 DEF Consistent, InMemory, OnDisk, ChainedFiles
<1>4. segs[i] < segs[i + 1]
  BY <1>1, <1>3
<1>5. PICK p \in files : p < segs[i + 1] /\ p + Len(recs[p]) = segs[i + 1]
  <2>1. segs[i + 1] \in files \ {0}
    BY <1>1, <1>2, <1>4
  <2> QED
    BY <2>1 DEF Consistent, OnDisk, ChainedFiles
<1>6. PICK j \in 1 .. Len(segs) : segs[j] = p
  <2>1. p \in Opened
    BY DEF Consistent, InMemory, Unopened
  <2> QED
    BY <2>1, SegsType DEF Opened
<1>7. ~ (j > i + 1) /\ j # i + 1
  BY <1>1, <1>2, <1>3, <1>5, <1>6
<1>8. ~ (j < i)
  BY <1>1, <1>2, <1>3, <1>4, <1>5, <1>6
<1>9. j = i
  BY <1>1, <1>7, <1>8
<1> QED
  BY <1>5, <1>6, <1>9

\* bisect: of increasing numbers, the last of those that are at most x is at
\* the place that counting them gives.
LEMMA LastAtMost ==
    ASSUME NEW n \in Nat, NEW f, \A i \in 1 .. n : f[i] \in Nat,
           \A i, j \in 1 .. n : i < j => f[i] < f[j],
           NEW x \in Nat, NEW T \in SUBSET (1 .. n), \A i \in 1 .. n : i \in T <=> f[i] <= x,
           NEW k, k = Cardinality(T)
    PROVE  k \in 0 .. n /\ (k # 0 => f[k] <= x)
<1>1. IsFiniteSet(1 .. n) /\ Cardinality(1 .. n) = n
  BY FS_Interval
<1>2. IsFiniteSet(T) /\ k <= n
  BY <1>1, FS_Subset
<1>3. k \in Nat
  BY <1>2, FS_CardinalityType
<1>4. ASSUME k # 0, ~ (f[k] <= x) PROVE FALSE
  <2>1. k \in 1 .. n
    BY <1>2, <1>3, <1>4
  <2>2. PICK m \in Nat : m = k - 1
    <3>1. k - 1 \in Nat
      BY <1>3, <2>1
    <3> QED
      BY <3>1, Zenon
  <2>3. T \subseteq 1 .. m
    <3> SUFFICES ASSUME NEW i \in T PROVE i < k
      BY <1>3, <2>2
    <3>1. i # k
      BY <1>4
    <3>2. k < i => f[k] < f[i]
      BY <2>1
    <3>3. ~ (k < i)
      BY <1>4, <2>1, <3>2
    <3> QED
      BY <1>3, <3>1, <3>3
  <2>4. IsFiniteSet(1 .. m) /\ Cardinality(1 .. m) = m
    BY FS_Interval
  <2>5. Cardinality(T) <= Cardinality(1 .. m)
    BY <2>3, <2>4, FS_Subset
  <2> QED
    BY <1>3, <2>2, <2>4, <2>5
<1> QED
  BY <1>2, <1>3, <1>4

\* The verified seek of Segment._iter_from: it starts at the first record, or
\* at one that is not after the offset asked for.
LEMMA SeekStart ==
    ASSUME TypeInv, Consistent, NEW b \in files, Indexed(b), NEW from \in Nat,
           NEW cur, cur = StartScan(recs[b], Lookup(index[b], b, from))
    PROVE  cur \in 1 .. Len(recs[b]) + 1 /\ (cur = 1 \/ b + cur - 1 <= from)
<1> DEFINE entries == index[b]
           f == [i \in 1 .. Len(entries) |-> entries[i].off]
           T == {i \in DOMAIN entries : entries[i].off <= from}
           n == Cardinality(T)
           hint == Lookup(index[b], b, from)
           Hit(i) == recs[b][i].pos = hint.pos /\ recs[b][i].off = hint.off
<1>1. b \in Offsets /\ b \in Nat /\ Len(recs[b]) \in Nat /\ DOMAIN recs[b] = 1 .. Len(recs[b])
  BY Numbers, LenProperties
<1>2. /\ Len(entries) \in Nat /\ DOMAIN entries = 1 .. Len(entries)
      /\ \A i \in 1 .. Len(entries) : entries[i].off \in Nat
  BY <1>1, IndexType
<1>3. n = 0 \/ (n \in 1 .. Len(entries) /\ entries[n].off <= from)
  <2>1. T \in SUBSET (1 .. Len(entries)) /\ \A i \in 1 .. Len(entries) : i \in T <=> f[i] <= from
    BY <1>2
  <2>2. \A i \in 1 .. Len(entries) : f[i] \in Nat
    BY <1>2
  <2>3. \A i, j \in 1 .. Len(entries) : i < j => f[i] < f[j]
    BY DEF Indexed
  <2>4. \A i \in 1 .. Len(entries) : f[i] = entries[i].off
    OBVIOUS
  <2> HIDE DEF f, T, entries
  <2>5. n \in 0 .. Len(entries) /\ (n # 0 => f[n] <= from)
    BY <1>2, <2>1, <2>2, <2>3, LastAtMost
  <2> QED
    BY <1>2, <2>4, <2>5
<1>4. hint.off = b \/ hint.off <= from
  BY <1>3 DEF Lookup
<1> HIDE DEF hint
<1>5. CASE \E i \in DOMAIN recs[b] : Hit(i)
  <2>1. cur = CHOOSE i \in DOMAIN recs[b] : Hit(i)
    BY <1>5 DEF StartScan, hint
  <2>2. cur \in DOMAIN recs[b] /\ Hit(cur)
    BY <1>5, <2>1
  <2>3. cur \in 1 .. Len(recs[b]) /\ b + cur - 1 = hint.off
    BY <1>1, <2>2 DEF Consistent, OnDisk, SequentialFiles
  <2>4. hint.off = b => cur = 1
    BY <1>1, <2>3
  <2> QED
    BY <1>1, <1>4, <2>3, <2>4
<1>6. CASE ~ \E i \in DOMAIN recs[b] : Hit(i)
  <2>1. cur = 1
    BY <1>6 DEF StartScan, hint
  <2> QED
    BY <1>1, <2>1
<1> QED
  BY <1>5, <1>6

\* The types of a reader's locals.
LEMMA ReaderType ==
    ASSUME TypeInv, NEW r \in Readers
    PROVE  /\ rd[r] \in ReadType /\ rd[r].from \in Nat /\ rd[r].upto \in Nat
           /\ rd[r].snap \in Seq(Offsets) /\ rd[r].got \in Seq(AckType)
           /\ rd[r].i \in Nat /\ rd[r].cur \in Nat
           /\ Len(rd[r].snap) \in Nat /\ Len(rd[r].got) \in Nat
<1>1. rd[r] \in ReadType
  BY DEF TypeInv, TypeOK
<1>2. rd[r].snap \in Seq(Offsets) /\ rd[r].got \in Seq(AckType)
  BY <1>1 DEF ReadType
<1>3. Len(rd[r].snap) \in Nat /\ Len(rd[r].got) \in Nat
  BY <1>2, LenProperties
<1> QED
  BY <1>1, <1>2, <1>3 DEF ReadType

\* A read is not disturbed by a log that goes on.
LEMMA ReadingStays ==
    ASSUME TypeInv, TypeInv', Consistent, Onward, NEW r \in Readers, rd'[r] = rd[r], Reading(rd[r])
    PROVE  Reading(rd[r])'
<1>1. PICK q : q = rd[r]
  OBVIOUS
<1>2. /\ q.upto \in Nat /\ Len(q.snap) \in Nat /\ q.i \in Nat /\ q.cur \in Nat
  BY <1>1, ReaderType
<1>3. /\ status = "up" /\ Len(q.snap) \in 1 .. Len(segs)
      /\ \A j \in 1 .. Len(q.snap) : q.snap[j] = segs[j]
  BY <1>1 DEF Reading
<1>4. /\ status' = "up" /\ Len(segs) <= Len(segs') /\ Len(segs) \in Nat
      /\ Len(segs') \in Nat /\ \A i \in 1 .. Len(segs) : segs'[i] = segs[i]
  <2>1. Len(segs') \in Nat
    <3>1. segs' \in Seq(Offsets)
      BY DEF TypeInv, TypeOK
    <3> QED
      BY <3>1, LenProperties
  <2> QED
    BY <1>3, <2>1, SegsType DEF Onward
<1>5. Len(q.snap) \in 1 .. Len(segs') /\ \A j \in 1 .. Len(q.snap) : q.snap[j] = segs'[j]
  BY <1>2, <1>3, <1>4
<1>6. \A j \in 1 .. Len(q.snap) : /\ q.snap[j] \in Nat
                                  /\ Len(recs[q.snap[j]]) \in Nat /\ Len(recs'[q.snap[j]]) \in Nat
                                  /\ Len(recs[q.snap[j]]) <= Len(recs'[q.snap[j]])
  <2> TAKE j \in 1 .. Len(q.snap)
  <2>1. q.snap[j] \in files /\ q.snap[j] \in Offsets
    <3>1. j \in 1 .. Len(segs)
      BY <1>2, <1>3, <1>4
    <3> QED
      BY <1>3, <3>1, SegsFiles DEF Consistent
  <2>2. recs'[q.snap[j]] \in Seq(RecordType)
    BY <2>1 DEF TypeInv, TypeOK
  <2> QED
    BY <2>1, <2>2, Numbers, LenProperties DEF Onward, Grown
<1>7. /\ q.i \in 1 .. Len(q.snap)
      /\ q.upto <= q.snap[Len(q.snap)] + Len(recs[q.snap[Len(q.snap)]])
      /\ \A k \in 1 .. Len(q.got) : q.got[k].off = q.from + k - 1 /\ q.got[k] \in Written
      /\ q.pc = "open" => InStep(q, q.snap[q.i])
      /\ q.pc = "scan" => /\ q.cur \in 1 .. Len(recs[q.snap[q.i]]) + 1
                          /\ InStep(q, q.snap[q.i] + q.cur - 1)
      /\ q.pc = "done" => q.upto <= q.from + Len(q.got)
  BY <1>1 DEF Reading
<1>8. Written \subseteq Written'
  BY RecordsStay DEF Onward
<1>9. q.upto <= q.snap[Len(q.snap)] + Len(recs'[q.snap[Len(q.snap)]])
  <2>1. Len(q.snap) \in 1 .. Len(q.snap)
    BY <1>2, <1>3
  <2>2. PICK b : b = q.snap[Len(q.snap)]
    OBVIOUS
  <2>3. /\ b \in Nat /\ Len(recs[b]) \in Nat /\ Len(recs'[b]) \in Nat
        /\ Len(recs[b]) <= Len(recs'[b]) /\ q.upto <= b + Len(recs[b])
    BY <1>6, <1>7, <2>1, <2>2
  <2>4. q.upto <= b + Len(recs'[b])
    BY <1>2, <2>3
  <2> QED
    BY <2>2, <2>4
<1>10. q.pc = "scan" => q.cur \in 1 .. Len(recs'[q.snap[q.i]]) + 1
  BY <1>2, <1>6, <1>7, SMTT(30)
<1>11. Reading(q)'
  BY <1>4, <1>5, <1>7, <1>8, <1>9, <1>10 DEF Reading
<1> QED
  BY <1>1, <1>11

\* The step of a reader: the others are where they were, and so is the log.
LEMMA ReaderMoves ==
    ASSUME TypeInv, ReadInv, NEW r \in Readers, NEW q, rd' = [rd EXCEPT ![r] = q],
           q.pc # "idle", Reading(q), UNCHANGED <<disk, status, chain>>
    PROVE  ReadInv'
<1>1. \A p : Reading(p) => Reading(p)'
  <2> TAKE p
  <2>1. UNCHANGED <<files, recs, segs, status>>
    BY DEF disk, chain
  <2>2. Written' = Written
    BY <2>1 DEF Written, InFile
  <2> QED
    BY <2>1, <2>2 DEF Reading
<1>2. ASSUME NEW s \in Readers
      PROVE  IF rd'[s].pc = "idle" THEN rd'[s].got = <<>> ELSE Reading(rd[s])'
  <2>1. PICK p : p = rd'[s]
    OBVIOUS
  <2>2. CASE s = r
    <3>1. p = q
      BY <2>1, <2>2 DEF TypeInv, TypeOK
    <3> QED
      BY <1>1, <2>1, <3>1
  <2>3. CASE s # r
    <3>1. p = rd[s]
      BY <2>1, <2>3 DEF TypeInv, TypeOK
    <3>2. IF p.pc = "idle" THEN p.got = <<>> ELSE Reading(p)
      BY <3>1 DEF ReadInv
    <3> QED
      BY <1>1, <2>1, <3>2
  <2> QED
    BY <2>2, <2>3
<1> QED
  BY <1>2 DEF ReadInv

\* A read begins in the last segment that is based at or before its offset.
LEMMA BeginReads ==
    ASSUME TypeInv, Consistent, ReadInv, NEW r \in Readers, NEW o \in Offsets, ReadBegin(r, o)
    PROVE  ReadInv'
<1>1. PICK q : q = [pc |-> "open", from |-> o, upto |-> next[Active], snap |-> segs,
                    i |-> BisectRight(segs, o), cur |-> 1, got |-> <<>>]
  OBVIOUS
<1>2. /\ rd' = [rd EXCEPT ![r] = q] /\ UNCHANGED <<disk, status, chain>>
      /\ status = "up" /\ lock = NoThread /\ segs[1] <= o
  BY <1>1 DEF ReadBegin
<1>3. /\ q.pc = "open" /\ q.from = o /\ q.upto = next[Active] /\ q.snap = segs
      /\ q.i = BisectRight(segs, o) /\ q.cur = 1 /\ q.got = <<>>
  BY <1>1
<1>4. /\ segs # <<>> /\ segs \in Seq(Offsets) /\ Len(segs) \in Nat /\ DOMAIN segs = 1 .. Len(segs)
      /\ o \in Nat
  BY <1>2, SegsType DEF TypeInv, Sane, Offsets
<1>5. Len(segs) \in 1 .. Len(segs)
  BY <1>4, EmptySeq
<1>6. q.i \in 1 .. Len(segs)
  BY <1>2, <1>3, <1>4, BisectRightType
<1>7. segs[q.i] <= o
  <2> DEFINE T == {i \in DOMAIN segs : segs[i] <= o}
  <2>1. T \in SUBSET (1 .. Len(segs)) /\ \A i \in 1 .. Len(segs) : i \in T <=> segs[i] <= o
    BY <1>4
  <2>2. q.i = Cardinality(T) /\ q.i # 0
    BY <1>3, <1>6 DEF BisectRight
  <2>3. /\ \A i \in 1 .. Len(segs) : segs[i] \in Nat
        /\ \A i, j \in 1 .. Len(segs) : i < j => segs[i] < segs[j]
    BY SegsFiles DEF Consistent, InMemory
  <2> HIDE DEF T
  <2> QED
    BY <1>4, <2>1, <2>2, <2>3, LastAtMost
<1>8. next[Active] <= Active + Len(recs[Active])
  <2>1. Counted(Active) /\ Active \in Nat /\ Len(recs[Active]) \in Nat
    BY <1>2, LockFree, ActiveLast DEF Consistent
  <2> QED
    BY <2>1 DEF Counted
<1>9. Len(q.got) = 0
  BY <1>3, EmptySeq
<1>10. InStep(q, q.snap[q.i])
  BY <1>3, <1>7 DEF InStep
<1>11. Reading(q)
  BY <1>2, <1>3, <1>5, <1>6, <1>8, <1>9, <1>10 DEF Reading, Active
<1> QED
  BY <1>2, <1>3, <1>11, ReaderMoves

\* The scan of a segment starts at no record after the one it has to start at.
LEMMA OpenReads ==
    ASSUME TypeInv, Consistent, IndexInv, ReadInv, NEW r \in Readers, ReadOpen(r)
    PROVE  ReadInv'
<1>1. PICK p : p = rd[r]
  OBVIOUS
<1>2. PICK b : b = p.snap[p.i]
  OBVIOUS
<1>3. PICK cur : cur = StartScan(recs[b], Lookup(index[b], b, p.from))
  OBVIOUS
<1>4. PICK q : q = [p EXCEPT !.pc = "scan", !.cur = cur]
  OBVIOUS
<1>5. p.pc = "open" /\ p \in ReadType /\ p.from \in Nat /\ Len(p.got) \in Nat /\ p.got \in Seq(AckType)
  BY <1>1, ReaderType DEF ReadOpen
<1>6. rd' = [rd EXCEPT ![r] = q] /\ UNCHANGED <<disk, status, chain>>
  BY <1>1, <1>2, <1>3, <1>4 DEF ReadOpen, TypeInv, TypeOK
<1>7. /\ q.pc = "scan" /\ q.cur = cur /\ q.from = p.from /\ q.upto = p.upto /\ q.snap = p.snap
      /\ q.i = p.i /\ q.got = p.got
  BY <1>4, <1>5 DEF ReadType
<1>8. Reading(p)
  BY <1>1, <1>5 DEF ReadInv
<1>9. b \in files /\ b \in Nat /\ Indexed(b)
  <2>1. p.i \in 1 .. Len(segs) /\ b = segs[p.i]
    BY <1>2, <1>8, SegsType DEF Reading
  <2> QED
    BY <2>1, SegsFiles DEF IndexInv, Consistent
<1>10. cur \in 1 .. Len(recs[b]) + 1 /\ (cur = 1 \/ b + cur - 1 <= p.from)
  BY <1>3, <1>5, <1>9, SeekStart
<1>11. InStep(q, b + cur - 1)
  <2>1. InStep(p, b)
    BY <1>2, <1>5, <1>8 DEF Reading
  <2>2. CASE cur = 1
    BY <1>7, <1>9, <2>1, <2>2 DEF InStep
  <2>3. CASE b + cur - 1 <= p.from
    <3>1. CASE p.got = <<>>
      BY <1>7, <2>3, <3>1 DEF InStep
    <3>2. CASE p.got # <<>>
      <4>1. b = p.from + Len(p.got)
        BY <2>1, <3>2 DEF InStep
      <4>2. Len(p.got) # 0
        BY <1>5, <3>2, EmptySeq
      <4>3. cur \in Nat /\ cur >= 1
        <5>1. Len(recs[b]) \in Nat
          BY <1>9, Numbers
        <5> QED
          BY <1>10, <5>1
      <4> QED
        BY <1>5, <1>9, <2>3, <4>1, <4>2, <4>3
    <3> QED
      BY <3>1, <3>2
  <2> QED
    BY <1>10, <2>2, <2>3
<1>12. Reading(q)
  BY <1>2, <1>7, <1>8, <1>10, <1>11 DEF Reading
<1> QED
  BY <1>6, <1>7, <1>12, ReaderMoves

\* The record found is skipped, or it is the one that comes next.
LEMMA RecordReads ==
    ASSUME TypeInv, Consistent, ReadInv, NEW r \in Readers, ReadRecord(r)
    PROVE  ReadInv'
<1>1. PICK p : p = rd[r]
  OBVIOUS
<1>2. PICK b : b = p.snap[p.i]
  OBVIOUS
<1>3. PICK rec : rec = recs[b][p.cur]
  OBVIOUS
<1>4. PICK x : x = [off |-> rec.off, val |-> rec.val]
  OBVIOUS
<1>5. PICK got : got = IF rec.off >= p.from THEN Append(p.got, x) ELSE p.got
  OBVIOUS
<1>6. PICK q : q = [p EXCEPT !.cur = p.cur + 1, !.got = got]
  OBVIOUS
<1>7. /\ p.pc = "scan" /\ p \in ReadType /\ p.from \in Nat /\ Len(p.got) \in Nat
      /\ p.got \in Seq(AckType) /\ p.cur <= Len(recs[b]) /\ p.cur \in Nat
  BY <1>1, <1>2, ReaderType DEF ReadRecord
<1>8. rd' = [rd EXCEPT ![r] = q] /\ UNCHANGED <<disk, status, chain>>
  BY <1>1, <1>2, <1>3, <1>4, <1>5, <1>6 DEF ReadRecord, TypeInv, TypeOK
<1>9. /\ q.pc = "scan" /\ q.cur = p.cur + 1 /\ q.from = p.from /\ q.upto = p.upto
      /\ q.snap = p.snap /\ q.i = p.i /\ q.got = got
  BY <1>6, <1>7 DEF ReadType
<1>10. Reading(p)
  BY <1>1, <1>7 DEF ReadInv
<1>11. b \in files /\ b \in Nat /\ Len(recs[b]) \in Nat /\ recs[b] \in Seq(RecordType)
  <2>1. p.i \in 1 .. Len(segs) /\ b = segs[p.i]
    BY <1>2, <1>10, SegsType DEF Reading
  <2>2. b \in files
    BY <2>1, SegsFiles DEF Consistent
  <2> QED
    BY <2>2, Numbers
<1>12. p.cur \in 1 .. Len(recs[b]) /\ rec.off = b + p.cur - 1 /\ rec \in RecordType
  <2>1. p.cur \in 1 .. Len(recs[b])
    BY <1>2, <1>7, <1>10, <1>11 DEF Reading
  <2> QED
    BY <1>3, <1>11, <2>1, ElementOfSeq DEF Consistent, OnDisk, SequentialFiles
<1>13. x \in Written /\ x.off = rec.off /\ x \in AckType
  <2>1. x \in InFile(b)
    BY <1>3, <1>4, <1>12 DEF InFile
  <2> QED
    BY <1>4, <1>11, <1>12, <2>1 DEF Written, RecordType, AckType
<1>14. InStep(p, rec.off)
  BY <1>2, <1>7, <1>10, <1>12 DEF Reading
<1>15. /\ InStep(q, rec.off + 1)
       /\ \A k \in 1 .. Len(q.got) : q.got[k].off = q.from + k - 1 /\ q.got[k] \in Written
  <2>1. CASE rec.off >= p.from
    <3>1. got = Append(p.got, x)
      BY <1>5, <2>1
    <3>2. rec.off = p.from + Len(p.got)
      <4>1. CASE p.got = <<>> /\ rec.off <= p.from
        <5>1. Len(p.got) = 0
          BY <4>1, EmptySeq
        <5> QED
          BY <1>7, <1>11, <1>12, <2>1, <4>1, <5>1
      <4> QED
        BY <1>14, <4>1 DEF InStep
    <3>3. /\ Len(got) = Len(p.got) + 1 /\ got[Len(p.got) + 1] = x
          /\ \A k \in 1 .. Len(p.got) : got[k] = p.got[k]
      BY <1>7, <1>13, <3>1, AppendProperties
    <3>4. InStep(q, rec.off + 1)
      BY <1>7, <1>9, <3>2, <3>3 DEF InStep
    <3>5. ASSUME NEW k \in 1 .. Len(got) PROVE got[k].off = p.from + k - 1 /\ got[k] \in Written
      <4>1. CASE k \in 1 .. Len(p.got)
        BY <1>10, <3>3, <4>1 DEF Reading
      <4>2. CASE k = Len(p.got) + 1
        BY <1>7, <1>13, <3>2, <3>3, <4>2
      <4> QED
        BY <1>7, <3>3, <4>1, <4>2
    <3> QED
      BY <1>9, <3>4, <3>5
  <2>2. CASE ~ (rec.off >= p.from)
    <3>1. got = p.got
      BY <1>5, <2>2
    <3>2. p.got = <<>> /\ rec.off + 1 <= p.from
      BY <1>7, <1>11, <1>12, <1>14, <2>2 DEF InStep
    <3>3. InStep(q, rec.off + 1)
      BY <1>9, <3>1, <3>2 DEF InStep
    <3> QED
      BY <1>9, <1>10, <3>1, <3>3 DEF Reading
  <2> QED
    BY <2>1, <2>2
<1>16. q.cur \in 1 .. Len(recs[b]) + 1 /\ b + q.cur - 1 = rec.off + 1
  BY <1>9, <1>11, <1>12
<1>17. Reading(q)
  BY <1>2, <1>9, <1>10, <1>15, <1>16 DEF Reading
<1> QED
  BY <1>8, <1>9, <1>17, ReaderMoves

\* At the end of a segment the next one goes on where it ended.
LEMMA EofReads ==
    ASSUME TypeInv, Consistent, ReadInv, NEW r \in Readers, ReadEof(r)
    PROVE  ReadInv'
<1>1. PICK p : p = rd[r]
  OBVIOUS
<1>2. PICK b : b = p.snap[p.i]
  OBVIOUS
<1>3. /\ p.pc = "scan" /\ p \in ReadType /\ p.from \in Nat /\ Len(p.got) \in Nat /\ p.i \in Nat
      /\ p.upto \in Nat /\ Len(p.snap) \in Nat /\ p.cur \in Nat /\ p.cur > Len(recs[b])
      /\ UNCHANGED <<disk, status, chain>>
  BY <1>1, <1>2, ReaderType DEF ReadEof
<1>4. Reading(p)
  BY <1>1, <1>3 DEF ReadInv
<1>5. /\ p.i \in 1 .. Len(segs) /\ Len(segs) \in Nat /\ b = segs[p.i] /\ b \in Nat
      /\ Len(recs[b]) \in Nat /\ status = "up"
  <2>1. p.i \in 1 .. Len(segs) /\ Len(segs) \in Nat /\ b = segs[p.i]
    BY <1>2, <1>4, SegsType DEF Reading
  <2>2. b \in files
    BY <2>1, SegsFiles DEF Consistent
  <2> QED
    BY <1>4, <2>1, <2>2, Numbers DEF Reading
<1>6. InStep(p, b + Len(recs[b]))
  <2>1. p.cur = Len(recs[b]) + 1 /\ InStep(p, b + p.cur - 1)
    <3>1. p.cur \in 1 .. Len(recs[b]) + 1 /\ InStep(p, b + p.cur - 1)
      BY <1>2, <1>3, <1>4 DEF Reading
    <3> QED
      BY <1>3, <1>5, <3>1, SMTT(30)
  <2>2. b + p.cur - 1 = b + Len(recs[b])
    BY <1>5, <2>1
  <2> QED
    BY <2>1, <2>2
<1>7. CASE /\ p.i < Len(p.snap)
           /\ rd' = [rd EXCEPT ![r].pc = "open", ![r].i = @ + 1]
  <2>1. PICK q : q = [p EXCEPT !.pc = "open", !.i = p.i + 1]
    OBVIOUS
  <2>2. rd' = [rd EXCEPT ![r] = q]
    BY <1>1, <1>7, <2>1 DEF TypeInv, TypeOK
  <2>3. /\ q.pc = "open" /\ q.i = p.i + 1 /\ q.from = p.from /\ q.upto = p.upto
        /\ q.snap = p.snap /\ q.got = p.got
    BY <1>3, <2>1 DEF ReadType
  <2>4. p.i \in 1 .. Len(segs) - 1 /\ p.i + 1 \in 1 .. Len(p.snap) /\ q.snap[q.i] = segs[p.i + 1]
    <3>1. Len(p.snap) \in 1 .. Len(segs) /\ \A j \in 1 .. Len(p.snap) : p.snap[j] = segs[j]
      BY <1>4 DEF Reading
    <3>2. p.i \in 1 .. Len(segs) - 1 /\ p.i + 1 \in 1 .. Len(p.snap)
      BY <1>3, <1>5, <1>7, <3>1
    <3> QED
      BY <2>3, <3>1, <3>2
  <2>5. q.snap[q.i] = b + Len(recs[b])
    BY <1>5, <2>4, SegsChained
  <2>6. InStep(q, q.snap[q.i])
    BY <1>6, <2>3, <2>5 DEF InStep
  <2>7. Reading(q)
    BY <1>4, <2>3, <2>4, <2>6 DEF Reading
  <2> QED
    BY <1>3, <2>2, <2>3, <2>7, ReaderMoves
<1>8. CASE /\ p.i = Len(p.snap)
           /\ rd' = [rd EXCEPT ![r].pc = "done"]
  <2>1. PICK q : q = [p EXCEPT !.pc = "done"]
    OBVIOUS
  <2>2. rd' = [rd EXCEPT ![r] = q]
    BY <1>1, <1>8, <2>1 DEF TypeInv, TypeOK
  <2>3. /\ q.pc = "done" /\ q.i = p.i /\ q.from = p.from /\ q.upto = p.upto
        /\ q.snap = p.snap /\ q.got = p.got
    BY <1>3, <2>1 DEF ReadType
  <2>4. p.upto <= b + Len(recs[b])
    BY <1>2, <1>4, <1>8 DEF Reading
  <2>5. q.upto <= q.from + Len(q.got)
    <3>1. CASE p.got = <<>> /\ b + Len(recs[b]) <= p.from
      <4>1. Len(p.got) = 0
        BY <3>1, EmptySeq
      <4> QED
        BY <1>3, <1>5, <2>3, <2>4, <3>1, <4>1
    <3> QED
      BY <1>6, <2>3, <2>4, <3>1 DEF InStep
  <2>6. Reading(q)
    BY <1>4, <2>3, <2>5 DEF Reading
  <2> QED
    BY <1>3, <2>2, <2>3, <2>6, ReaderMoves
<1> QED
  BY <1>1, <1>7, <1>8 DEF ReadEof

\* What was not counted as a fault was none.
LEMMA FaultFree ==
    ASSUME TypeInv, [Next]_vars, faults' = 0
    PROVE  faults = 0 /\ \A t \in Threads : ~ FlushFails(t) /\ ~ CreateFails(t)
<1>1. faults \in Nat
  BY BoundsAssumption DEF TypeInv, TypeOK
<1>2. \A t \in Threads : ~ FlushFails(t) /\ ~ CreateFails(t)
  <2>1. \A t \in Threads : FlushFails(t) \/ CreateFails(t) => faults' = faults + 1
    BY DEF FlushFails, CreateFails
  <2> QED
    BY <1>1, <2>1
<1>3. ASSUME faults # faults' PROVE FALSE
  <2>1. Next /\ ~ UNCHANGED faults
    BY <1>3 DEF vars, bounds
  <2>2. ~ (Recover \/ Sync \/ Close \/ ProcessCrash \/ PowerLoss)
    BY <2>1 DEF Recover, Start, RecoverBegin, RecoverRecord, RecoverEnd, RecoverJunk, OpenEnd, Sync,
                Close, ProcessCrash, PowerLoss, bounds
  <2>3. \A t \in Threads : ~ (RollBegin(t) \/ Proceed(t) \/ FlushPartly(t)
                              \/ \E v \in Values : AppendBegin(t, v))
    BY <2>1 DEF RollBegin, AppendBegin, Proceed, Seal, Create, WriteBegin, WriteRejected, Flush,
                Bury, AppendReturns, AppendMismatch, FlushPartly, bounds
  <2>4. \A r \in Readers : ~ (ReadStep(r) \/ \E o \in Offsets : ReadBegin(r, o))
    BY <2>1 DEF ReadStep, ReadBegin, ReadOpen, ReadRecord, ReadEof, bounds
  <2> QED
    BY <1>2, <2>1, <2>2, <2>3, <2>4 DEF Next, Fail
<1> QED
  BY <1>2, <1>3

\* Memory lost is a log with no chain and no reader.
LEMMA ReadsLost == ASSUME LoseMemory PROVE IndexInv' /\ ReadInv'
<1>1. segs' = <<>> /\ Len(segs') = 0
  BY EmptySeq DEF LoseMemory
<1>2. \A r \in Readers : rd'[r].pc = "idle" /\ rd'[r].got = <<>>
  BY DEF LoseMemory, NoRead
<1> QED
  BY <1>1, <1>2 DEF IndexInv, ReadInv

\* The steps that are not a reader's leave every read where it is.
LEMMA ReadersRest ==
    ASSUME TypeInv, TypeInv', Consistent, Onward, ReadInv, rd' = rd
    PROVE  ReadInv'
<1>1. ASSUME NEW r \in Readers
      PROVE  IF rd'[r].pc = "idle" THEN rd'[r].got = <<>> ELSE Reading(rd[r])'
  <2>1. IF rd[r].pc = "idle" THEN rd[r].got = <<>> ELSE Reading(rd[r])
    BY DEF ReadInv
  <2> QED
    BY <2>1, ReadingStays
<1> QED
  BY <1>1 DEF ReadInv

\* No file, no chain and no reader to begin with.
LEMMA ReadsInit == Init => IndexInv /\ ReadInv
<1> SUFFICES ASSUME Init PROVE IndexInv /\ ReadInv
  OBVIOUS
<1>1. Len(segs) = 0
  BY EmptySeq DEF Init
<1>2. \A r \in Readers : rd[r].pc = "idle" /\ rd[r].got = <<>>
  BY DEF Init, NoRead
<1> QED
  BY <1>1, <1>2 DEF IndexInv, ReadInv

ReadsTrue == faults = 0 => IndexInv /\ ReadInv

\* Every step leaves the index and the reads true, until a write fails.
LEMMA ReadsNext == TypeInv /\ TypeInv' /\ Kept /\ Safe /\ ReadsTrue /\ [Next]_vars => ReadsTrue'
<1> SUFFICES ASSUME TypeInv, TypeInv', Kept, Safe, ReadsTrue, [Next]_vars, faults' = 0
             PROVE  IndexInv' /\ ReadInv'
  BY DEF ReadsTrue
<1>1. faults = 0 /\ \A t \in Threads : ~ FlushFails(t) /\ ~ CreateFails(t)
  BY FaultFree
<1>2. Consistent /\ IndexInv /\ ReadInv
  BY <1>1 DEF Safe, Consistent, ReadsTrue
<1>3. CASE ProcessCrash \/ PowerLoss
  <2>1. LoseMemory
    BY <1>3 DEF ProcessCrash, PowerLoss
  <2> QED
    BY <2>1, ReadsLost
<1>4. CASE ~ (ProcessCrash \/ PowerLoss)
  <2>1. Onward /\ IndexInv'
    BY <1>1, <1>2, <1>4, StepOnward
  <2>2. ASSUME NEW r \in Readers, ReadStep(r) \/ \E o \in Offsets : ReadBegin(r, o)
        PROVE  ReadInv'
    BY <1>2, <2>2, BeginReads, OpenReads, RecordReads, EofReads DEF ReadStep
  <2>3. CASE \A r \in Readers : ~ (ReadStep(r) \/ \E o \in Offsets : ReadBegin(r, o))
    <3>1. CASE Recover \/ Sync \/ Close
      <4>1. rd' = rd
        BY <3>1 DEF Recover, Start, RecoverBegin, RecoverRecord, RecoverEnd, RecoverJunk, OpenEnd,
                    Sync, Close
      <4> QED
        BY <1>2, <2>1, <4>1, ReadersRest
    <3>2. ASSUME NEW t \in Threads,
                 RollBegin(t) \/ (\E v \in Values : AppendBegin(t, v)) \/ Proceed(t) \/ Fail(t)
          PROVE  ReadInv'
      <4>1. rd' = rd
        BY <1>1, <3>2 DEF RollBegin, AppendBegin, Proceed, Seal, Create, WriteBegin, WriteRejected,
                          Flush, Bury, AppendReturns, AppendMismatch, Fail, FlushPartly
      <4> QED
        BY <1>2, <2>1, <4>1, ReadersRest
    <3>3. CASE UNCHANGED vars
      <4>1. rd' = rd
        BY <3>3 DEF vars
      <4> QED
        BY <1>2, <2>1, <4>1, ReadersRest
    <3>4. \/ Recover \/ Sync \/ Close
          \/ \E t \in Threads : RollBegin(t) \/ (\E v \in Values : AppendBegin(t, v))
                                \/ Proceed(t) \/ Fail(t)
          \/ UNCHANGED vars
      BY <1>4, <2>3 DEF Next
    <3> QED
      BY <2>1, <3>1, <3>2, <3>3, <3>4
  <2> QED
    BY <2>1, <2>2, <2>3
<1> QED
  BY <1>3, <1>4

\* So they are true throughout.
LEMMA ReadsInvariant == Spec => [](TypeInv /\ Kept /\ Safe /\ ReadsTrue)
<1>1. Init => ReadsTrue
  BY ReadsInit DEF ReadsTrue
<1>2. Spec => [](TypeInv /\ Kept /\ Safe)
  BY KeptInvariant, SafeInvariant, PTL
<1>3. TypeInv /\ Kept /\ Safe /\ ReadsTrue /\ [Next]_vars => ReadsTrue'
  BY TypeNext, ReadsNext
<1> QED
  BY <1>1, <1>2, <1>3, PTL DEF Spec

\* Every entry of the index of an open segment (Index.maybe_append, called by
\* Segment.append and by the scan of Segment._recover) is the start of a record
\* of that offset, and entries increase, until a write fails: a seek that trusts
\* the entry lands on a record.
THEOREM IndexLeadsHome == Spec => [](faults = 0 => IndexSound)
<1>1. ASSUME TypeInv, Consistent, IndexInv PROVE IndexSound
  <2> SUFFICES ASSUME NEW k \in 1 .. Len(segs), NEW b, b = segs[k]
               PROVE  /\ \A i \in DOMAIN index[b] : \E j \in DOMAIN recs[b] :
                          /\ recs[b][j].off = index[b][i].off
                          /\ recs[b][j].pos = index[b][i].pos
                      /\ \A i, j \in DOMAIN index[b] : i < j => index[b][i].off < index[b][j].off
    <3>1. DOMAIN segs = 1 .. Len(segs)
      BY <1>1, SegsType
    <3> QED
      BY <3>1 DEF IndexSound
  <2>1. b \in files /\ b \in Offsets /\ b \in Nat /\ Indexed(b)
    BY <1>1, SegsFiles DEF IndexInv, Consistent
  <2>2. DOMAIN index[b] = 1 .. Len(index[b])
    BY <1>1, <2>1, IndexType, LenProperties
  <2>3. DOMAIN recs[b] = 1 .. Len(recs[b]) /\ Len(recs[b]) \in Nat
    BY <1>1, <2>1, Numbers, LenProperties
  <2>4. ASSUME NEW i \in 1 .. Len(index[b])
        PROVE  \E j \in 1 .. Len(recs[b]) : /\ recs[b][j].off = index[b][i].off
                                            /\ recs[b][j].pos = index[b][i].pos
    <3>1. PICK e : e = index[b][i]
      OBVIOUS
    <3>2. /\ e.off \in Nat /\ b <= e.off /\ e.off < b + Len(recs[b])
          /\ recs[b][e.off - b + 1].pos = e.pos
      BY <1>1, <2>1, <3>1, IndexType DEF Indexed
    <3>3. PICK j \in 1 .. Len(recs[b]) : j = e.off - b + 1
      BY <2>1, <2>3, <3>2
    <3>4. recs[b][j].off = b + j - 1
      BY <1>1, <2>1, <3>3 DEF Consistent, OnDisk, SequentialFiles
    <3>5. b + j - 1 = e.off
      BY <2>1, <3>2, <3>3, SMTT(30)
    <3> QED
      BY <3>1, <3>2, <3>3, <3>4, <3>5
  <2> QED
    BY <2>1, <2>2, <2>3, <2>4 DEF Indexed
<1>2. TypeInv /\ Kept /\ Safe /\ ReadsTrue => (faults = 0 => IndexSound)
  BY <1>1 DEF Safe, Consistent, ReadsTrue
<1> QED
  BY <1>2, ReadsInvariant, PTL

\* Whatever a read of Log._iter_from has yielded is a run of records that are in
\* the files, from the offset asked for, without a gap or a repetition: the read
\* holds no lock, and meanwhile records are appended, the tail is sealed and
\* segments are started.  Until a write fails.
THEOREM ReadsClean == Spec => [](faults = 0 => CleanRead)
<1>1. ASSUME TypeInv, ReadInv PROVE CleanRead
  <2> SUFFICES ASSUME NEW r \in Readers, NEW k \in DOMAIN rd[r].got
               PROVE  rd[r].got[k].off = rd[r].from + k - 1 /\ rd[r].got[k] \in Written
    BY DEF CleanRead
  <2>1. k \in 1 .. Len(rd[r].got) /\ rd[r].got # <<>>
    BY <1>1, ReaderType, LenProperties, EmptySeq
  <2>2. Reading(rd[r])
    BY <1>1, <2>1 DEF ReadInv
  <2> QED
    BY <2>1, <2>2 DEF Reading
<1>2. TypeInv /\ Kept /\ Safe /\ ReadsTrue => (faults = 0 => CleanRead)
  BY <1>1 DEF ReadsTrue
<1> QED
  BY <1>2, ReadsInvariant, PTL

\* Two records of one offset are one record.
LEMMA OneOfEach ==
    ASSUME TypeInv, OnDisk, NEW x \in Written, NEW y \in Written, x.off = y.off
    PROVE  x = y
<1>1. PICK b \in files : x \in InFile(b)
  BY DEF Written
<1>2. PICK c \in files : y \in InFile(c)
  BY DEF Written
<1>3. /\ b \in Nat /\ c \in Nat /\ Len(recs[b]) \in Nat /\ Len(recs[c]) \in Nat
      /\ x.off \in Nat /\ b <= x.off /\ x.off < b + Len(recs[b])
      /\ c <= x.off /\ x.off < c + Len(recs[c])
  BY <1>1, <1>2, FileRun, Numbers
<1>4. (b < c => b + Len(recs[b]) <= c) /\ (c < b => c + Len(recs[c]) <= b)
  BY DEF OnDisk, ChainedFiles
<1>5. b = c
  BY <1>3, <1>4
<1> QED
  BY <1>1, <1>2, <1>5, FileRun

\* A read that has ended has yielded every record from its start on whose
\* append had returned when it copied the chain (Log._iter_from), also when the
\* tail of the copy was sealed while it read.  Until a write fails.
THEOREM ReadsComplete == Spec => [](faults = 0 => ReadSeesAcked)
<1>1. ASSUME TypeInv, Consistent, AckedOnDisk, ReadInv PROVE ReadSeesAcked
  <2> SUFFICES ASSUME NEW r \in Readers, rd[r].pc = "done", NEW x \in acked,
                      rd[r].from <= x.off, x.off < rd[r].upto
               PROVE  \E k \in DOMAIN rd[r].got : rd[r].got[k] = x
    BY DEF ReadSeesAcked
  <2>1. PICK q : q = rd[r]
    OBVIOUS
  <2>2. /\ Len(q.got) \in Nat /\ q.from \in Nat /\ q.upto \in Nat
        /\ DOMAIN q.got = 1 .. Len(q.got)
    BY <1>1, <2>1, ReaderType, LenProperties
  <2>3. Reading(q) /\ q.pc = "done"
    BY <1>1, <2>1 DEF ReadInv
  <2>4. x \in Written /\ x.off \in Nat
    BY <1>1 DEF AckedOnDisk, TypeInv, TypeOK, AckType
  <2>5. q.upto <= q.from + Len(q.got)
    BY <2>3 DEF Reading
  <2>6. PICK k \in 1 .. Len(q.got) : k = x.off - q.from + 1
    BY <2>1, <2>2, <2>4, <2>5
  <2>7. q.got[k].off = q.from + k - 1 /\ q.got[k] \in Written
    BY <2>3 DEF Reading
  <2>8. q.from + k - 1 = x.off
    BY <2>2, <2>4, <2>6
  <2>9. q.got[k] = x
    BY <1>1, <2>4, <2>7, <2>8, OneOfEach DEF Consistent
  <2> QED
    BY <2>1, <2>2, <2>9
<1>2. TypeInv /\ Kept /\ Safe /\ ReadsTrue => (faults = 0 => ReadSeesAcked)
  BY <1>1 DEF Kept, KeptRecords, Safe, Consistent, ReadsTrue
<1> QED
  BY <1>2, ReadsInvariant, PTL

=============================================================================
