------------------------------- MODULE Topic -------------------------------
(***************************************************************************)
(* Topic (topic/topic.py) with its SyncPolicy (topic/policy.py) and the    *)
(* keys of its Partitioner (topic/partitioner.py): the registry of open    *)
(* topics, topic.json, and when an append is fsynced.                      *)
(*                                                                         *)
(* Store and the admin API call it from several worker threads.  A step    *)
(* here is what a thread does between two points where another may run:    *)
(* the RLock, a blocking call on a file, and the calls between which the   *)
(* interpreter may switch threads ("appends += 1" and the read of appends  *)
(* for should_sync have no call between them, so they are one step).       *)
(*                                                                         *)
(* A Log is what DurableLog promises: what was written, how much of it is  *)
(* fsynced, and whether this handle on it is open.                         *)
(***************************************************************************)
EXTENDS Integers, FiniteSets

CONSTANTS
    Topics, Threads,
    Keys,               \* record keys
    NoKey,              \* a record without one
    Hash,               \* key -> crc32
    Counts,             \* partition counts a create may ask for, 0 standing for None
    DefaultPartitions,  \* PYKA_PARTITIONS
    Owned,              \* the <<topic, partition>> that owns() is true of
    SyncRecords,        \* SyncPolicy.records, 0 standing for None
    TimeBound,          \* is SyncPolicy.millis given?
    MaxAppends,         \* bound: calls of append
    MaxCalls,           \* bound: calls that are not appends
    MaxRestarts,        \* bound: restarts of the process
    MaxErrors           \* bound: opens, fsyncs and closes that raise

ASSUME CountsAssumption == DefaultPartitions \in Nat \ {0} /\ Counts \subseteq Nat
ASSUME KeysAssumption   == NoKey \notin Keys /\ Hash \in [Keys -> Nat]
ASSUME PolicyAssumption == SyncRecords \in Nat /\ TimeBound \in BOOLEAN
ASSUME TopicsAssumption == Topics # {} /\ IsFiniteSet(Threads) /\ "nobody" \notin Threads
ASSUME TopicBounds      == /\ MaxAppends \in Nat /\ MaxCalls \in Nat
                           /\ MaxRestarts \in Nat /\ MaxErrors \in Nat

VARIABLES
    meta,      \* topic -> partitions in its topic.json, or Absent or Torn
    written,   \* <<topic, partition>> -> records the operating system has
    synced,    \* <<topic, partition>> -> records of them that are fsynced
    cache,     \* Topic._open: topic -> its count and which opening it is
    entry,     \* _Partition: <<topic, partition, opening>> -> counter and handle
    lock,      \* holder of Topic._lock
    call,      \* thread -> the call it runs, and its locals
    boot,      \* topics Store.open has yet to recover
    status,    \* of the process
    closing,   \* Topic.close: the entries still to close, and those that failed
    acked,     \* history: <<topic, partition, offset>> of appends that returned
    homes,     \* history: <<topic, key, partition>> of the records written
    appends, calls, restarts, errors

disk  == <<meta, written, synced>>
store == <<cache, entry>>
past  == <<acked, homes>>
used  == <<appends, calls, restarts>>
vars  == <<disk, store, lock, call, boot, status, closing, past, used, errors>>

Nobody  == "nobody"
Absent  == 0
Torn    == -1
Parts   == UNION {0 .. n - 1 : n \in Counts \cup {DefaultPartitions}}
Logs    == Topics \X Parts
Serving == status \in {"booting", "up"}

NotOpen == [n |-> 0, opening |-> 0]
\* todo: the entries it has yet to fsync; off: the offset its append got.
Idle    == [pc |-> "idle", op |-> "none", topic |-> CHOOSE t \in Topics : TRUE, key |-> NoKey,
            count |-> 0, seen |-> NotOpen, todo |-> {}, off |-> 0]

Init ==
    /\ meta = [t \in Topics |-> Absent]
    /\ written = [l \in Logs |-> 0] /\ synced = [l \in Logs |-> 0]
    /\ cache = [t \in Topics |-> NotOpen] /\ entry = [e \in {} |-> 0]
    /\ lock = Nobody
    /\ call = [i \in Threads |-> Idle]
    /\ boot = {} /\ status = "up"
    /\ closing = [left |-> {}, failed |-> {}]
    /\ acked = {} /\ homes = {}
    /\ appends = 0 /\ calls = 0 /\ restarts = 0 /\ errors = 0

-----------------------------------------------------------------------------
(* Names and partitions.                                                   *)

\* Partitioner.partition_for: a key's place; a record without one goes to the
\* next in turn, which the threads advance unsynchronised - to any of them.
PartitionFor(key, n) == IF key = NoKey THEN 0 .. n - 1 ELSE {Hash[key] % n}

\* Is Topic._lock free?  (Variant: no lock.)
Free_Always == TRUE
Free == lock = Nobody

LogOf(e) == <<e[1], e[2]>>

\* The entries of the topics in Topic._open.
Cached == {e \in DOMAIN entry : cache[e[1]].opening = e[3]}

\* An open, fsync or close raises.
Fail == errors < MaxErrors /\ errors' = errors + 1

\* A worker thread is given a call; Store.open makes its own one at a time.
Start(i, c) == call[i] = Idle /\ call' = [call EXCEPT ![i] = c]

CallAppend(i) ==
    /\ Serving /\ appends < MaxAppends
    /\ appends' = appends + 1
    /\ \E t \in Topics, k \in Keys \cup {NoKey} :
           Start(i, [Idle EXCEPT !.pc = "enter", !.op = "append", !.topic = t, !.key = k])
    /\ UNCHANGED <<disk, store, lock, boot, status, closing, past, calls, restarts, errors>>

CallOther(i) ==
    /\ Serving /\ calls < MaxCalls
    /\ calls' = calls + 1
    /\ \E t \in Topics : \/ Start(i, [Idle EXCEPT !.pc = "enter", !.op = "get", !.topic = t])
                         \/ \E n \in Counts :
                                Start(i, [Idle EXCEPT !.pc = "enter", !.op = "create",
                                                      !.topic = t, !.count = n])
                         \/ Start(i, [Idle EXCEPT !.pc = "snapshot", !.op = "sync"])
    /\ UNCHANGED <<disk, store, lock, boot, status, closing, past, appends, restarts, errors>>

\* Store.open: create(name) for every name that was on the disk.
CallBoot(i) ==
    /\ status = "booting"
    /\ \A j \in Threads : call[j].op # "boot"
    /\ \E t \in boot : Start(i, [Idle EXCEPT !.pc = "enter", !.op = "boot", !.topic = t])
    /\ UNCHANGED <<disk, store, lock, boot, status, closing, past, used, errors>>

Booted ==
    /\ status = "booting" /\ boot = {}
    /\ status' = "up"
    /\ UNCHANGED <<disk, store, lock, call, boot, closing, past, used, errors>>

\* A call returns: who waits for an append that returns after the shutdown
\* began is gone.
Return(i) ==
    /\ call' = [call EXCEPT ![i] = Idle]
    /\ boot' = IF call[i].op = "boot" THEN boot \ {call[i].topic} ELSE boot

Ack(i, l) == acked' = IF Serving THEN acked \cup {<<l[1], l[2], call[i].off>>} ELSE acked

\* The process is gone, and with it all that was in memory; what was written
\* stays with the operating system.
Gone(s) ==
    /\ status' = s
    /\ cache' = [t \in Topics |-> NotOpen] /\ entry' = [e \in {} |-> 0]
    /\ lock' = Nobody /\ call' = [i \in Threads |-> Idle]
    /\ boot' = {} /\ closing' = [left |-> {}, failed |-> {}]
    /\ UNCHANGED <<disk, past, used>>

\* A call raises.  When it is one of Store.open's, serve() ends with it.
Raise(i) ==
    \/ call[i].op # "boot" /\ call' = [call EXCEPT ![i] = Idle]
       /\ lock' = (IF lock = i THEN Nobody ELSE lock)
       /\ UNCHANGED <<disk, store, boot, status, closing, past, used>>
    \/ call[i].op = "boot" /\ Gone("failed")

-----------------------------------------------------------------------------
(* create, get and the lookup of append: _open_locked under the lock.      *)

\* Where a call goes once its topic is open.
Found(i, seen) ==
    IF call[i].op = "append"
    THEN call' = [call EXCEPT ![i].pc = "route", ![i].seen = seen] /\ UNCHANGED boot
    ELSE Return(i)

EnterHit(i) ==
    /\ call[i].pc = "enter" /\ Free
    /\ cache[call[i].topic] # NotOpen
    /\ Found(i, cache[call[i].topic])
    /\ UNCHANGED <<disk, store, lock, status, closing, past, used, errors>>

EnterMiss(i) ==
    /\ call[i].pc = "enter" /\ Free
    /\ cache[call[i].topic] = NotOpen
    /\ lock' = i
    /\ call' = [call EXCEPT ![i].pc = "open"]
    /\ UNCHANGED <<disk, store, boot, status, closing, past, used, errors>>

\* An empty topic.json is no JSON; _topic does not create what it does not find.
OpenRaises(i) ==
    /\ call[i].pc = "open"
    /\ LET m == meta[call[i].topic] IN m = Torn \/ (m = Absent /\ call[i].op = "get")
    /\ Raise(i) /\ UNCHANGED errors

\* _read_meta: what is on the disk counts, whatever the caller asked for.
\* (Variants: create re-partitions; topic.json is written at every opening.)
OpenKnown_Asked(i) ==
    /\ call[i].pc = "open" /\ meta[call[i].topic] > 0
    /\ call' = [call EXCEPT ![i].pc = "logs",
                             ![i].count = IF @ = 0 THEN meta[call[i].topic] ELSE @]
    /\ UNCHANGED <<disk, store, lock, boot, status, closing, past, used, errors>>

OpenKnown_Rewrites(i) ==
    /\ call[i].pc = "open" /\ meta[call[i].topic] > 0
    /\ call' = [call EXCEPT ![i].pc = "write", ![i].count = meta[call[i].topic]]
    /\ meta' = [meta EXCEPT ![call[i].topic] = Torn]
    /\ UNCHANGED <<written, synced, store, lock, boot, status, closing, past, used, errors>>

OpenKnown(i) ==
    /\ call[i].pc = "open" /\ meta[call[i].topic] > 0
    /\ call' = [call EXCEPT ![i].pc = "logs", ![i].count = meta[call[i].topic]]
    /\ UNCHANGED <<disk, store, lock, boot, status, closing, past, used, errors>>

\* _write_meta: write_text opens the file, which empties it, and then writes.
OpenNew(i) ==
    /\ call[i].pc = "open" /\ meta[call[i].topic] = Absent /\ call[i].op # "get"
    /\ meta' = [meta EXCEPT ![call[i].topic] = Torn]
    /\ call' = [call EXCEPT ![i].pc = "write",
                             ![i].count = IF @ = 0 THEN DefaultPartitions ELSE @]
    /\ UNCHANGED <<written, synced, store, lock, boot, status, closing, past, used, errors>>

WriteMeta(i) ==
    /\ call[i].pc = "write"
    /\ meta' = [meta EXCEPT ![call[i].topic] = call[i].count]
    /\ call' = [call EXCEPT ![i].pc = "logs"]
    /\ UNCHANGED <<written, synced, store, lock, boot, status, closing, past, used, errors>>

\* The Logs of the partitions that are ours, and the topic is open.
OpenLogs(i) ==
    LET t   == call[i].topic
        k   == Cardinality({e[3] : e \in {d \in DOMAIN entry : d[1] = t}}) + 1
        new == {<<t, p, k>> : p \in {q \in 0 .. call[i].count - 1 : <<t, q>> \in Owned}}
        seen == [n |-> call[i].count, opening |-> k]
    IN
    /\ call[i].pc = "logs"
    /\ entry' = [e \in DOMAIN entry \cup new |->
                    IF e \in new THEN [appends |-> 0, open |-> TRUE] ELSE entry[e]]
    /\ cache' = [cache EXCEPT ![t] = seen]
    /\ lock' = Nobody
    /\ Found(i, seen)
    /\ UNCHANGED <<disk, status, closing, past, used, errors>>

\* A Log does not open; those opened before it are dropped with the exception.
LogsRaise(i) == call[i].pc = "logs" /\ Fail /\ Raise(i)

-----------------------------------------------------------------------------
(* append, past the lookup, and sync.                                      *)

NotLocal(i) ==
    /\ call[i].pc = "route"
    /\ \E p \in PartitionFor(call[i].key, call[i].seen.n) : <<call[i].topic, p>> \notin Owned
    /\ Raise(i) /\ UNCHANGED errors

\* The record reaches the file of partition p, and has yet to be counted.
Land(i, p) ==
    LET l == <<call[i].topic, p>> IN
    /\ written' = [written EXCEPT ![l] = @ + 1]
    /\ call' = [call EXCEPT ![i].pc = "count", ![i].todo = {<<call[i].topic, p, call[i].seen.opening>>},
                            ![i].off = written[l]]
    /\ homes' = IF call[i].key = NoKey THEN homes ELSE homes \cup {<<call[i].topic, call[i].key, p>>}

\* Log.append.
Append(i) ==
    /\ call[i].pc = "route"
    /\ \E p \in PartitionFor(call[i].key, call[i].seen.n) :
        /\ <<call[i].topic, p>> \in Owned
        /\ entry[<<call[i].topic, p, call[i].seen.opening>>].open
        /\ Land(i, p)
    /\ UNCHANGED <<meta, synced, store, lock, boot, status, closing, acked, used, errors>>

\* Log.append on a handle that shutdown has closed since: the write to the closed
\* tail raises.
AppendClosed(i) ==
    /\ call[i].pc = "route"
    /\ \E p \in PartitionFor(call[i].key, call[i].seen.n) :
        LET e == <<call[i].topic, p, call[i].seen.opening>> IN
        e \in DOMAIN entry /\ ~ entry[e].open
    /\ Raise(i) /\ UNCHANGED errors

\* Or the closed tail is full: append rolls, for which close is done already, and
\* the Log writes on, to a new segment.
AppendRolls(i) ==
    /\ call[i].pc = "route"
    /\ \E p \in PartitionFor(call[i].key, call[i].seen.n) :
        LET e == <<call[i].topic, p, call[i].seen.opening>> IN
        /\ e \in DOMAIN entry /\ ~ entry[e].open
        /\ entry' = [entry EXCEPT ![e].open = TRUE]
        /\ Land(i, p)
    /\ UNCHANGED <<meta, synced, cache, lock, boot, status, closing, acked, used, errors>>

\* The entries of a list or a dict, one after the other.
First(es) == CHOOSE e \in es : TRUE

\* SyncPolicy.should_sync; late: more than millis since the last fsync.
\* (Variant: > for >=.)
Due_Exceeds(n, late) == (SyncRecords # 0 /\ n > SyncRecords) \/ late
Due(n, late) == (SyncRecords # 0 /\ n >= SyncRecords) \/ late

\* appends += 1, and should_sync of it.
Count(i) ==
    LET e == First(call[i].todo) IN
    /\ call[i].pc = "count"
    /\ entry' = [entry EXCEPT ![e].appends = @ + 1]
    /\ \E late \in IF TimeBound THEN BOOLEAN ELSE {FALSE} :
        \/ Due(entry[e].appends + 1, late)
           /\ call' = [call EXCEPT ![i].pc = "sync"] /\ UNCHANGED <<boot, acked>>
        \/ ~ Due(entry[e].appends + 1, late) /\ Ack(i, LogOf(e)) /\ Return(i)
    /\ UNCHANGED <<disk, cache, lock, status, closing, homes, used, errors>>

\* Topic.sync: the entries there are.
Snapshot(i) ==
    /\ call[i].pc = "snapshot" /\ Free
    /\ call' = [call EXCEPT ![i] = IF Cached = {} THEN Idle
                                   ELSE [@ EXCEPT !.pc = "sync", !.todo = Cached]]
    /\ UNCHANGED <<disk, store, lock, boot, status, closing, past, used, errors>>

\* Log.sync.
Sync(i) ==
    LET e == First(call[i].todo) IN
    /\ call[i].pc = "sync" /\ entry[e].open
    /\ synced' = [synced EXCEPT ![LogOf(e)] = written[LogOf(e)]]
    /\ call' = [call EXCEPT ![i].pc = "mark"]
    /\ UNCHANGED <<meta, written, store, lock, boot, status, closing, past, used, errors>>

SyncRaises(i) ==
    /\ call[i].pc = "sync"
    /\ \/ ~ entry[First(call[i].todo)].open /\ UNCHANGED errors
       \/ Fail
    /\ Raise(i)

\* mark_synced: the counter goes to 0, whatever was appended since the fsync.
\* (Variant: it only takes off what made the fsync due.)
Reset_Subtracts(n) == n - SyncRecords
Reset(n) == 0
Mark(i) ==
    LET e    == First(call[i].todo)
        rest == call[i].todo \ {e} IN
    /\ call[i].pc = "mark"
    /\ entry' = [entry EXCEPT ![e].appends = Reset(@)]
    /\ IF rest # {}
       THEN call' = [call EXCEPT ![i].pc = "sync", ![i].todo = rest] /\ UNCHANGED <<boot, acked>>
       ELSE Return(i) /\ IF call[i].op = "append" THEN Ack(i, LogOf(e)) ELSE UNCHANGED acked
    /\ UNCHANGED <<disk, cache, lock, status, closing, homes, used, errors>>

-----------------------------------------------------------------------------
(* close, and the process.                                                 *)

CloseBegins ==
    /\ status = "up" /\ Free
    /\ status' = "closing" /\ closing' = [left |-> Cached, failed |-> {}]
    /\ UNCHANGED <<disk, store, lock, call, boot, past, used, errors>>

\* Log.close fsyncs.
CloseLog ==
    LET e == First(closing.left) IN
    /\ closing.left # {}
    /\ synced' = [synced EXCEPT ![LogOf(e)] = written[LogOf(e)]]
    /\ entry' = [entry EXCEPT ![e].open = FALSE]
    /\ closing' = [closing EXCEPT !.left = @ \ {e}]
    /\ UNCHANGED <<meta, written, cache, lock, call, boot, status, past, used, errors>>

\* (Variant: the first error ends it.)
CloseRaises_Stops ==
    LET e == First(closing.left) IN
    /\ closing.left # {} /\ Fail
    /\ closing' = [left |-> {}, failed |-> closing.failed \cup {e}]
    /\ UNCHANGED <<disk, store, lock, call, boot, status, past, used>>

\* "one bad partition must not stop the other twenty from reaching disk"
CloseRaises ==
    LET e == First(closing.left) IN
    /\ closing.left # {} /\ Fail
    /\ closing' = [left |-> closing.left \ {e}, failed |-> closing.failed \cup {e}]
    /\ UNCHANGED <<disk, store, lock, call, boot, status, past, used>>

CloseEnds ==
    /\ status = "closing" /\ closing.left = {} /\ Free
    /\ status' = "closed"
    /\ cache' = [t \in Topics |-> NotOpen]
    /\ UNCHANGED <<disk, entry, lock, call, boot, closing, past, used, errors>>

\* A crash; or the process ends, which waits for its worker threads.
Exit ==
    /\ \/ Serving \/ status = "closing"
       \/ status = "closed" /\ \A i \in Threads : call[i] = Idle
    /\ Gone("down") /\ UNCHANGED errors

\* Topic.names: a topic is a directory with a topic.json.
Restart ==
    /\ status \in {"down", "failed"} /\ restarts < MaxRestarts
    /\ restarts' = restarts + 1
    /\ status' = "booting" /\ boot' = {t \in Topics : meta[t] # Absent}
    /\ UNCHANGED <<disk, store, lock, call, closing, past, appends, calls, errors>>

ThreadStep(i) ==
    \/ CallAppend(i) \/ CallOther(i) \/ CallBoot(i)
    \/ EnterHit(i) \/ EnterMiss(i) \/ OpenRaises(i) \/ OpenKnown(i) \/ OpenNew(i)
    \/ WriteMeta(i) \/ OpenLogs(i) \/ LogsRaise(i)
    \/ NotLocal(i) \/ Append(i) \/ AppendClosed(i) \/ AppendRolls(i) \/ Count(i)
    \/ Snapshot(i) \/ Sync(i) \/ SyncRaises(i) \/ Mark(i)

ProcessStep == Booted \/ CloseBegins \/ CloseLog \/ CloseRaises \/ CloseEnds \/ Exit \/ Restart

Next == (\E i \in Threads : ThreadStep(i)) \/ ProcessStep

Spec == Init /\ [][Next]_vars

-----------------------------------------------------------------------------
(* Properties.                                                             *)

\* The disk, the open topic, its Logs and the locals of the threads have their
\* types.
TypeOK ==
    /\ meta \in [Topics -> {Absent, Torn, DefaultPartitions} \cup Counts]
    /\ written \in [Logs -> Nat] /\ synced \in [Logs -> Nat]
    /\ \A l \in Logs : synced[l] <= written[l]
    /\ \A e \in DOMAIN entry : /\ LogOf(e) \in Logs /\ e[3] \in Nat \ {0}
                              /\ entry[e].appends \in Nat /\ entry[e].open \in BOOLEAN
    /\ lock \in Threads \cup {Nobody}
    /\ \A i \in Threads : call[i].todo \subseteq DOMAIN entry
    /\ boot \subseteq Topics
    /\ status \in {"booting", "up", "closing", "closed", "down", "failed"}
    /\ closing.left \subseteq DOMAIN entry /\ closing.failed \subseteq DOMAIN entry

\* While the broker serves, a partition directory has one open Log at most,
\* however many threads ask for its topic at once (Topic.__init__: without the
\* lock "both would win the 'not in cache' check and build two Log objects on
\* one directory").
OneHandle ==
    Serving => \A d, e \in DOMAIN entry :
        entry[d].open /\ entry[e].open /\ LogOf(d) = LogOf(e) => d = e

\* The records of a key are in one partition of their topic, over creates that
\* ask for other counts, races to create it, and restarts
\* (Partitioner.partition_for: "always lands in the same partition, forever").
OneHome ==
    \A g, h \in homes : g[1] = h[1] /\ g[2] = h[2] => g[3] = h[3]

\* An acknowledged record is in a partition that topic.json counts: a reader
\* can ask for it, whenever the process died.
AckedReachable == \A a \in acked : a[2] < meta[a[1]]

Exposed(l) == {a \in acked : <<a[1], a[2]>> = l /\ a[3] >= synced[l]}

\* What a power cut may take from a partition under "fsync every N records":
\* N - 1 acknowledged records for each thread - its fsync may be the one that
\* resets the counter over the others' records - in each life of the process.
\* With N = 1 nothing (SYNC_EVERY_RECORD: "Durable per append").
LossBounded ==
    SyncRecords > 0 => \A l \in Logs :
        Cardinality(Exposed(l)) <= (restarts + 1) * Cardinality(Threads) * (SyncRecords - 1)

\* "fsync every N records": fewer than N acknowledged records of a partition are
\* not fsynced, in one life of the process.
EveryNRecords ==
    SyncRecords > 0 /\ restarts = 0 => \A l \in Logs : Cardinality(Exposed(l)) < SyncRecords

\* After a clean shutdown every acknowledged record is fsynced, but for the logs
\* whose own close failed (Topic.close: "Close every log, even if one of them
\* fails").
ClosedDurable ==
    status = "closed" => \A l \in Logs \ {LogOf(e) : e \in closing.failed} : Exposed(l) = {}

\* The broker comes back from a crash: recovery raises for no topic.
Startable == status # "failed"
=============================================================================
