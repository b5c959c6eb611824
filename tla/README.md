# pyka, specified

TLA+ models of pyka (a small Kafka-like broker in Python), the TLC
configurations that check them, and TLAPS proofs about them. Paths below are
relative to `src/pyka/` of the repository unless they say otherwise.

## The system

| part | state | operations | talks to |
|---|---|---|---|
| Record, `storage/record.py` | none | encode, decode, `read_one` (None at a torn tail) | Segment |
| Index, `storage/index.py` | sparse (offset, position) entries | `maybe_append`, `lookup`, `clear` | Segment |
| Segment, `storage/segment.py` | a `.log` file, next offset, position, a buffered write handle | open with recovery scan, append, sync, close, `read_from` | Log |
| Log, `storage/log.py` | the chain of segments, an RLock | open with chain check, append, roll, sync, close, `read_from` | Topic, admin API |
| Topic, `topic/topic.py` | `topic.json`, the registry of open topics, an RLock | create, get, append, sync, close, names, `foreign_partitions` | Store, in worker threads |
| SyncPolicy, Partitioner, `topic/` | an append counter and a clock per partition; a round-robin counter | `should_sync`; `partition_for` | Topic, client |
| Tail, `broker/tail.py` | one asyncio event per followed partition | subscribe, notify, close | Store, Consume |
| Store, `broker/store.py` | readiness, orphans | open, append (+ notify), read, create, close | handlers |
| BrokerServicer, `broker/handler.py` | none | Produce, ProduceStream, Metadata, Consume, CreateTopic ... | clients over gRPC |
| Broker process, `cli/broker.py`, `broker/server.py` | two servers, a stop event | start, shutdown with a grace period | operating system, Kubernetes |
| Ring, HashRing, `cluster/ring.py` | none (frozen configuration) | `broker_for`, `owns`, `routing_table` | Topic, handlers |
| Admin API, `broker/admin.py` | none | create, roll, sync, listings, probes | Topic, Log |
| Client, `client.py` | cached routing tables | send, `send_batch`, consume, `await_topic` | brokers |

Brokers do not talk to each other; each computes the owner of a partition from
the number of brokers. Within a broker, coroutines share one event loop and hand
the blocking work to worker threads (`asyncio.to_thread`), which meet at the
locks of Topic and Log.

What is hard here, and what correctness means:

- **Log**: threads under one lock, readers without it, and a process or machine
  that stops between any two writes. The files must stay a gapless chain that
  the next open accepts; nothing acknowledged is lost to a process crash and
  nothing synced to a power cut; readers see gapless runs.
- **Topic**: one Log per directory in spite of concurrent opens, one partition
  per key for ever, a bounded number of unsynced acknowledged records.
- **Live tail**: a record that lands between a read and the wait for more; calls
  cancelled while their append goes on in a thread; a shutdown with parked
  streams.
- **Frame**: telling a torn tail, which is cut, from damage, which is refused, by
  what is left in the file; and no damage that comes back as a record.
- **Ring and cluster**: one owner per partition whatever a client believes, small
  moves at a resize, at-least-once delivery over lost answers, batches whose streams
  fail one by one, readers that resume elsewhere, and a client that finds its way
  back.

`PROJECT.json` lists under "hazards" each of these at its line.

## The modules

| module | models | relation to the others |
|---|---|---|
| `Frame` | the record frame, a file that is cut or rots, the recovery scan over it | below `SegmentFile`, whose records are whole or torn |
| `SegmentFile` | the records of a file and the index, as operators | used by `Log` |
| `Log` | Log over Segment over the directory, lock, readers, crashes, power loss, faults | implements `DurableLog` |
| `DurableLog` | what a log promises: a run of records, a promised prefix, what a failure may take | implemented by `Log`; `Topic`, `LiveTail` and `Cluster` take of a Log what it promises |
| `Topic` | the registry, `topic.json`, SyncPolicy, restart, shutdown | a Log is a counter of written and synced records |
| `LiveTail` | Produce, Consume, Store.append, Tail, shutdown order | a Log is its length |
| `HashRing` | the circle, bisecting, owners over resizes | instantiated by `Cluster` |
| `Cluster` | Producer.send and send_batch, Consumer.consume, await_topic; Metadata, Produce, ProduceStream, Consume and the redirects; broker start with orphan check, offline resize | a Log is a sequence of records, the ring is `HashRing` |
| `MCFrame`, `MCLog`, `MCTopic`, `MCLiveTail`, `MCCluster` | the instances TLC checks | |
| `FrameProofs`, `LogProofs`, `LogSafetyProofs`, `LogPromiseProofs`, `LiveTailProofs`, `TopicProofs`, `HashRingProofs`, `ClusterProofs` | proofs | each extends the module it is about; `LogPromiseProofs` builds on `LogSafetyProofs` and that on `LogProofs`, `ClusterProofs` uses `HashRingProofs` |

`map` in `PROJECT.json` gives the source lines of every definition. An operator
`X_Slip`, marked "(variant ...)", is `X` with a plausible bug; nothing uses it,
except to show that a property notices.

### Frame

A file is a sequence of words, one for each field of the header and one for each
unit of key and value. `Encode` is Record.encode; Record.read_one, which ends in
decode, is `Torn` (None: the file ends before the frame), `Decodes` (a record
comes out, `Decoded`) or neither, an error. `Open`, `Scan`, `Finish` and `Refuse`
are Segment._recover, `AppendRecord` is Segment.append. `Crash` leaves any prefix
of the file, `Damage` gives one word another value. `written` and `ends` remember
what was appended and where each record ended. The index hint of `_iter_from` is
the matter of `SegmentFile`; here every read is the scan.

### Log

A segment is named by its base offset. `files`, `recs`, `torn`, `synced` and
`linked` are the directory: which files exist, their whole records, a cut-off
last one, how far an fsync went, and whether the file's name survives a power
loss. `segs`, `next`, `size`, `open`, `index`, `buf` are the fields of Log,
Segment and Index; `buf` is what a failed flush leaves in the file object.
`op[t]` is where a thread is in append or roll while it holds `lock`. Append is
AppendBegin, (Seal, Create), WriteBegin, FlushPartly / Flush, AppendReturns;
opening is Start, then for each file RecoverBegin, RecoverRecord, RecoverEnd,
then OpenEnd with the chain check. `ProcessCrash` may come between any two and
keeps what the operating system has; `PowerLoss` keeps what was fsynced, any
part of the rest, and any subset of the files whose names were not safe.

When a write fails (`FlushFails`), Python's file object keeps what it has still to write
if that fits in its buffer, and drops the new record otherwise; a part of it may be in the file
by then. Sizes of records and buffers are not compared: whether the record is kept is
free. The part that is left (`stray`) is whole for no later flush. An append to that
tail raises (`Bury`), because its own flush fails or `tell()` is off, and enough bytes
behind the part make it junk, which the next scan refuses (`RecoverJunk`). A power loss
may keep, cut or lose it even if it was fsynced, which is more than a disk does.

Assumed: an fsync of a file makes its name safe too; a power loss leaves a
prefix of the unsynced bytes, not garbage; a log starts at offset 0 (nothing in
the code removes segments); a frame that is cut is recognised as cut.

### Topic

A step is what a thread does between two points where another may run: the lock,
a file operation, and calls between which the interpreter may switch. `meta` is
`topic.json` (Absent, Torn or a count), `cache` is `_open`, `entry` holds the
counter and the handle of each `_Partition`, `call` the locals of each thread.
Restart and shutdown are those of the broker process: Store.open creates every
topic `names()` finds, `Topic.close` closes every log even if one fails. An append that
meets a closed log raises (`AppendClosed`), unless its tail is full: then it rolls, for which
closing is done already, and writes on (`AppendRolls`).

### LiveTail

One action per stretch of a coroutine between two awaits; `prod` and `con` say
where each call is. What runs in a worker thread goes on when its call is
cancelled ("orphan"). `events` are the keys of `Tail._events`. The shutdown is
closing the Tail, stopping the server with its grace, closing the store.

### HashRing and Cluster

In `HashRing` digests are any numbers, collisions included, so what holds does not
depend on what blake2b computes (`cluster/ring.py:26`).

`Cluster` keeps for each broker what it has on disk (`meta`, `log`), and for each
client its routing table - kept as the count and the cluster size it was computed
from, since every broker computes the same table from those - and where its call is.
`todo` are the requests of a call that have no response, `done` the responses. A
`send` has one request; `send_batch` routes all its records and then opens one stream
after the other, in the order of the first record for each broker, and each stream is
served record by record (`Land`), as ProduceStream does. A call of a batch that fails
returns nothing for any of its records. A consumer reads one partition, call after call, from
the offset after the last record it was given; a redirect corrects its table and
fails the call. `late` are requests a broker still has although the client no longer
waits. `lost` counts for each record of a send the attempts without an answer.

A resize is the procedure of `docs/operations.md`: stop all, move each directory to
the broker the new ring names, start with the new count. It is *careful* when every
directory is moved; otherwise any subset is, and brokers find orphans and refuse to
be ready. A broker serves as soon as its process is up, ready or refused or still
recovering, as gRPC does in the code.

## The runs

`tlc -workers 2 -config X.cfg M`, with the names of the table.

| run | module, cfg | question | size |
|---|---|---|---|
| log_crash | MCLog, Log_crash | is the directory always a chain that reopens, what an unlocked reader sees, does Log implement DurableLog, so that crashes and power cuts take only what they may | 700 k states, 1 min |
| frame_damage | MCFrame, Frame_damage | does a scan find what was appended, and only that, whatever is cut or rots | 600 k states, 10 s |
| log_faults | MCLog, Log_faults | what survives failed writes and file creations; the lock is freed, the log comes up | 710 k states, 110 s |
| log_stale_buffer | MCLog, Log_stale_buffer | finding, below | - |
| tail_streams | MCLiveTail, LiveTail_streams | are streams complete, gapless, never asleep on an acknowledged record; is notify enough without the poll; does the shutdown go through without the grace | 140 k states, 90 s |
| tail_missed | MCLiveTail, LiveTail_missed | finding, below | - |
| topic_append | MCTopic, Topic_append | one handle, one home of a key, bounded loss, clean shutdown | 5.2 M states, 3 min |
| topic_policy | MCTopic, Topic_policy | finding, below | - |
| topic_torn_meta | MCTopic, Topic_torn_meta | finding, below | - |
| ring_resize | HashRing, HashRing | bisecting is right and little moves, for all digests | 200 k states, 10 s |
| cluster_send | MCCluster, Cluster_send | one log per partition, records where the metadata points, key order also in batches that fail, readers that resume, copies, orphans, calls end | 410 k states, 2 min |
| cluster_resize | MCCluster, Cluster_resize | finding, below | - |

Each property of a passing run comes with a mutant in `PROJECT.json`, a bug in the
modelled code that it catches under the run's own bounds.

### Bounds

- **Frame**: two records, which is one before the damage and one after it; keys and
  values absent, empty or of four words, long enough that a damaged size or length
  field can name a position inside the file, at its end or beyond. MAX_SIZE is
  below the largest record, so that encode refuses one. One damaged word, every value
  below 12 and the two negative lengths -1 and -2. `MCCrc` changes with every
  single word.
- **Log**: two threads, one reader (a reader shares nothing with another), records
  of one and two bytes, segments of three, an index entry every two: this gives
  segments that are exactly full, one short, and too small for the record at hand,
  indexed and unindexed records, and rolls of an empty log. Three records make up
  to three segments. Two crashes let one interrupt the recovery from the other.
  Two faults in log_faults, so that one meets what the other left behind; the code retries
  nothing, so a third adds no new kind of step.
- **Topic**: one topic with two partitions here and one elsewhere, two threads,
  SyncRecords = 2 (the least at which anything is unsynced), four appends, one
  create with another count, a restart, one error. The lock is one for all topics,
  and partitions of different topics share nothing else.
- **LiveTail**: two producers and one stream at a time - a follower, one that starts
  ahead of the log, a bounded or an unbounded read, one of a partition not held here -
  batches of two (so that full, short and empty ones occur), three appends, one
  cancelled or failed call. That two streams share an event adds nothing but the event:
  WakeupsKept and WaitersReached are proved for any number of them.
- **HashRing**: three brokers with two points each, two partitions, four digests;
  every assignment of digests is an initial state.
- **Cluster**: one producer with a `send` and then a batch of three, one key before,
  at the beginning and at the end of the batch and another partition's key between, so
  that a batch has two streams and a stream two records; one consumer (clients share
  nothing but the logs, whose own concurrency is the matter of Log and Topic; a
  client's retry and its late request do race here). One to three brokers. `Scenes`
  combines the faults, because all of them at once is too much for one run: two faults
  and a resize, two resizes in a row, the consumer over a resize, the consumer over a
  fault, and two resizes that may forget directories. The topic is created with two
  partitions where an operator asks, with one where a broker makes it by itself, so
  requests for partitions a broker does not know occur. One assignment of points, in
  which a join moves one partition and leaves the other.

### Fairness

- `Log!FairSpec`: recovery and the thread that holds the lock go on; both wait for
  the disk only. Crashes are not fair.
- `LiveTail!FairSpec`: worker threads finish and a coroutine that can run does run
  (the event loop is fair); a shutdown that has begun continues. The timers - the
  poll of 30 s, the grace period - are *not* counted on, which is what Followed and
  Drains are about; Backstop, which is about the poll, has its fairness (`Polling`)
  as a hypothesis.
- `Cluster!FairSpec`: a client goes on with its loop, Kubernetes restarts brokers,
  they recover, a resize that was begun is completed. The delivery timeout is not
  counted on.

`HashRing` is checked for deadlock; the other runs switch the check off because the
bounded systems stop: every call has been made, every crash spent, a shutdown is over.

## What the code does other than it says

1. **A failed flush comes back** (log_stale_buffer, `storage/segment.py:108`). The
   bytes stay in the buffer, the next offset does not move; the next flush writes
   both records with one offset, and the next open is refused. That nothing acknowledged
   is missing from the files even then is shown by log_faults (AckedOnDisk,
   PromisedSafe) and proved; without a fault ImplementsDurableLog says it.
2. **A missing notify** (tail_missed, `broker/store.py:168`). A produce call that is
   cancelled after its record landed, or whose fsync raises, tells no follower.
3. **"fsync every N records" counts per thread** (topic_policy,
   `topic/topic.py:313`). Two threads leave N acknowledged records unsynced; the
   bound that holds, N - 1 per thread, is LossBounded.
4. **`topic.json` can be torn** (topic_torn_meta, `topic/topic.py:398`). A crash
   between truncation and write leaves a broker that does not start.
5. **The resize procedure leaves the topic behind** (cluster_resize,
   `topic/topic.py:186`). `docs/operations.md` moves partition directories, not
   `topic.json`; on a broker that has just joined they cannot be found. The run
   cluster_send takes `topic.json` along (`CarriesMeta`) and shows that the procedure
   is right then.

Seen while modelling, without a run:

- A damaged size field that names more than the rest of the file reads as a torn tail:
  that record and all after it, acknowledged and synced ones too, are truncated
  without a word (`storage/record.py:137`; OnlyDamageHurts says that nothing else does
  this). `docs/design.md:261` says of damage in the middle of a file that it is fatal
  by design; `tests/storage/test_log_recovery.py:107` knows the case.
- A size below the fixed fields raises struct.error, not CorruptRecord
  (`storage/record.py:100`); the segment is refused all the same, but a read with a
  wrong hint would not fall back to the scan (`storage/segment.py:158`).
- A broker with orphans says it is "serving nothing until this is resolved"
  (`cli/broker.py:131`) and serves every gRPC call, appends to the partitions it owns
  included; only the health services know. With the careless resizes of cluster_send it does: the
  orphan stays as it was left (OrphansFrozen), but its new owner, ready or not, begins an
  empty log of the same partition.
- When a write fails of a record that the file object's buffer has no room for, a part of it
  may stay in the file for good (`storage/segment.py:107`). Every later append to that
  tail then raises, until the log is rolled or reopened, and once enough was written behind
  the part the next open is refused. AckedOnDisk and PromisedSafe hold all the same.
- After the cluster shrank without moving a directory, no broker that is left has
  orphans: all are ready, and what is missing is on the disk of the one that left. This
  is the second alternative of Reachable.
- With different counts of a topic on different brokers ("must be called against EVERY
  broker", `client.py:367`), a client that fetches its table from another broker moves
  its keys, and a record in a partition the others do not know cannot be found. KeyOrder
  is checked with one source of the count, Reachable where counts agree.
- After a cluster shrank, a client whose table names a broker that is gone gets
  UNAVAILABLE and never a redirect, so its sends end only by their deadline (SendEnds
  excludes this).
- The admin API's sync of a topic (`broker/admin.py:173`) asks for every partition
  of it; in a cluster the first that is elsewhere is a PartitionNotLocal, which no
  handler expects, and the request fails. Nor does it reset the counter of
  SyncPolicy, which costs an early fsync and nothing else.
- An append whose call the grace period cut off may meet a closed log
  (`cli/broker.py:147` says otherwise), and raises; if the tail is full it rolls instead
  (`storage/log.py:112`) and writes to a segment that nobody fsyncs. It is acknowledged to
  nobody in either case.
- DeliveryFailed is said to carry "records that never landed" (`client.py:50`), which
  is not so when the answer was lost. The same goes for a batch that fails: ProduceStream
  answers for each record that landed (`broker/handler.py:104`), `send_batch` drops
  those answers.

## What is proved

For every value of the constants that the ASSUMEs admit: any number of threads,
readers, producers, consumers and records (the bounds of the models are constants,
so they are any number as well).

- `FrameProofs!ReadBack`, `DamageDetected`, `FrameInvariant`, `FoundIsWritten`,
  `DamageNotKept`, `UndamagedOpens`: what encode writes is what read_one reads, and
  a scan finds only what was appended, wherever the file is cut, with at most one
  damaged word at a time. Assumed of the checksum: it is a word, and differs for two
  bodies of the same length that differ in one word (`Assumed`). crc32 guarantees this for
  a change within 32 neighbouring bits: for every field of 32 bits or fewer, and for damage
  of the timestamp, which has 64, as far as it is no wider; damage spread over more of
  it is beyond the assumption and passes with a chance of 2^-32. The invariant (Layout) says that word for word the
  file is the frames of `written`, but for the damaged words and the cut; Scanned that the scan
  stands at the end of a frame and has found the ones before. Why one damaged word cannot
  make a record: in the offset it breaks the count, in the size or a length it
  breaks the sum, elsewhere the checksum.
- `LogProofs!TypeCorrect`. `TypeOK` is not inductive; `Sane` adds that an open log has
  a tail, that a thread at work has a payload and an offset below the bound.
- `LogSafetyProofs!FilesSequential`, `FilesChained`, `ReopenAccepted`: as long as no write or
  creation has failed (with a fault it is false: finding 1), the files are a
  gapless chain of gapless files, of which all but the last are whole and fsynced,
  and no open is refused. The invariant has three parts. OnDisk is about the files
  alone and survives every crash; it is what recovery starts from. InMemory ties the counters of the
  Segments to their files (Counted), with an exception for the tail while somebody
  writes to it. InThreads says for each step of append and roll how far the two
  are apart. A power loss keeps OnDisk because a file other than the last is
  synced and linked before its successor exists.
- `LogPromiseProofs!AckedKept`, `PromisedKept`, `SealedNeverChange`: these hold with
  failing writes and creations as well. The invariant (Kept) does not say that the files are
  in order, since after a failed flush they may not be; it says that a file with a later one
  beside it is all fsynced and linked (`KeptFiles`), that the chain in memory is of files, with a
  later one beside an open tail never (`KeptChain`), and where the thread with the lock is
  (`KeptOps`). A power loss then touches the last file only, and Log.sync, which fsyncs the
  tail only, has vouched for nothing else that could go.
- `LogPromiseProofs!LogImplements`: without a fault, Log implements DurableLog with the
  refinement mapping that the run checks. `StepImplements` goes action by action: a flush
  writes the next offset, a return acknowledges it, a sync or close promises what is written,
  a power loss leaves a run that has all that was promised, anything else stutters.
- `LogPromiseProofs!IndexLeadsHome`, `ReadsClean`, `ReadsComplete`: an index entry is the
  start of its record (not run: a read falls back to the scan if it is not), and a reader, who holds a copy of the chain and no lock, yields a gapless
  run of what is in the files and, if it ends, all that was acknowledged when it began.
  Reading relates where the reader is to the chain as it is now; it survives what others
  do because chain and files only grow under it (`Onward`) until the process stops.
- `LiveTailProofs!WakeupsKept`, `WaitersReached`, `TailTypeCorrect`: no stream waits with an
  unset event for a record that was acknowledged. NoLostWakeup speaks of parked streams;
  CaughtUp is the same fact one await earlier (a short batch reached past everything
  acknowledged, unless its event has fired), Landed and WaiterReachable connect
  acknowledgements, logs and events.
- `LiveTailProofs!StreamsClean`, `ReadsEnd`: a stream sends a gapless run from the offset
  asked for, no more than max_records, and a read that ends by itself has sent that many or
  all that was owed. StreamOK ties what was sent, the batch at hand and the records still
  to go (`left`), in each place where the coroutine may be.
- `TopicProofs!TopicTyped`, `HandleUnique`, `HomeUnique`, `AckedCounted`, `ShutdownDurable`: one
  invariant (Held) relates the four places where a topic is known: its `topic.json`, which once
  whole never changes; the cache; the entries of its partitions, of one opening while the
  broker serves; and the locals of threads, which may be those of an opening since closed.
  Between a miss and the opening a thread holds the lock and nobody has the topic open: that
  is why there is one handle. A thread that found its entry before a shutdown may append
  after it, to a closed log that rolls even, but once the shutdown has begun nothing is acknowledged.
- `TopicProofs!LossIsBounded`: the account of SyncRecords. What is not fsynced of a partition
  is at most its counter, plus SyncRecords - 1 for each thread that has fsynced and has
  yet to reset the counter, plus what earlier lives of the process left (Owing). With
  SyncRecords = 1 the bound is 0: then a power cut takes nothing that was acknowledged.
- `HashRingProofs!BisectFindsFirst`, `ResizeMovesLittle`: ranks of a finite circle are
  an injection onto 0 .. size - 1, so the index that bisecting yields is one
  point, which is the first clockwise; and a point first on a circle is first on every part
  of it that holds it, so adding a broker's points moves only what they take.
- `ClusterProofs!OnlyOwnersHold`, `PartitionsWhole`, `NeverOrphaned`: as long as resizes
  are careful, on a broker there are only directories of partitions that it owns, under
  whatever producers, batches, readers, late requests, crashes and resizes; hence a
  partition is on one disk only, and no broker is refused.
- `ClusterProofs!ClusterTyped`: the types, with what the locals of a call say of each other
  (a producer's call covers the records of one `send` or one batch; there is a request
  for the broker it is sending to; only a call of `send` is tried again).
- `ClusterProofs!OrphansLeftAlone`: while brokers serve, the log of a partition that its broker
  does not own any more neither grows nor goes, careless resizes included. Every step but a
  resize leaves all logs alone or makes one longer, at the owner (TextSteps).
- `ClusterProofs!ConsumersResume`: with care, what a consumer was given is a beginning
  of its partition's log, wherever that is by now. A resize moves whole logs, a record
  lands at an end: so a beginning stays one (`Persist`).
- `ClusterProofs!AnswersReachable`: if resizes take `topic.json` along (`CarriesMeta`), what was
  answered is found at its partition and offset by asking the owner, once all are ready.
  It is in some log that keeps it (Placed) and in a partition that some broker counts
  (Counted); a ready broker has `topic.json` where it has directories and no directory
  of another's (MetaOK, ReadyOK), with careless resizes too. Without the condition it is
  false: that is finding 5.
- `ClusterProofs!BatchesInOrder`: if a record of a batch is in a log, so are those of its
  key before it. The requests of a batch that have no response are a tail of the plan for
  their broker (QueueOK); a request that the broker still has when the client is gone
  has its predecessors in the log already (LateFits). No care is needed.
- `ClusterProofs!FewRepeats`: copies of a record, and late requests that may still become
  copies, are at most the answers that were lost, and one more if the record is no longer
  to be sent (Sparing). A resize moves copies and makes none (`CopiesMoved`, an injection).
- `ClusterProofs!KeysInOrder`: with care and with one partition count on the brokers (`Agreed`),
  the answers for a key are in one partition and ascend. Within a call because requests for a
  key go one way and in turn (InTurn), from one call to the next because a record lands
  after all that were answered before (InOrder, Over). Without `Agreed` it is false for some
  values of the constants, as "Seen while modelling" says; in the run, the constants are such that it
  holds without.

The assumptions on constants are few and are what the code's types say. Record sizes, counts
and bounds are numbers and a topic has a partition; a hash is any function to numbers
(`HashAssumption`, `KeysAssumption`), points of virtual nodes and partitions are any numbers,
collisions included (`RingAssumption`); there is a topic, the threads are finite and none is called
"nobody", the value of a free lock (`TopicsAssumption`); a bootstrap list has an address; the calls of a
producer follow each other, no batch beginning inside another (`CallsAssumption`, which is what
one loop calling `send` and `send_batch` does). TLC evaluates each of them for the instances.

Model-checked only:

- all liveness (LockReleased and ComesUp of Log; Followed, Drains and Backstop of LiveTail;
  SendEnds of Cluster): it needs fairness and
  ENABLED, which the prover does not handle. The same goes for the absence of deadlock in
  `HashRing`.
- what would need induction over the data of a whole run of calls, for instance that
  counting recursive definitions agree with a loop; no theorem here rests on such a fact. That an
  order is found in a finite set (the least request, the first point) is proved from the
  library's theorems on finite sets.
- KeyOrder without `Agreed`, and the violations of the five findings, which are about
  particular instances.

## What is not modelled

- An fsync that fails in a seal, a sync or a close of Log, and writes of the index that fail
  (`Topic` has the failing sync and close of a whole log).
- Clocks: the time bound of SyncPolicy, timeouts and back-offs are free choices.
- gRPC itself, beyond lost, late and cancelled calls.
- A resize that rolls through the pods, so that brokers with different counts serve at
  once: the operations guide rules it out, and neither code nor docs say what should
  hold then. PYKA_ALLOW_ORPHANS, which asks for the split.
- A produce without a partition in a cluster (`broker/handler.py:155`): the broker
  routes it, and the redirect routes it again; the answer is only a name in the
  text of the error. No client of the repository sends one.
- `consume(follow=True)` in `Cluster`: the stream is modelled at its broker, in `LiveTail`.
- A read by an index hint over a damaged file: every open rebuilds the hints from the
  scan that refuses the damage, so it takes damage to a file that is open.
- What a power loss does to `topic.json`; the admin API beyond create, roll and sync of
  a log; the Admin client, probes, ports, configuration, logging.
- The modulo Ring, kept in the code for comparison; the generated code, the demo
  script, benchmarks and examples.

## Plan

Done, in this order: SegmentFile and Log with DurableLog; LiveTail; Topic; HashRing;
Cluster, with batches, readers and careless resizes; Frame; the proofs above, which cover
every invariant and every action property that a passing run checks.

To come, in this order:

1. Proofs: that the counter, the length and the sequence that `Topic`, `LiveTail` and `Cluster`
   have for a Log are what DurableLog promises, as refinements of one another; the safety half
   of the liveness properties, such as that whoever holds the lock of Log can go on.
2. Topic with a power loss over `topic.json`, and Store.open against requests that
   arrive while it recovers several topics.
3. Cluster: two producers of one partition, PYKA_ALLOW_ORPHANS.
