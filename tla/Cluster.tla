------------------------------ MODULE Cluster ------------------------------
(***************************************************************************)
(* Brokers that divide the partitions of a topic by the ring, and clients  *)
(* that find their way to them: Producer.send and send_batch and           *)
(* Consumer.consume of client.py, what broker/handler.py answers to        *)
(* Metadata, Produce, ProduceStream and Consume, the start of a broker     *)
(* (broker/store.py) and the offline resize of docs/operations.md, also    *)
(* where it leaves directories behind.                                     *)
(*                                                                         *)
(* Brokers never talk to each other.  All they share is the number of      *)
(* brokers, from which each computes the owner of every partition with a   *)
(* HashRing; it changes only while all of them are stopped.                *)
(*                                                                         *)
(* A log is the sequence of its records, safe from a process crash, as Log *)
(* promises; opening a topic makes the directories of the partitions this  *)
(* broker owns.                                                            *)
(***************************************************************************)
EXTENDS Integers, Sequences, FiniteSets

CONSTANTS
    Producers,          \* clients, each with one call at a time
    Consumers,
    Bootstrap,          \* client -> the brokers it asks for metadata, in order
    Keys, NoKey, Hash,  \* record keys, the lack of one, and key -> crc32
    Sends,              \* producer -> the keys of its records, in order
    Upto,               \* producer -> record -> the last of the send_batch call that
                        \* begins with it, or 0 where it is the record of a send
    Watch,              \* consumer -> the partition it reads
    Created,            \* the partition count the topic is created with
    DefaultPartitions,  \* PYKA_PARTITIONS
    FirstSize,          \* brokers at the beginning
    CarriesMeta,        \* does a migration take topic.json along?
    VNodes, Digests,    \* of the HashRing
    Point, Place,       \* the digests of the brokers' names and the partitions'
    MaxBrokers,         \* bound: size of the cluster
    Scenes              \* bound: who takes part, with how many crashes and calls without
                        \* an answer, how many resizes, and are those done with care?

Clients == Producers \cup Consumers
Brokers == 0 .. MaxBrokers - 1
Parts   == 0 .. (IF Created > DefaultPartitions THEN Created ELSE DefaultPartitions) - 1

ASSUME CreatedAssumption   == Created \in Nat \ {0} /\ DefaultPartitions \in Nat \ {0}
ASSUME SizeAssumption      == MaxBrokers \in Nat \ {0} /\ FirstSize \in 1 .. MaxBrokers
ASSUME ClientAssumption    == Producers \cap Consumers = {} /\ Watch \in [Consumers -> Parts]
ASSUME BootstrapAssumption == Bootstrap \in [Clients -> Seq(Brokers) \ {<<>>}]
ASSUME HashAssumption      == Hash \in [Keys -> Nat]
ASSUME RingAssumption ==
    /\ IsFiniteSet(VNodes) /\ VNodes # {} /\ VNodes \subseteq Nat /\ Digests \subseteq Nat
    /\ Point \in [Brokers \X VNodes -> Digests] /\ Place \in [Parts -> Digests]
ASSUME ClusterBounds ==
    /\ Sends \in [Producers -> Seq(Keys \cup {NoKey})]
    /\ Scenes \subseteq [who : SUBSET Clients, faults : Nat, resizes : Nat, careful : BOOLEAN]

\* The calls of a producer follow each other: no batch begins inside another.
ASSUME CallsAssumption ==
    \A c \in Producers :
        /\ Upto[c] \in [DOMAIN Sends[c] -> 0 .. Len(Sends[c])]
        /\ \A n \in DOMAIN Sends[c] : Upto[c][n] # 0 =>
            n <= Upto[c][n] /\ \A m \in n + 1 .. Upto[c][n] : Upto[c][m] = 0

VARIABLES
    size,       \* PYKA_BROKERS
    broker,     \* broker -> "down", "booting", "ready", or "refused" for its orphans
    meta,       \* broker -> partitions in its topic.json, or Absent
    log,        \* broker -> the partition directories on its disk -> records
    offline,    \* is the cluster stopped for a resize?
    call,       \* client -> where its call is, and its locals
    routing,    \* client -> its routing table, as the ring and count it came from
    late,       \* requests a broker still has for a client that stopped waiting
    seen,       \* consumer -> the records it was given, over all its calls
    delivered,  \* history: what send and send_batch returned
    lost,       \* history: record -> attempts that got no answer though they may have landed
    scene       \* the member of Scenes that is played, faults and resizes counting down

cluster == <<size, broker, offline>>
disk    == <<meta, log>>
history == <<delivered, lost>>
vars    == <<cluster, disk, call, routing, late, seen, history, scene>>

Absent  == 0
Unknown == [n |-> 0, size |-> 0]
Records == UNION {{c} \X DOMAIN Sends[c] : c \in Producers}

\* todo holds the requests of a call that have no response, done the responses.
Idle == [pc |-> "idle", first |-> 0, n |-> 0, asks |-> 1, to |-> 0, todo |-> {}, done |-> {}]

\* A new cluster is up, and nobody has made the topic.
Init ==
    /\ size = FirstSize /\ offline = FALSE
    /\ broker = [b \in Brokers |-> IF b < FirstSize THEN "ready" ELSE "down"]
    /\ meta = [b \in Brokers |-> Absent]
    /\ log = [b \in Brokers |-> [p \in {} |-> <<>>]]
    /\ call = [c \in Clients |-> Idle]
    /\ routing = [c \in Clients |-> Unknown]
    /\ late = {} /\ seen = [c \in Consumers |-> <<>>]
    /\ delivered = {} /\ lost = [r \in Records |-> 0]
    /\ scene \in Scenes

-----------------------------------------------------------------------------
(* What a broker knows.                                                    *)

Circle == INSTANCE HashRing WITH Partitions <- Parts, point <- Point, place <- Place, brokers <- FirstSize

\* The owner of a partition in a cluster of n.
Owners == [n \in 1 .. MaxBrokers |-> [p \in Parts |-> Circle!broker_for(n, Place[p])]]
Owner(n, p) == Owners[n][p]

\* Ring.owns.  (Variant: any broker will do.)
Owns_Any(b, p) == TRUE
Owns(b, p) == Owner(size, p) = b

Accepts(b) == broker[b] # "down"

\* The logs of a broker once it has the topic open with n partitions.  (Variant:
\* they start afresh.)
Opened_Fresh(b, n) == [p \in {q \in 0 .. n - 1 : Owns(b, q)} |-> <<>>]
Opened(b, n) ==
    [p \in DOMAIN log[b] \cup {q \in 0 .. n - 1 : Owns(b, q)} |->
        IF p \in DOMAIN log[b] THEN log[b][p] ELSE <<>>]

\* The partition count append finds, creating the topic if it must.
CountAt(b) == IF meta[b] = Absent THEN DefaultPartitions ELSE meta[b]

\* A broker that was asked to append has created and opened the topic.
Asked(b) ==
    /\ meta' = [meta EXCEPT ![b] = CountAt(b)]
    /\ log' = [log EXCEPT ![b] = Opened(b, CountAt(b))]

\* Topic.append of a record, on the broker that owns the partition.  (Variant: on
\* one that has a directory of it.)
Appended_Anywhere(b, p, rec) ==
    /\ p \in DOMAIN Opened(b, CountAt(b))
    /\ meta' = [meta EXCEPT ![b] = CountAt(b)]
    /\ log' = [log EXCEPT ![b] = [Opened(b, CountAt(b)) EXCEPT ![p] = Append(@, rec)]]

Appended(b, p, rec) ==
    /\ p < CountAt(b) /\ Owns(b, p)
    /\ meta' = [meta EXCEPT ![b] = CountAt(b)]
    /\ log' = [log EXCEPT ![b] = [Opened(b, CountAt(b)) EXCEPT ![p] = Append(@, rec)]]

-----------------------------------------------------------------------------
(* Client.  What send, send_batch and consume share: the routing table.    *)

Goto(c, pc) == call' = [call EXCEPT ![c].pc = pc]

Fault == scene.faults > 0 /\ scene' = [scene EXCEPT !.faults = @ - 1]

\* The call ends; n goes on counting.
Ended(c) == [Idle EXCEPT !.n = call[c].n]
End(c)   == call' = [call EXCEPT ![c] = Ended(c)]

Fetching(c) == call[c].pc \in {"fetch", "refetch", "await", "correct"}
AskedBroker(c) == Bootstrap[c][call[c].asks]

\* Metadata answers, from the ring and the count of the broker that was asked;
\* it opens the topic for that.
Fetched(c) ==
    LET b == AskedBroker(c) IN
    /\ Fetching(c) /\ Accepts(b) /\ meta[b] # Absent
    /\ routing' = [routing EXCEPT ![c] = [n |-> meta[b], size |-> size]]
    /\ log' = [log EXCEPT ![b] = Opened(b, meta[b])]
    /\ \/ call[c].pc \in {"fetch", "await"} /\ Goto(c, "route")
       \/ call[c].pc = "refetch" /\ Goto(c, "again")
       \/ call[c].pc = "correct" /\ End(c)
    /\ UNCHANGED <<cluster, meta, late, seen, history, scene>>

\* NOT_FOUND: UnknownTopic, though another broker may know the topic.
\* await_topic asks again until its time is over.
FetchUnknown(c) ==
    /\ Fetching(c) /\ Accepts(AskedBroker(c)) /\ meta[AskedBroker(c)] = Absent
    /\ \/ End(c)
       \/ call[c].pc = "await" /\ call' = [call EXCEPT ![c].asks = 1]
    /\ UNCHANGED <<cluster, disk, routing, late, seen, history, scene>>

\* The next address, and after the last one PykaError.  (Variant: one too far.)
NextAddress_TooFar(c) ==
    IF call[c].asks <= Len(Bootstrap[c]) THEN [call[c] EXCEPT !.asks = @ + 1] ELSE Ended(c)
NextAddress(c) ==
    IF call[c].asks < Len(Bootstrap[c]) THEN [call[c] EXCEPT !.asks = @ + 1] ELSE Ended(c)

FetchFails(c) ==
    /\ Fetching(c)
    /\ \/ ~ Accepts(AskedBroker(c)) /\ UNCHANGED scene
       \/ Fault
    /\ call' = [call EXCEPT ![c] = NextAddress(c)]
    /\ UNCHANGED <<cluster, disk, routing, late, seen, history>>

\* Without a table it is fetched first.
Lookup(c) ==
    /\ call[c].pc \in {"route", "again"} /\ routing[c] = Unknown
    /\ call' = [call EXCEPT ![c].pc = "fetch", ![c].asks = 1]
    /\ UNCHANGED <<cluster, disk, routing, late, seen, history, scene>>

Request(c, n, p) == [n |-> n, part |-> p, to |-> Owner(routing[c].size, p)]

\* A call of send_batch, and a call whose response is a stream.
Batch(c)  == c \in Producers /\ call[c].first > 0 /\ Upto[c][call[c].first] > 0
Stream(c) == Batch(c) \/ c \in Consumers

-----------------------------------------------------------------------------
(* Producer.send, and Producer.send_batch with ProduceStream.              *)

\* Partitioner.partition_for, the client's own.  (Variant: keys are ignored.)
PartitionFor_Spread(key, n) == 0 .. n - 1
PartitionFor(key, n) == IF key = NoKey THEN 0 .. n - 1 ELSE {Hash[key] % n}

\* A call of send for the next record, or of send_batch for the next few.
Send(c) ==
    /\ c \in scene.who /\ call[c].pc = "idle" /\ call[c].n < Len(Sends[c])
    /\ LET n == call[c].n + 1 IN
       call' = [call EXCEPT ![c] = [Idle EXCEPT !.pc = "route", !.first = n,
                                        !.n = IF Upto[c][n] = 0 THEN n ELSE Upto[c][n]]]
    /\ UNCHANGED <<cluster, disk, routing, late, seen, history, scene>>

\* What is tried again starts without the requests and responses of before.
Again(c, pc) ==
    call' = [call EXCEPT ![c].pc = pc, ![c].asks = 1, ![c].todo = {}, ![c].done = {}]

\* send: the top of the loop, the second time after a back-off: the partition
\* and, from the routing table, who to ask.  send_batch: the same for each
\* record, before one stream is opened for each broker, in turn.
Route(c) ==
    /\ call[c].pc \in {"route", "again"} /\ routing[c] # Unknown
    /\ \E plan \in [call[c].first .. call[c].n -> Parts] :
        /\ \A n \in DOMAIN plan : plan[n] \in PartitionFor(Sends[c][n], routing[c].n)
        /\ call' = [call EXCEPT ![c].pc = "send",
                        ![c].to = Owner(routing[c].size, plan[call[c].first]),
                        ![c].todo = {Request(c, n, plan[n]) : n \in DOMAIN plan}]
    /\ UNCHANGED <<cluster, disk, routing, late, seen, history, scene>>

\* The requests for the broker at hand, and the first of them, which has no
\* response.  (Variant: the last.)
Group(c) == {q \in call[c].todo : q.to = call[c].to}
Current_Last(c) == CHOOSE q \in Group(c) : \A r \in Group(c) : q.n >= r.n
Current(c) == CHOOSE q \in Group(c) : \A r \in Group(c) : q.n <= r.n

\* UNAVAILABLE: send waits and tries again, a stream fails.
Unavailable(c) ==
    /\ call[c].pc \in {"send", "read"} /\ ~ Accepts(call[c].to)
    /\ IF Stream(c) THEN End(c) ELSE Again(c, "again")
    /\ UNCHANGED <<cluster, disk, routing, late, seen, history, scene>>

Offset(b, p) == IF p \in DOMAIN log[b] THEN Len(log[b][p]) ELSE 0

\* The owner appends, and goes on with the stream.
Land(c) ==
    LET b == call[c].to
        q == Current(c)
    IN
    /\ call[c].pc = "send" /\ Accepts(b)
    /\ Appended(b, q.part, <<c, q.n>>)
    /\ call' = [call EXCEPT
                    ![c].pc   = IF Group(c) = {q} THEN "landed" ELSE "send",
                    ![c].todo = @ \ {q},
                    ![c].done = @ \cup {[from |-> c, n |-> q.n, key |-> Sends[c][q.n],
                                         part |-> q.part, off |-> Offset(b, q.part)]}]
    /\ UNCHANGED <<cluster, routing, late, seen, history, scene>>

\* No such partition: INVALID_ARGUMENT is not retried.
Rejected(c) ==
    /\ call[c].pc = "send" /\ Accepts(call[c].to)
    /\ Current(c).part >= CountAt(call[c].to)
    /\ Asked(call[c].to)
    /\ End(c)
    /\ UNCHANGED <<cluster, routing, late, seen, history, scene>>

\* The broker does not own the partition: FAILED_PRECONDITION.
WrongBroker(c) ==
    /\ call[c].pc = "send" /\ Accepts(call[c].to)
    /\ Current(c).part < CountAt(call[c].to) /\ ~ Owns(call[c].to, Current(c).part)

\* (variants of Redirected: tried again with the table it has; appended first)
Redirected_KeepsTable(c) ==
    /\ WrongBroker(c) /\ Asked(call[c].to)
    /\ IF Batch(c) THEN End(c) ELSE Again(c, "again")
    /\ UNCHANGED <<cluster, routing, late, seen, history, scene>>

Redirected_Appends(c) ==
    LET b == call[c].to
        p == Current(c).part
    IN
    /\ WrongBroker(c)
    /\ meta' = [meta EXCEPT ![b] = CountAt(b)]
    /\ log' = [log EXCEPT ![b] = [d \in DOMAIN Opened(b, CountAt(b)) \cup {p} |->
                    IF d = p THEN <<<<c, Current(c).n>>>> ELSE Opened(b, CountAt(b))[d]]]
    /\ IF Batch(c) THEN End(c) ELSE Again(c, "refetch")
    /\ UNCHANGED <<cluster, routing, late, seen, history, scene>>

\* send fetches the table anew; send_batch gives up what its other records got.
Redirected(c) ==
    /\ WrongBroker(c) /\ Asked(call[c].to)
    /\ IF Batch(c) THEN End(c) ELSE Again(c, "refetch")
    /\ UNCHANGED <<cluster, routing, late, seen, history, scene>>

\* The last response of the stream is there: on to the broker of the earliest
\* record that is left,
NextStream(c) ==
    /\ call[c].pc = "landed" /\ call[c].todo # {}
    /\ LET q == CHOOSE q \in call[c].todo : \A r \in call[c].todo : q.n <= r.n IN
       call' = [call EXCEPT ![c].pc = "send", ![c].to = q.to]
    /\ UNCHANGED <<cluster, disk, routing, late, seen, history, scene>>

\* or the call returns.
Returns(c) ==
    /\ call[c].pc = "landed" /\ call[c].todo = {}
    /\ delivered' = delivered \cup call[c].done
    /\ End(c)
    /\ UNCHANGED <<cluster, disk, routing, late, seen, lost, scene>>

\* An attempt without an answer: send tries again when the connection broke and
\* ends when it timed out, a stream ends.
NoAnswer(c) ==
    IF Batch(c) THEN End(c) /\ UNCHANGED lost
    ELSE /\ lost' = [lost EXCEPT ![<<c, call[c].n>>] = @ + 1]
         /\ Again(c, "again") \/ End(c)

\* The response is lost,
ReplyLost(c) ==
    /\ call[c].pc = "landed"
    /\ \/ ~ Accepts(call[c].to) /\ UNCHANGED scene
       \/ Fault
    /\ NoAnswer(c)
    /\ UNCHANGED <<cluster, disk, routing, late, seen, delivered>>

\* or the client is gone while the broker still has the request.
Abandons(c) ==
    /\ call[c].pc = "send" /\ Accepts(call[c].to) /\ Fault
    /\ late' = late \cup {[rec |-> <<c, Current(c).n>>, part |-> Current(c).part, to |-> call[c].to]}
    /\ NoAnswer(c)
    /\ UNCHANGED <<cluster, disk, routing, seen, delivered>>

LandLate(m) ==
    /\ m \in late /\ late' = late \ {m}
    /\ Appended(m.to, m.part, m.rec)
    /\ UNCHANGED <<cluster, call, routing, seen, history, scene>>

\* Past delivery_timeout: DeliveryFailed instead of another round.
GivesUp(c) ==
    /\ call[c].pc = "again" /\ End(c)
    /\ UNCHANGED <<cluster, disk, routing, late, seen, history, scene>>

-----------------------------------------------------------------------------
(* Consumer.consume without follow, again and again from where it got to.  *)

Consume(c) ==
    /\ c \in scene.who /\ call[c].pc = "idle"
    /\ \/ Goto(c, "route")
       \/ Goto(c, "await")
    /\ UNCHANGED <<cluster, disk, routing, late, seen, history, scene>>

\* A partition that is not in the table is a KeyError.
Locate(c) ==
    /\ call[c].pc = "route" /\ routing[c] # Unknown
    /\ IF Watch[c] < routing[c].n
       THEN call' = [call EXCEPT ![c].pc = "read", ![c].to = Owner(routing[c].size, Watch[c])]
       ELSE End(c)
    /\ UNCHANGED <<cluster, disk, routing, late, seen, history, scene>>

Reading(c) == call[c].pc = "read" /\ Accepts(call[c].to)

\* NOT_FOUND, or INVALID_ARGUMENT for a partition the topic does not have.
ReadRejected(c) ==
    LET b == call[c].to IN
    /\ Reading(c) /\ Watch[c] >= meta[b]
    /\ log' = [log EXCEPT ![b] = IF meta[b] = Absent THEN @ ELSE Opened(b, meta[b])]
    /\ End(c)
    /\ UNCHANGED <<cluster, meta, routing, late, seen, history, scene>>

\* FAILED_PRECONDITION corrects the table for the next call; this one fails.
ReadRedirected(c) ==
    LET b == call[c].to IN
    /\ Reading(c) /\ Watch[c] < meta[b] /\ ~ Owns(b, Watch[c])
    /\ log' = [log EXCEPT ![b] = Opened(b, meta[b])]
    /\ call' = [call EXCEPT ![c].pc = "correct", ![c].asks = 1]
    /\ UNCHANGED <<cluster, meta, routing, late, seen, history, scene>>

\* The next record, or the end of the stream: caught up, or OUT_OF_RANGE.
\* (Variant: the request names the offset of the last record it was given.)
NextOffset_Repeats(c) == IF seen[c] = <<>> THEN 0 ELSE Len(seen[c]) - 1
NextOffset(c) == Len(seen[c])

Read(c) ==
    LET b == call[c].to
        records == Opened(b, meta[b])[Watch[c]]
    IN
    /\ Reading(c) /\ Watch[c] < meta[b] /\ Owns(b, Watch[c])
    /\ log' = [log EXCEPT ![b] = Opened(b, meta[b])]
    /\ IF NextOffset(c) < Len(records)
       THEN seen' = [seen EXCEPT ![c] = Append(@, records[NextOffset(c) + 1])] /\ UNCHANGED call
       ELSE End(c) /\ UNCHANGED seen
    /\ UNCHANGED <<cluster, meta, routing, late, history, scene>>

\* The connection breaks in the middle of the stream.
ReadFails(c) ==
    /\ Reading(c) /\ Fault /\ End(c)
    /\ UNCHANGED <<cluster, disk, routing, late, seen, history>>

-----------------------------------------------------------------------------
(* Brokers and operators.                                                  *)

Start(b) ==
    /\ ~ offline /\ b < size /\ broker[b] = "down"
    /\ broker' = [broker EXCEPT ![b] = "booting"]
    /\ UNCHANGED <<size, offline, disk, call, routing, late, seen, history, scene>>

\* Topic.foreign_partitions: directories of partitions that are not ours.
Foreign(b) == {p \in DOMAIN log[b] : ~ Owns(b, p)}

\* Store.open: open the topic if it is known, then look for orphans.  A broker
\* that is refused never reports ready, and answers all the same.
Recover(b) ==
    /\ broker[b] = "booting"
    /\ log' = [log EXCEPT ![b] = IF meta[b] = Absent THEN @ ELSE Opened(b, meta[b])]
    /\ broker' = [broker EXCEPT ![b] =
                    IF meta[b] # Absent /\ Foreign(b) # {} THEN "refused" ELSE "ready"]
    /\ UNCHANGED <<size, offline, meta, call, routing, late, seen, history, scene>>

\* Admin.create_topic, which must be called on every broker.
Create(b) ==
    /\ Accepts(b) /\ meta[b] = Absent
    /\ meta' = [meta EXCEPT ![b] = Created]
    /\ log' = [log EXCEPT ![b] = Opened(b, Created)]
    /\ UNCHANGED <<cluster, call, routing, late, seen, history, scene>>

\* The streams with brokers that stop are over.
CutOff(stopped) ==
    /\ call' = [c \in Clients |->
                    IF Stream(c) /\ call[c].pc \in {"send", "read"} /\ call[c].to \in stopped
                    THEN Ended(c) ELSE call[c]]
    /\ late' = {m \in late : m.to \notin stopped}

Crash(b) ==
    /\ Accepts(b) /\ Fault
    /\ broker' = [broker EXCEPT ![b] = "down"]
    /\ CutOff({b})
    /\ UNCHANGED <<size, offline, disk, routing, seen, history>>

\* The offline resize.  1: every broker is stopped.
StopAll ==
    /\ ~ offline /\ scene.resizes > 0
    /\ offline' = TRUE /\ scene' = [scene EXCEPT !.resizes = @ - 1]
    /\ broker' = [b \in Brokers |-> "down"]
    /\ CutOff(Brokers)
    /\ UNCHANGED <<size, disk, routing, seen, history>>

\* 2: each orphaned directory is moved to its new owner, or some of them are
\* forgotten, but none is moved over another; 3: a new PYKA_BROKERS.
Resize ==
    \E n \in (1 .. MaxBrokers) \ {size} :
        LET Orphans == UNION {{<<b, p>> : p \in {q \in DOMAIN log[b] : Owner(n, q) # b}} : b \in Brokers} IN
        \E moved \in SUBSET Orphans :
            LET Into(b)   == {x \in moved : Owner(n, x[2]) = b}
                Source(p) == (CHOOSE x \in moved : x[2] = p)[1]
            IN
            /\ offline /\ (scene.careful => moved = Orphans)
            /\ \A x \in moved : x[2] \notin DOMAIN log[Owner(n, x[2])]
            /\ \A x, y \in moved : x[2] = y[2] => x = y
            /\ size' = n /\ offline' = FALSE
            /\ log' = [b \in Brokers |->
                        [p \in {q \in DOMAIN log[b] : <<b, q>> \notin moved} \cup {x[2] : x \in Into(b)} |->
                            IF p \in DOMAIN log[b] THEN log[b][p] ELSE log[Source(p)][p]]]
            /\ meta' = [b \in Brokers |->
                            IF CarriesMeta /\ meta[b] = Absent /\ Into(b) # {}
                            THEN meta[(CHOOSE x \in Into(b) : TRUE)[1]] ELSE meta[b]]
            /\ UNCHANGED <<broker, call, routing, late, seen, history, scene>>

-----------------------------------------------------------------------------
ProducerStep(c) ==
    \/ Route(c) \/ Land(c) \/ Rejected(c) \/ Redirected(c) \/ NextStream(c) \/ Returns(c)

ConsumerStep(c) ==
    Locate(c) \/ Read(c) \/ ReadRejected(c) \/ ReadRedirected(c)

ClientStep(c) ==
    \/ Lookup(c) \/ Fetched(c) \/ FetchUnknown(c) \/ FetchFails(c) \/ Unavailable(c)
    \/ c \in Producers /\ ProducerStep(c)
    \/ c \in Consumers /\ ConsumerStep(c)

BrokerStep(b) == Start(b) \/ Recover(b)

Next ==
    \/ \E c \in Clients : ClientStep(c)
    \/ \E c \in Producers : Send(c) \/ ReplyLost(c) \/ Abandons(c) \/ GivesUp(c)
    \/ \E c \in Consumers : Consume(c) \/ ReadFails(c)
    \/ \E m \in late : LandLate(m)
    \/ \E b \in Brokers : BrokerStep(b) \/ Create(b) \/ Crash(b)
    \/ StopAll
    \/ Resize

Spec == Init /\ [][Next]_vars

\* Clients go on, brokers are restarted and recover, a resize is completed.  No
\* timeout is counted on.
FairSpec ==
    /\ Spec
    /\ \A c \in Clients : WF_vars(ClientStep(c))
    /\ \A b \in Brokers : WF_vars(BrokerStep(b))
    /\ WF_vars(Resize)

-----------------------------------------------------------------------------
(* Properties.                                                             *)

\* The brokers, their disks and the locals of the calls have their types.
TypeOK ==
    /\ size \in 1 .. MaxBrokers /\ offline \in BOOLEAN
    /\ broker \in [Brokers -> {"down", "booting", "ready", "refused"}]
    /\ meta \in [Brokers -> {Absent, Created, DefaultPartitions}]
    /\ \A b \in Brokers : DOMAIN log[b] \subseteq Parts
    /\ \A b \in Brokers : \A p \in DOMAIN log[b] : log[b][p] \in Seq(Records)
    /\ \A c \in Clients :
        /\ call[c].pc \in {"idle", "await", "route", "fetch", "refetch", "correct", "send",
                           "landed", "again", "read"}
        /\ call[c].asks \in 1 .. Len(Bootstrap[c]) /\ call[c].to \in Brokers
        /\ \A q \in call[c].todo : <<c, q.n>> \in Records /\ q.part \in Parts /\ q.to \in Brokers
        /\ call[c].pc = "send" => Group(c) # {}
        /\ routing[c].n \in 0 .. Cardinality(Parts)
    /\ \A m \in late : m.rec \in Records /\ m.part \in Parts /\ Accepts(m.to)
    /\ seen \in [Consumers -> Seq(Records)]

\* With care, a partition exists on one broker at most, whatever clients with
\* old tables, requests that arrive late, crashes and resizes do (Ring.owns:
\* "accepting it would create a second log for the same partition on the wrong
\* disk").
NoSplit ==
    scene.careful =>
        \A b, d \in Brokers : \A p \in DOMAIN log[b] \cap DOMAIN log[d] : b = d

Holds(b, d) ==
    /\ d.part \in DOMAIN log[b] /\ d.off < Len(log[b][d.part])
    /\ log[b][d.part][d.off + 1] = <<d.from, d.n>>

\* The topic was not created on one broker and made with the default count on
\* another ("In a cluster this must be called against EVERY broker").
Agreed == \A b, d \in Brokers : Absent \in {meta[b], meta[d]} \/ meta[b] = meta[d]

\* When all brokers are ready, what send or send_batch returned is found at that
\* partition and offset by asking the broker that the metadata names ("its
\* partitions ... then return intact", and a resize that moves each directory).
\* Where a resize forgot directories, some broker is not ready, or what is
\* missing is on the disk of a broker that left.
Reachable ==
    ~ offline /\ Agreed /\ (\A b \in 0 .. size - 1 : broker[b] = "ready") =>
        \A d \in delivered :
            \/ d.part < meta[Owner(size, d.part)] /\ Holds(Owner(size, d.part), d)
            \/ ~ scene.careful /\ \E b \in Brokers : b >= size /\ Holds(b, d)

\* With care, what a client sent for one key, one after the other or in a batch,
\* is in one partition and in that order, over retries and resizes ("records
\* come back in exactly the order they were sent").  It holds where brokers agree
\* on the count (Agreed), or as in MCCluster, where a client's Bootstrap leaves it
\* one source of the count: not for a topic with two counts and any other client.
KeyOrder ==
    scene.careful =>
        \A d, e \in delivered : d.from = e.from /\ d.key = e.key /\ d.key # NoKey /\ d.n < e.n =>
            d.part = e.part /\ d.off < e.off

\* While brokers serve, the log of a partition that another broker owns by now
\* stays as the resize left it, whatever a broker that is refused for it accepts
\* from clients with old tables: what is to be moved is what was left there ("their
\* segments are here but their owner is elsewhere").
OrphansFrozen ==
    [][~ offline => \A b \in Brokers : \A p \in DOMAIN log[b] :
          Owner(size, p) # b => p \in DOMAIN log'[b] /\ log'[b][p] = log[b][p]]_vars

SameBatch(c, m, n) == \E f \in 1 .. m : m < n /\ n <= Upto[c][f]

\* If a record of a batch is in a log, so are those of the same key before it,
\* and in that order, wherever the batch failed ("records for one key stay in
\* order because they share a partition and a stream").
BatchPrefix ==
    \A b \in Brokers : \A p \in DOMAIN log[b] : \A i \in DOMAIN log[b][p] :
        LET c == log[b][p][i][1]
            n == log[b][p][i][2]
        IN  \A m \in 1 .. n : SameBatch(c, m, n) /\ Sends[c][m] = Sends[c][n] /\ Sends[c][n] # NoKey =>
                \E j \in 1 .. i - 1 : log[b][p][j] = <<c, m>>

\* With care, what a consumer was given, resuming after every failure, redirect
\* and resize, is the log of its partition from the first record on, with none
\* skipped or repeated ("Each record carries its own offset, which is how a
\* caller knows where to resume").
ReadsResume ==
    scene.careful => \A c \in Consumers : seen[c] = <<>> \/
        \E b \in Brokers :
            /\ Watch[c] \in DOMAIN log[b] /\ Len(seen[c]) <= Len(log[b][Watch[c]])
            /\ seen[c] = SubSeq(log[b][Watch[c]], 1, Len(seen[c]))

\* The broker, partition and place of each copy of a record.
Copies(r) ==
    UNION {UNION {{<<b, p, i>> : i \in {j \in DOMAIN log[b][p] : log[b][p][j] = r}} :
        p \in DOMAIN log[b]} : b \in Brokers}

\* A record is in the logs once more than it should at most for each attempt
\* that got no answer; redirects, refusals and failed batches never leave a copy
\* ("if a record is written but the response is lost, the retry writes it
\* again").
OnlyLostRepeated == \A r \in Records : Cardinality(Copies(r)) <= 1 + lost[r]

\* A call comes to an end without its delivery_timeout, as long as its table
\* names no broker that has left the cluster: a client with an old table is put
\* right by the redirect, one whose broker is down waits until it is back.
SendEnds ==
    \A c \in Clients :
        call[c].pc \notin {"idle", "await"} ~> call[c].pc \in {"idle", "await"} \/ call[c].to >= size
=============================================================================
