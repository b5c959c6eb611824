------------------------------ MODULE LiveTail ------------------------------
(***************************************************************************)
(* How a record reaches the consumers of a broker: Consume and Produce of  *)
(* broker/handler.py over Store (broker/store.py) and Tail                 *)
(* (broker/tail.py), and the shutdown of cli/broker.py.                    *)
(*                                                                         *)
(* The coroutines share one event loop; a step between two awaits is one   *)
(* action here.  What asyncio.to_thread runs - the append and the read of  *)
(* a batch - happens in a worker thread, and its result reaches the        *)
(* coroutine only later.  When an RPC is cancelled (a client that left, a  *)
(* deadline, the end of the grace period) its coroutine stops where it     *)
(* awaits, but a worker thread goes on.                                    *)
(*                                                                         *)
(* The logs are what Log promises of them: a record is its offset, and a   *)
(* read returns all that is there, in order.                               *)
(***************************************************************************)
EXTENDS Naturals, Sequences, FiniteSets

CONSTANTS
    Parts,        \* the partitions this broker holds
    Elsewhere,    \* a partition it does not hold, or a topic that is unknown
    Producers, Consumers,
    Requests,     \* the ConsumeRequests a consumer may make
    Batch,        \* BATCH: records per trip to the worker thread
    MaxAppends,   \* bound: produce calls
    MaxFailures   \* bound: cancelled RPCs and appends that raise

Keys == Parts \cup {Elsewhere}

ASSUME PartsAssumption    == Elsewhere \notin Parts
ASSUME BatchAssumption    == Batch \in Nat \ {0}
ASSUME TailBounds         == MaxAppends \in Nat /\ MaxFailures \in Nat
ASSUME RequestsAssumption ==
    Requests \subseteq [part : Keys, from : Nat, follow : BOOLEAN, max : Nat]

VARIABLES
    log,       \* partition -> records in its Log
    acked,     \* [part, off] of the produce calls that got their response
    prod,      \* producer -> where its Produce call is
    con,       \* consumer -> where its Consume call is, and its locals
    events,    \* keys of Tail._events
    status,    \* how far the shutdown is
    appends, failures

vars == <<log, acked, prod, con, events, status, appends, failures>>

\* Tail._closed.
Closed == status # "serving"

\* Does the gRPC server still take calls?
Accepting == status \in {"serving", "closing"}

NoCall  == [pc |-> "idle"]
\* The locals of Consume: left is "remaining", 0 standing for None; waiter is
\* its Event, "pending" when that is the one in Tail._events and "set" once it
\* has fired; sent counts the records of the batch that were yielded.  History:
\* got is all that was yielded, owed what had been acknowledged at the start.
NoStream ==
    [pc |-> "idle", req |-> [part |-> Elsewhere, from |-> 0, follow |-> FALSE, max |-> 0],
     offset |-> 0, left |-> 0, waiter |-> "none", batch |-> <<>>, sent |-> 0,
     got |-> <<>>, owed |-> {}]

Init ==
    /\ log = [p \in Parts |-> 0]
    /\ acked = {}
    /\ prod = [q \in Producers |-> NoCall]
    /\ con = [c \in Consumers |-> NoStream]
    /\ events = {}
    /\ status = "serving"
    /\ appends = 0 /\ failures = 0

-----------------------------------------------------------------------------
(* Tail.                                                                   *)

\* The waiters of the consumers once the events of some keys have been set.
Woken(keys) ==
    [c \in Consumers |->
        IF con[c].waiter = "pending" /\ con[c].req.part \in keys
        THEN [con[c] EXCEPT !.waiter = "set"] ELSE con[c]]

\* (variant of Notify: the event is popped but not set)
Notify_Drops(p) ==
    /\ con' = con
    /\ events' = events \ {p}

\* Tail.notify: pop the event of the partition, if there is one, and set it.
Notify(p) ==
    /\ con' = IF p \in events THEN Woken({p}) ELSE con
    /\ events' = events \ {p}

\* (variant of Release: no event is set)
Release_Forgets ==
    /\ con' = con
    /\ events' = {}

\* Tail.close, apart from the flag: every waiter is released.
Release ==
    /\ con' = Woken(events)
    /\ events' = {}

-----------------------------------------------------------------------------
(* Produce.                                                                *)

Produce(q) ==
    /\ Accepting /\ prod[q].pc = "idle"
    /\ appends < MaxAppends
    /\ appends' = appends + 1
    /\ prod' = [prod EXCEPT ![q] = [pc |-> "thread"]]
    /\ UNCHANGED <<log, acked, con, events, status, failures>>

\* In the worker thread Topic.append has put the record in a partition (its
\* own choice when the request names none).
Land(q, p) ==
    /\ prod[q].pc = "thread"
    /\ log' = [log EXCEPT ![p] = @ + 1]
    /\ prod' = [prod EXCEPT ![q] = [pc |-> "landed", part |-> p, off |-> log[p]]]
    /\ UNCHANGED <<acked, con, events, status, appends, failures>>

\* (variant of Ack: nobody is notified)
Ack_Silent(q) ==
    /\ prod[q].pc = "landed"
    /\ acked' = acked \cup {[part |-> prod[q].part, off |-> prod[q].off]}
    /\ prod' = [prod EXCEPT ![q] = NoCall]
    /\ UNCHANGED <<con, events, log, status, appends, failures>>

\* Back on the event loop: notify, then the response.
Ack(q) ==
    /\ prod[q].pc = "landed"
    /\ Notify(prod[q].part)
    /\ acked' = acked \cup {[part |-> prod[q].part, off |-> prod[q].off]}
    /\ prod' = [prod EXCEPT ![q] = NoCall]
    /\ UNCHANGED <<log, status, appends, failures>>

\* Topic.append raises, before the record is in the log or after it: the fsync
\* that follows the append may fail.
AppendRaises(q) ==
    /\ prod[q].pc = "thread" /\ failures < MaxFailures
    /\ failures' = failures + 1
    /\ \E p \in Parts : log' \in {log, [log EXCEPT ![p] = @ + 1]}
    /\ prod' = [prod EXCEPT ![q] = NoCall]
    /\ UNCHANGED <<acked, con, events, status, appends>>

\* Its coroutine gone, a call's append may still be in the worker thread.
Abandoned(call) == IF call.pc = "thread" THEN [pc |-> "orphan"] ELSE
                   IF call.pc = "landed" THEN NoCall ELSE call

\* The RPC is cancelled.
CancelProduce(q) ==
    /\ prod[q].pc \in {"thread", "landed"} /\ failures < MaxFailures
    /\ failures' = failures + 1
    /\ prod' = [prod EXCEPT ![q] = Abandoned(@)]
    /\ UNCHANGED <<log, acked, con, events, status, appends>>

\* The thread finishes, for nobody.  Once the log is closed it may as well raise.
LandOrphan(q) ==
    /\ prod[q].pc = "orphan"
    /\ \/ \E p \in Parts : log' = [log EXCEPT ![p] = @ + 1]
       \/ status = "stopped" /\ UNCHANGED log
    /\ prod' = [prod EXCEPT ![q] = NoCall]
    /\ UNCHANGED <<acked, con, events, status, appends, failures>>

-----------------------------------------------------------------------------
(* Consume.                                                                *)

\* A call comes in.  A stream that follows ignores max_records.
Consume(c, req) ==
    /\ Accepting /\ con[c].pc = "idle"
    /\ con' = [con EXCEPT ![c] =
                [NoStream EXCEPT !.pc = "loop", !.req = req, !.offset = req.from,
                                 !.left = IF req.follow THEN 0 ELSE req.max,
                                 !.owed = {x.off : x \in {y \in acked : y.part = req.part}}]]
    /\ UNCHANGED <<log, acked, prod, events, status, appends, failures>>

\* limit: what one trip to the worker thread may fetch.
Limit(c) == IF con[c].left # 0 /\ con[c].left < Batch THEN con[c].left ELSE Batch

\* Tail.subscribe, the event of the key, made if there is none; and off to the
\* thread.
Subscribe(c) ==
    /\ con[c].pc = "loop"
    /\ \/ /\ con[c].req.follow
          /\ con' = [con EXCEPT ![c].pc = "reading", ![c].waiter = "pending"]
          /\ events' = events \cup {con[c].req.part}
       \/ /\ ~ con[c].req.follow
          /\ con' = [con EXCEPT ![c].pc = "reading"]
          /\ UNCHANGED events
    /\ UNCHANGED <<log, acked, prod, status, appends, failures>>

\* What a read of at most n records from an offset finds, in a log of that length.
Fetched(from, length, n) ==
    [i \in 1 .. (IF from >= length THEN 0 ELSE IF length - from < n THEN length - from ELSE n)
        |-> from + i - 1]

\* Store.read, in the thread.  What this broker does not hold ends the call.
Read(c) ==
    /\ con[c].pc = "reading"
    /\ \/ /\ con[c].req.part \in Parts
          /\ con' = [con EXCEPT ![c].pc = "sending", ![c].sent = 0,
                                ![c].batch = Fetched(con[c].offset, log[con[c].req.part], Limit(c))]
       \/ /\ con[c].req.part \notin Parts
          /\ con' = [con EXCEPT ![c].pc = "refused"]
    /\ UNCHANGED <<log, acked, prod, events, status, appends, failures>>

\* One record goes out; the client may take its time.
Send(c) ==
    /\ con[c].pc = "sending" /\ con[c].sent < Len(con[c].batch)
    /\ con' = [con EXCEPT ![c].sent = @ + 1,
                          ![c].got = Append(@, con[c].batch[con[c].sent + 1])]
    /\ UNCHANGED <<log, acked, prod, events, status, appends, failures>>

\* (variant of After: the last record's own offset)
After_Same(c) ==
    IF con[c].batch = <<>> THEN con[c].offset ELSE con[c].batch[Len(con[c].batch)]

\* The offset to resume from: batch[-1].offset + 1.
After(c) ==
    IF con[c].batch = <<>> THEN con[c].offset ELSE con[c].batch[Len(con[c].batch)] + 1

\* (variant of Left: counted down though there is no limit)
Left_Counts(c) == con[c].left - Len(con[c].batch)

Left(c) == IF con[c].left = 0 THEN 0 ELSE con[c].left - Len(con[c].batch)

\* (variant of Onward: a full batch is taken for the end of the log)
Onward_OneBatch(c) ==
    IF con[c].left # 0 /\ Left(c) = 0 THEN "ended"
    ELSE IF ~ con[c].req.follow \/ Closed THEN "ended"
    ELSE "parked"

\* max_records reached: the end.  A full batch: read on.  A short one: caught
\* up, so end, or wait for an append.
Onward(c) ==
    IF con[c].left # 0 /\ Left(c) = 0 THEN "ended"
    ELSE IF Len(con[c].batch) = Limit(c) THEN "loop"
    ELSE IF ~ con[c].req.follow \/ Closed THEN "ended"
    ELSE "parked"

\* (variant of Settle: the event is taken only here, when the read is over)
Settle_Subscribes(c) ==
    /\ con[c].pc = "sending" /\ con[c].sent = Len(con[c].batch)
    /\ con' = [con EXCEPT ![c].pc = Onward(c), ![c].offset = After(c), ![c].left = Left(c),
                          ![c].waiter = IF con[c].req.follow THEN "pending" ELSE @]
    /\ events' = events \cup {con[c].req.part}
    /\ UNCHANGED <<log, acked, prod, status, appends, failures>>

\* The whole batch is out, and no await until the wait or the next read.
Settle(c) ==
    /\ con[c].pc = "sending" /\ con[c].sent = Len(con[c].batch)
    /\ con' = [con EXCEPT ![c].pc = Onward(c), ![c].offset = After(c), ![c].left = Left(c)]
    /\ UNCHANGED <<log, acked, prod, events, status, appends, failures>>

\* After the wait: the end if the broker is shutting down, or another round.
GoOn(c) == con' = [con EXCEPT ![c].pc = IF Closed THEN "ended" ELSE "loop"]

\* The event has fired.
Wake(c) ==
    /\ con[c].pc = "parked" /\ con[c].waiter = "set"
    /\ GoOn(c)
    /\ UNCHANGED <<log, acked, prod, events, status, appends, failures>>

\* (variant of Poll: the TimeoutError is not suppressed and ends the stream)
Poll_Raises(c) ==
    /\ con[c].pc = "parked" /\ con[c].waiter = "pending"
    /\ con' = [con EXCEPT ![c].pc = "refused"]
    /\ UNCHANGED <<log, acked, prod, events, status, appends, failures>>

\* It has not, for POLL_SECONDS.
Poll(c) ==
    /\ con[c].pc = "parked" /\ con[c].waiter = "pending"
    /\ GoOn(c)
    /\ UNCHANGED <<log, acked, prod, events, status, appends, failures>>

Streaming(c) == con[c].pc \in {"loop", "reading", "sending", "parked"}

\* The client goes away.  Its event stays in Tail._events.
CancelConsume(c) ==
    /\ Streaming(c) /\ failures < MaxFailures
    /\ failures' = failures + 1
    /\ con' = [con EXCEPT ![c].pc = "cancelled"]
    /\ UNCHANGED <<log, acked, prod, events, status, appends>>

-----------------------------------------------------------------------------
(* Shutdown: serve() of cli/broker.py after the signal.                    *)

\* Step 2: Tail.close.  The flag is Closed, a matter of status.
CloseTail ==
    /\ status = "serving"
    /\ status' = "closing"
    /\ Release
    /\ UNCHANGED <<log, acked, prod, appends, failures>>

\* Step 3: BrokerServer.stop begins, no more calls are taken...
StopServer ==
    /\ status = "closing"
    /\ status' = "draining"
    /\ UNCHANGED <<log, acked, prod, con, events, appends, failures>>

\* ... and returns when those under way are done,
Drained ==
    /\ status = "draining"
    /\ \A q \in Producers : prod[q].pc \in {"idle", "orphan"}
    /\ \A c \in Consumers : ~ Streaming(c)
    /\ status' = "drained"
    /\ UNCHANGED <<log, acked, prod, con, events, appends, failures>>

\* or when the grace period is over, which cancels them.
GraceExpires ==
    /\ status = "draining"
    /\ prod' = [q \in Producers |-> Abandoned(prod[q])]
    /\ con' = [c \in Consumers |-> IF Streaming(c) THEN [con[c] EXCEPT !.pc = "cancelled"] ELSE con[c]]
    /\ status' = "drained"
    /\ UNCHANGED <<log, acked, events, appends, failures>>

\* Step 4: Store.close, which closes the tail again and then the logs.
CloseStore ==
    /\ status = "drained"
    /\ status' = "stopped"
    /\ Release
    /\ UNCHANGED <<log, acked, prod, appends, failures>>

-----------------------------------------------------------------------------
AppendStep(q) == (\E p \in Parts : Land(q, p)) \/ Ack(q) \/ LandOrphan(q)

StreamStep(c) == Subscribe(c) \/ Read(c) \/ Send(c) \/ Settle(c) \/ Wake(c)

Shutdown == StopServer \/ Drained \/ CloseStore

Next ==
    \/ \E q \in Producers : Produce(q) \/ AppendStep(q) \/ AppendRaises(q) \/ CancelProduce(q)
    \/ \E c \in Consumers : \/ \E req \in Requests : Consume(c, req)
                            \/ StreamStep(c)
                            \/ Poll(c)
                            \/ CancelConsume(c)
    \/ CloseTail
    \/ Shutdown
    \/ GraceExpires

Spec == Init /\ [][Next]_vars

\* Calls under way go on - worker threads finish, clients read what they are
\* sent - and so does a shutdown that has begun.  No timer is counted on.
Going ==
    /\ \A q \in Producers : WF_vars(AppendStep(q))
    /\ \A c \in Consumers : WF_vars(StreamStep(c))
    /\ WF_vars(Shutdown)

FairSpec == Spec /\ Going

-----------------------------------------------------------------------------
(* Properties.                                                             *)

CallType ==
    [pc : {"idle", "thread", "orphan"}] \cup [pc : {"landed"}, part : Parts, off : Nat]
StreamType ==
    [pc : {"idle", "loop", "reading", "sending", "parked", "ended", "refused", "cancelled"},
     req : [part : Keys, from : Nat, follow : BOOLEAN, max : Nat],
     offset : Nat, left : Nat, waiter : {"none", "pending", "set"},
     batch : Seq(Nat), sent : Nat, got : Seq(Nat), owed : SUBSET Nat]

\* The locals of the calls and the state of Tail and of the shutdown have
\* their types.
TypeOK ==
    /\ log \in [Parts -> Nat]
    /\ acked \subseteq [part : Parts, off : Nat]
    /\ prod \in [Producers -> CallType]
    /\ con \in [Consumers -> StreamType]
    /\ events \subseteq Keys
    /\ status \in {"serving", "closing", "draining", "drained", "stopped"}
    /\ appends \in Nat /\ failures \in Nat

\* A stream that waits, with an event that has not fired, has been sent every
\* record whose produce call got its response (the comment in Consume: "reading
\* first and subscribing second would miss an append landing in between").
NoLostWakeup ==
    \A c \in Consumers : con[c].pc = "parked" /\ con[c].waiter = "pending" =>
        \A x \in acked : x.part = con[c].req.part => x.off < con[c].offset

\* An event someone waits for can still fire: it is in Tail._events, so that
\* the next notify or close finds it (Tail.subscribe, Tail.notify).
WaiterReachable ==
    \A c \in Consumers : Streaming(c) /\ con[c].waiter = "pending" => con[c].req.part \in events

\* What a stream was sent is a run of records of its partition from the offset
\* asked for, no gap and no repetition over batches, waits and polls, and not
\* more than max_records.
CleanStream ==
    \A c \in Consumers : LET s == con[c] IN
        /\ \A k \in DOMAIN s.got : s.got[k] = s.req.from + k - 1 /\ s.got[k] < log[s.req.part]
        /\ ~ s.req.follow /\ s.req.max # 0 => Len(s.got) <= s.req.max

\* A read that came to its end by itself has sent max_records, or everything
\* acknowledged before the call came.
ReadComplete ==
    \A c \in Consumers : LET s == con[c] IN s.pc = "ended" /\ ~ s.req.follow =>
        \/ s.req.max # 0 /\ Len(s.got) = s.req.max
        \/ \A o \in s.owed : o < s.req.from + Len(s.got)

Follows(c, p) == con[c].req.follow /\ con[c].req.part = p /\ Streaming(c)

\* The stream has been sent the record, or is over, by the client's or the
\* broker's own will.
SentOrOver(c, o) ==
    \/ \E k \in DOMAIN con[c].got : con[c].got[k] = o
    \/ con[c].pc \in {"ended", "cancelled"} /\ (con[c].pc = "ended" => Closed)

\* A follower is sent every record that was acknowledged, the poll not counted
\* on (POLL_SECONDS: "NOT the mechanism - Tail.notify is").
Followed ==
    \A c \in Consumers, p \in Parts, o \in 0 .. MaxAppends - 1 :
        Follows(c, p) /\ con[c].req.from <= o /\ [part |-> p, off |-> o] \in acked ~> SentOrOver(c, o)

Polling == \A c \in Consumers : WF_vars(Poll(c))

\* With the poll it is sent every record that landed, whether or not anybody
\* was notified ("this only bounds the damage if a notification is missed").
Backstop ==
    Polling => \A c \in Consumers, p \in Parts, o \in 0 .. MaxAppends - 1 :
        Follows(c, p) /\ con[c].req.from <= o /\ o < log[p] ~> SentOrOver(c, o)

\* A shutdown goes through without the grace period and without the poll: no
\* stream is left parked (Tail.close, and the order of the steps of serve).
Drains == status = "closing" ~> status = "stopped"

\* A stream waits only when nothing is in the log for it, or an append that is
\* under way will notify it (POLL_SECONDS: if the timeout does real work,
\* "there is a missing notify() to go and find").
PollIdle ==
    \A c \in Consumers : con[c].pc = "parked" /\ con[c].waiter = "pending" =>
        \/ con[c].offset >= log[con[c].req.part]
        \/ \E q \in Producers : prod[q].pc = "landed" /\ prod[q].part = con[c].req.part
=============================================================================
