--------------------------- MODULE LiveTailProofs ---------------------------
(***************************************************************************)
(* No wakeup of a live tail is lost, for any number of producers,          *)
(* consumers and partitions, any batch size, and however calls are         *)
(* cancelled: a stream that waits on an event that has not fired has been  *)
(* sent every record that was acknowledged.                                *)
(*                                                                         *)
(* NoLostWakeup is about a stream that waits; what makes it inductive is   *)
(* the same fact one await earlier (CaughtUp: the batch that was just read *)
(* was short, so it reached past every acknowledged record), that an       *)
(* acknowledged record is in the log (Landed), and that an event someone   *)
(* waits for can be found by notify (WaiterReachable).  Bounded is needed  *)
(* for the types alone: "remaining" never falls below zero.                *)
(*                                                                         *)
(* The second part is what a stream was sent: StreamOK says for each await *)
(* of Consume where the stream is in its partition, so that batches join   *)
(* without a gap or a repetition, and that a read ends with nothing left   *)
(* to send or with max_records sent.                                       *)
(***************************************************************************)
EXTENDS LiveTail, SequenceTheorems, TLAPS

\* What is acknowledged, or about to be, is in the log.
Landed ==
    /\ \A x \in acked : x.off < log[x.part]
    /\ \A q \in Producers : prod[q].pc = "landed" => prod[q].off < log[prod[q].part]

\* A short batch reaches past all that was acknowledged, unless the event of
\* its stream has fired since.
CaughtUp ==
    \A c \in Consumers :
        con[c].pc = "sending" /\ con[c].waiter = "pending" /\ Len(con[c].batch) # Limit(c) =>
            \A x \in acked : x.part = con[c].req.part => x.off < After(c)

\* A batch holds no more than max_records still allows.
Bounded ==
    \A c \in Consumers :
        con[c].pc = "sending" /\ con[c].left # 0 => Len(con[c].batch) <= con[c].left

TailInv == TypeOK /\ Landed /\ WaiterReachable /\ CaughtUp /\ Bounded /\ NoLostWakeup

-----------------------------------------------------------------------------
(* The operators of the model.                                             *)

\* An event that fires changes nothing of a stream but its waiter.
LEMMA WokenStreams ==
    ASSUME TypeOK, NEW keys \in SUBSET Keys
    PROVE  /\ Woken(keys) \in [Consumers -> StreamType]
           /\ \A c \in Consumers :
                /\ Woken(keys)[c].pc = con[c].pc /\ Woken(keys)[c].req = con[c].req
                /\ Woken(keys)[c].batch = con[c].batch /\ Woken(keys)[c].offset = con[c].offset
                /\ Woken(keys)[c].left = con[c].left
                /\ Woken(keys)[c].waiter = "pending" =>
                       con[c].waiter = "pending" /\ con[c].req.part \notin keys
<1> SUFFICES ASSUME NEW c \in Consumers
             PROVE  /\ Woken(keys)[c] \in StreamType
                    /\ Woken(keys)[c].pc = con[c].pc /\ Woken(keys)[c].req = con[c].req
                    /\ Woken(keys)[c].batch = con[c].batch /\ Woken(keys)[c].offset = con[c].offset
                    /\ Woken(keys)[c].left = con[c].left
                    /\ Woken(keys)[c].waiter = "pending" =>
                           con[c].waiter = "pending" /\ con[c].req.part \notin keys
  BY DEF Woken
<1>1. con[c] \in StreamType
  BY DEF TypeOK
<1>2. Woken(keys)[c] = IF con[c].waiter = "pending" /\ con[c].req.part \in keys
                       THEN [con[c] EXCEPT !.waiter = "set"] ELSE con[c]
  BY DEF Woken
<1>3. CASE con[c].waiter = "pending" /\ con[c].req.part \in keys
  <2> DEFINE s == [con[c] EXCEPT !.waiter = "set"]
  <2>1. /\ s \in StreamType /\ s.waiter = "set" /\ s.pc = con[c].pc /\ s.req = con[c].req
        /\ s.batch = con[c].batch /\ s.offset = con[c].offset /\ s.left = con[c].left
    BY <1>1, ZenonT(30) DEF StreamType
  <2> HIDE DEF s
  <2>2. Woken(keys)[c] = s
    BY <1>2, <1>3 DEF s
  <2> QED
    BY <2>1, <2>2
<1>4. CASE ~ (con[c].waiter = "pending" /\ con[c].req.part \in keys)
  BY <1>1, <1>2, <1>4 DEF StreamType
<1> QED
  BY <1>3, <1>4

\* A read that finds fewer records than it may fetch has reached the end.
LEMMA FetchedShort ==
    ASSUME NEW from \in Nat, NEW length \in Nat, NEW n \in Nat \ {0}
    PROVE  LET b == Fetched(from, length, n) IN
           /\ b \in Seq(Nat) /\ Len(b) \in Nat /\ Len(b) <= n
           /\ Len(b) # n => IF b = <<>> THEN length <= from ELSE b[Len(b)] + 1 = length
<1> DEFINE k == IF from >= length THEN 0 ELSE IF length - from < n THEN length - from ELSE n
           b == Fetched(from, length, n)
<1>1. k \in Nat /\ b = [i \in 1 .. k |-> from + i - 1]
  BY DEF Fetched
<1> HIDE DEF k
<1>2. \A i \in 1 .. k : from + i - 1 \in Nat
  BY <1>1
<1>3. b \in Seq(Nat) /\ Len(b) = k
  BY <1>1, <1>2
<1>4. k <= n
  BY DEF k
<1>7. k # n => (k = 0 /\ length <= from) \/ (k >= 1 /\ k = length - from)
  BY DEF k
<1>5. b = <<>> <=> k = 0
  BY <1>3, EmptySeq
<1>6. k >= 1 => b[k] = from + k - 1
  BY <1>1
<1> HIDE DEF b
<1> QED
  BY <1>1, <1>3, <1>4, <1>7, <1>5, <1>6 DEF b

\* Where a stream resumes, and what it may fetch, are numbers.
LEMMA StreamNumbers ==
    ASSUME TypeOK, NEW c \in Consumers
    PROVE  After(c) \in Nat /\ Limit(c) \in Nat \ {0}
<1>1. con[c] \in StreamType
  BY DEF TypeOK
<1>2. con[c].batch \in Seq(Nat) /\ con[c].offset \in Nat /\ con[c].left \in Nat
  BY <1>1 DEF StreamType
<1>3. con[c].batch # <<>> => con[c].batch[Len(con[c].batch)] \in Nat
  BY <1>2, EmptySeq, ElementOfSeq
<1> QED
  BY <1>2, <1>3, BatchAssumption DEF After, Limit

-----------------------------------------------------------------------------
(* Steps of producers, and of the shutdown.                                *)

\* Nothing is acknowledged for now and no event changes: the logs may only
\* grow, and a record that landed is in one of them.
LEMMA LogsGrow ==
    ASSUME TailInv, UNCHANGED <<acked, con, events>>, status' = status,
           appends' \in Nat, failures' \in Nat,
           log' \in [Parts -> Nat], \A p \in Parts : log'[p] >= log[p],
           prod' \in [Producers -> CallType],
           \A q \in Producers : prod'[q].pc = "landed" => prod'[q].off < log'[prod'[q].part]
    PROVE  TailInv'
<1>1. TypeOK'
  BY DEF TailInv, TypeOK
<1>2. Landed'
  <2>1. ASSUME NEW x \in acked PROVE x.off < log'[x.part]
    <3>1. x.part \in Parts /\ x.off \in Nat /\ x.off < log[x.part]
      BY DEF TailInv, TypeOK, Landed
    <3>2. log[x.part] \in Nat /\ log'[x.part] \in Nat
      BY <3>1 DEF TailInv, TypeOK
    <3> QED
      BY <3>1, <3>2
  <2> QED
    BY <2>1 DEF Landed
<1>3. WaiterReachable' /\ CaughtUp' /\ Bounded' /\ NoLostWakeup'
  BY DEF TailInv, WaiterReachable, CaughtUp, Bounded, NoLostWakeup, Streaming, After, Limit
<1> QED
  BY <1>1, <1>2, <1>3 DEF TailInv

\* A call that has no record of its own in a log, and a log with one record more.
LEMMA Growing ==
    ASSUME TailInv, NEW p \in Parts
    PROVE  /\ log[p] \in Nat
           /\ [log EXCEPT ![p] = @ + 1] \in [Parts -> Nat]
           /\ [log EXCEPT ![p] = @ + 1][p] = log[p] + 1
           /\ \A x \in Parts : [log EXCEPT ![p] = @ + 1][x] >= log[x]
           /\ \A q \in Producers : prod[q].pc = "landed" =>
                  prod[q].off < [log EXCEPT ![p] = @ + 1][prod[q].part]
<1>1. log \in [Parts -> Nat] /\ log[p] \in Nat
  BY DEF TailInv, TypeOK
<1>2. \A x \in Parts : [log EXCEPT ![p] = @ + 1][x] = IF x = p THEN log[p] + 1 ELSE log[x]
  BY <1>1
<1>3. ASSUME NEW q \in Producers, prod[q].pc = "landed"
      PROVE  prod[q].off < [log EXCEPT ![p] = @ + 1][prod[q].part]
  <2>1. prod[q] \in CallType
    BY DEF TailInv, TypeOK
  <2>2. prod[q].part \in Parts /\ prod[q].off \in Nat /\ prod[q].off < log[prod[q].part]
    BY <1>3, <2>1 DEF CallType, TailInv, Landed
  <2>3. log[prod[q].part] \in Nat
    BY <1>1, <2>2
  <2> QED
    BY <1>1, <1>2, <2>2, <2>3
<1> QED
  BY <1>1, <1>2, <1>3

\* What is left of a call is a call, and has landed nothing.
LEMMA AbandonedType ==
    ASSUME NEW call \in CallType
    PROVE  Abandoned(call) \in CallType /\ Abandoned(call).pc # "landed"
BY DEF Abandoned, CallType, NoCall

\* Steps of a produce call up to the notification.
LEMMA TailProduce ==
    ASSUME TailInv, NEW q \in Producers,
           \/ Produce(q) \/ (\E p \in Parts : Land(q, p)) \/ AppendRaises(q)
           \/ CancelProduce(q) \/ LandOrphan(q)
    PROVE  TailInv'
<1>1. /\ prod \in [Producers -> CallType] /\ log \in [Parts -> Nat]
      /\ appends \in Nat /\ failures \in Nat
      /\ \A x \in Producers : prod[x].pc = "landed" => prod[x].off < log[prod[x].part]
  BY DEF TailInv, TypeOK, Landed
<1>2. NoCall \in CallType /\ NoCall.pc # "landed"
  BY DEF NoCall, CallType
<1>3. CASE Produce(q)
  <2>1. [pc |-> "thread"] \in CallType /\ [pc |-> "thread"].pc # "landed"
    BY DEF CallType
  <2>2. prod' = [prod EXCEPT ![q] = [pc |-> "thread"]] /\ appends' \in Nat /\ log' = log
    BY <1>1, <1>3 DEF Produce
  <2>3. \A x \in Producers : prod'[x].pc = "landed" => prod'[x].off < log'[prod'[x].part]
    BY <1>1, <2>1, <2>2
  <2>4. prod' \in [Producers -> CallType] /\ \A p \in Parts : log'[p] >= log[p]
    BY <1>1, <2>1, <2>2
  <2> QED
    BY <1>1, <1>3, <2>2, <2>3, <2>4, LogsGrow DEF Produce
<1>4. ASSUME NEW p \in Parts, Land(q, p) PROVE TailInv'
  <2> DEFINE call == [pc |-> "landed", part |-> p, off |-> log[p]]
             more == [log EXCEPT ![p] = @ + 1]
  <2>1. log' = more /\ prod' = [prod EXCEPT ![q] = call]
    BY <1>4 DEF Land
  <2>2. call \in CallType /\ call.part = p /\ call.off = log[p]
    BY <1>1 DEF CallType
  <2>3. /\ more \in [Parts -> Nat] /\ more[p] = log[p] + 1 /\ log[p] \in Nat
        /\ \A x \in Parts : more[x] >= log[x]
        /\ \A x \in Producers : prod[x].pc = "landed" => prod[x].off < more[prod[x].part]
    BY Growing
  <2> HIDE DEF call, more
  <2>4. \A x \in Producers : prod'[x].pc = "landed" => prod'[x].off < log'[prod'[x].part]
    BY <1>1, <2>1, <2>2, <2>3
  <2>5. prod' \in [Producers -> CallType]
    BY <1>1, <2>1, <2>2
  <2> QED
    BY <1>1, <1>4, <2>1, <2>3, <2>4, <2>5, LogsGrow DEF Land
<1>5. ASSUME NEW call \in CallType, call.pc # "landed", prod' = [prod EXCEPT ![q] = call],
             log' = log \/ \E p \in Parts : log' = [log EXCEPT ![p] = @ + 1],
             UNCHANGED <<acked, con, events, status, appends>>, failures' \in Nat
      PROVE  TailInv'
  <2>1. /\ log' \in [Parts -> Nat] /\ \A p \in Parts : log'[p] >= log[p]
        /\ \A x \in Producers : prod[x].pc = "landed" => prod[x].off < log'[prod[x].part]
    <3>1. CASE log' = log
      BY <1>1, <3>1
    <3>2. ASSUME NEW p \in Parts, log' = [log EXCEPT ![p] = @ + 1]
          PROVE  /\ log' \in [Parts -> Nat] /\ \A x \in Parts : log'[x] >= log[x]
                 /\ \A x \in Producers : prod[x].pc = "landed" => prod[x].off < log'[prod[x].part]
      BY <3>2, Growing
    <3> QED
      BY <1>5, <3>1, <3>2
  <2>2. \A x \in Producers : prod'[x].pc = "landed" => prod'[x].off < log'[prod'[x].part]
    BY <1>1, <1>5, <2>1
  <2>3. prod' \in [Producers -> CallType]
    BY <1>1, <1>5
  <2> QED
    BY <1>1, <1>5, <2>1, <2>2, <2>3, LogsGrow
<1>6. CASE AppendRaises(q)
  <2>1. /\ prod' = [prod EXCEPT ![q] = NoCall] /\ failures' = failures + 1
        /\ UNCHANGED <<acked, con, events, status, appends>>
        /\ (log' = log \/ \E p \in Parts : log' = [log EXCEPT ![p] = @ + 1])
    BY <1>6 DEF AppendRaises
  <2>2. failures' \in Nat
    BY <1>1, <2>1
  <2> QED
    BY <1>2, <1>5, <2>1, <2>2
<1>7. CASE CancelProduce(q)
  <2>1. Abandoned(prod[q]) \in CallType /\ Abandoned(prod[q]).pc # "landed"
    BY <1>1, AbandonedType
  <2>2. /\ prod' = [prod EXCEPT ![q] = Abandoned(prod[q])] /\ log' = log /\ failures' = failures + 1
        /\ UNCHANGED <<acked, con, events, status, appends>>
    BY <1>7 DEF CancelProduce
  <2> QED
    <3>1. failures' \in Nat
      BY <1>1, <2>2
    <3> QED
      BY <1>5, <2>1, <2>2, <3>1
<1>8. CASE LandOrphan(q)
  BY <1>1, <1>2, <1>5, <1>8 DEF LandOrphan
<1> QED
  BY <1>3, <1>4, <1>6, <1>7, <1>8

\* Firing the events of some keys disturbs no stream, whatever else the step
\* acknowledges, if it is one of those keys and in the log.
LEMMA EventsFire ==
    ASSUME TailInv, NEW keys \in SUBSET Keys, con' = Woken(keys), events' = events \ keys,
           UNCHANGED <<log, appends, failures>>,
           status' \in {"serving", "closing", "draining", "drained", "stopped"},
           prod' \in [Producers -> CallType],
           \A q \in Producers : prod'[q].pc = "landed" => prod'[q] = prod[q],
           acked' \subseteq [part : Parts, off : Nat],
           \A x \in acked' \ acked : x.part \in keys /\ x.off < log[x.part]
    PROVE  TailInv'
<1> DEFINE w == Woken(keys)
<1>1. /\ w \in [Consumers -> StreamType]
      /\ \A c \in Consumers :
            /\ w[c].pc = con[c].pc /\ w[c].req = con[c].req
            /\ w[c].batch = con[c].batch /\ w[c].offset = con[c].offset
            /\ w[c].left = con[c].left
            /\ w[c].waiter = "pending" => con[c].waiter = "pending" /\ con[c].req.part \notin keys
  BY WokenStreams DEF TailInv
<1>2. con' = w
  OBVIOUS
<1> HIDE DEF w
<1>3. ASSUME NEW c \in Consumers
      PROVE  /\ con'[c].pc = con[c].pc /\ con'[c].req = con[c].req
             /\ con'[c].batch = con[c].batch /\ con'[c].offset = con[c].offset
             /\ con'[c].left = con[c].left
             /\ con'[c].waiter = "pending" => con[c].waiter = "pending" /\ con[c].req.part \notin keys
  BY <1>1, <1>2
<1>4. TypeOK'
  BY <1>1, <1>2 DEF TailInv, TypeOK
<1>5. Landed'
  BY DEF TailInv, Landed
<1>6. WaiterReachable'
  BY <1>3 DEF TailInv, WaiterReachable, Streaming
<1>7. CaughtUp'
  <2> SUFFICES ASSUME NEW c \in Consumers, con'[c].pc = "sending", con'[c].waiter = "pending",
                      Len(con'[c].batch) # Limit(c)', NEW x \in acked', x.part = con'[c].req.part
               PROVE  x.off < After(c)'
    BY DEF CaughtUp
  <2>1. After(c)' = After(c) /\ Limit(c)' = Limit(c) /\ x \in acked
    BY <1>3 DEF After, Limit
  <2> QED
    BY <1>3, <2>1 DEF TailInv, CaughtUp
<1>8. NoLostWakeup'
  <2> SUFFICES ASSUME NEW c \in Consumers, con'[c].pc = "parked", con'[c].waiter = "pending",
                      NEW x \in acked', x.part = con'[c].req.part
               PROVE  x.off < con'[c].offset
    BY DEF NoLostWakeup
  <2>1. x \in acked
    BY <1>3
  <2> QED
    BY <1>3, <2>1 DEF TailInv, NoLostWakeup
<1>9. Bounded'
  BY <1>3 DEF TailInv, Bounded
<1> QED
  BY <1>4, <1>5, <1>6, <1>7, <1>8, <1>9 DEF TailInv

\* The notification and the response.
LEMMA TailAck == ASSUME TailInv, NEW q \in Producers, Ack(q) PROVE TailInv'
<1> DEFINE p == prod[q].part
           x == [part |-> p, off |-> prod[q].off]
<1>1. prod[q] \in CallType /\ prod[q].pc = "landed"
  BY DEF Ack, TailInv, TypeOK
<1>2. p \in Parts /\ prod[q].off \in Nat /\ prod[q].off < log[p]
  BY <1>1 DEF CallType, TailInv, Landed
<1>3. /\ Notify(p) /\ acked' = acked \cup {x} /\ prod' = [prod EXCEPT ![q] = NoCall]
      /\ UNCHANGED <<log, status, appends, failures>>
  BY DEF Ack
<1>4. /\ prod' \in [Producers -> CallType]
      /\ \A y \in Producers : prod'[y].pc = "landed" => prod'[y] = prod[y]
  BY <1>3 DEF TailInv, TypeOK, NoCall, CallType
<1>5. acked' \subseteq [part : Parts, off : Nat]
      /\ \A y \in acked' \ acked : y.part \in {p} /\ y.off < log[y.part]
  BY <1>2, <1>3 DEF TailInv, TypeOK
<1>6. status \in {"serving", "closing", "draining", "drained", "stopped"} /\ {p} \in SUBSET Keys
  BY <1>2 DEF TailInv, TypeOK, Keys
<1> HIDE DEF p, x
<1>7. CASE p \in events
  <2>1. con' = Woken({p}) /\ events' = events \ {p}
    BY <1>3, <1>7 DEF Notify
  <2> QED
    BY <1>3, <1>4, <1>5, <1>6, <2>1, EventsFire
<1>8. CASE p \notin events
  <2>1. con' = con /\ events' = events
    BY <1>3, <1>8 DEF Notify
  <2>2. TypeOK' /\ Landed'
    BY <1>3, <1>4, <1>5, <2>1 DEF TailInv, TypeOK, Landed
  <2>3. WaiterReachable'
    BY <2>1 DEF TailInv, WaiterReachable, Streaming
  <2>4. \A c \in Consumers : Streaming(c) /\ con[c].waiter = "pending" => con[c].req.part # p
    BY <1>8 DEF TailInv, WaiterReachable
  <2>5. \A c \in Consumers, y \in acked' :
            Streaming(c) /\ con[c].waiter = "pending" /\ y.part = con[c].req.part => y \in acked
    BY <1>5, <2>4
  <2>6. CaughtUp'
    <3>1. \A c \in Consumers : After(c)' = After(c) /\ Limit(c)' = Limit(c)
      BY <2>1 DEF After, Limit
    <3> QED
      BY <2>1, <2>5, <3>1 DEF TailInv, CaughtUp, Streaming
  <2>7. NoLostWakeup'
    BY <2>1, <2>5 DEF TailInv, NoLostWakeup, Streaming
  <2>8. Bounded'
    BY <2>1 DEF TailInv, Bounded
  <2> QED
    BY <2>2, <2>3, <2>6, <2>7, <2>8 DEF TailInv
<1> QED
  BY <1>7, <1>8

\* The steps of a shutdown.
LEMMA TailShutdown ==
    ASSUME TailInv, CloseTail \/ StopServer \/ Drained \/ GraceExpires \/ CloseStore
    PROVE  TailInv'
<1>1. CASE CloseTail \/ CloseStore
  <2>1. /\ con' = Woken(events) /\ events' = events \ events
        /\ UNCHANGED <<log, acked, prod, appends, failures>>
        /\ status' \in {"serving", "closing", "draining", "drained", "stopped"}
    BY <1>1 DEF CloseTail, CloseStore, Release
  <2>2. events \in SUBSET Keys /\ prod \in [Producers -> CallType]
        /\ acked \subseteq [part : Parts, off : Nat]
    BY DEF TailInv, TypeOK
  <2> QED
    BY <2>1, <2>2, EventsFire
<1>2. CASE StopServer \/ Drained
  <2>1. /\ UNCHANGED <<log, acked, prod, con, events, appends, failures>>
        /\ status' \in {"serving", "closing", "draining", "drained", "stopped"}
    BY <1>2 DEF StopServer, Drained
  <2> QED
    BY <2>1 DEF TailInv, TypeOK, Landed, WaiterReachable, CaughtUp, Bounded, NoLostWakeup, Streaming,
                After, Limit
<1>3. CASE GraceExpires
  <2>1. /\ prod' = [q \in Producers |-> Abandoned(prod[q])]
        /\ con' = [c \in Consumers |->
                      IF Streaming(c) THEN [con[c] EXCEPT !.pc = "cancelled"] ELSE con[c]]
        /\ status' = "drained" /\ UNCHANGED <<log, acked, events, appends, failures>>
    BY <1>3 DEF GraceExpires
  <2>2. ASSUME NEW q \in Producers PROVE prod'[q] \in CallType /\ prod'[q].pc # "landed"
    <3>1. prod[q] \in CallType
      BY DEF TailInv, TypeOK
    <3> QED
      BY <2>1, <3>1, AbandonedType
  <2>3. ASSUME NEW c \in Consumers
        PROVE  con'[c] \in StreamType /\ con'[c].pc \notin {"loop", "reading", "sending", "parked"}
    <3>1. con[c] \in StreamType
      BY DEF TailInv, TypeOK
    <3>2. CASE Streaming(c)
      BY <2>1, <3>1, <3>2 DEF StreamType
    <3>3. CASE ~ Streaming(c)
      BY <2>1, <3>1, <3>3 DEF Streaming
    <3> QED
      BY <3>2, <3>3
  <2>4. TypeOK'
    <3>1. prod' \in [Producers -> CallType]
      BY <2>1, <2>2
    <3>2. con' \in [Consumers -> StreamType]
      BY <2>1, <2>3
    <3> QED
      BY <2>1, <3>1, <3>2 DEF TailInv, TypeOK
  <2>5. Landed'
    BY <2>1, <2>2 DEF TailInv, Landed
  <2>6. WaiterReachable' /\ CaughtUp' /\ Bounded' /\ NoLostWakeup'
    BY <2>3 DEF WaiterReachable, CaughtUp, Bounded, NoLostWakeup, Streaming
  <2> QED
    BY <2>4, <2>5, <2>6 DEF TailInv
<1> QED
  BY <1>1, <1>2, <1>3

-----------------------------------------------------------------------------
(* Steps of streams.                                                       *)

\* One stream moves on: what the invariant says of it is all there is to show.
LEMMA StreamMoves ==
    ASSUME TailInv, NEW c \in Consumers, NEW s \in StreamType, con' = [con EXCEPT ![c] = s],
           UNCHANGED <<log, acked, prod, status, appends>>, failures' \in Nat,
           events \subseteq events', events' \subseteq Keys,
           s.pc \in {"loop", "reading", "sending", "parked"} /\ s.waiter = "pending" =>
               s.req.part \in events',
           s.pc = "sending" => CaughtUp' /\ (s.left # 0 => Len(s.batch) <= s.left),
           s.pc = "parked" /\ s.waiter = "pending" =>
               \A x \in acked : x.part = s.req.part => x.off < s.offset
    PROVE  TailInv'
<1>1. con'[c] = s /\ \A d \in Consumers \ {c} : con'[d] = con[d]
  BY DEF TailInv, TypeOK
<1>2. TypeOK'
  BY DEF TailInv, TypeOK
<1>3. Landed'
  BY DEF TailInv, Landed
<1>4. WaiterReachable'
  BY <1>1 DEF TailInv, WaiterReachable, Streaming
<1>5. CaughtUp'
  <2>1. CASE s.pc # "sending"
    <3>1. \A d \in Consumers \ {c} : After(d)' = After(d) /\ Limit(d)' = Limit(d)
      BY <1>1 DEF After, Limit
    <3> QED
      BY <1>1, <2>1, <3>1 DEF TailInv, CaughtUp
  <2> QED
    BY <2>1
<1>6. NoLostWakeup'
  BY <1>1 DEF TailInv, NoLostWakeup
<1>7. Bounded'
  BY <1>1 DEF TailInv, Bounded
<1> QED
  BY <1>2, <1>3, <1>4, <1>5, <1>6, <1>7 DEF TailInv

\* The streams other than the one that moves stay caught up, and so does it if
\* its batch is long enough.
LEMMA StillCaughtUp ==
    ASSUME TailInv, NEW c \in Consumers, acked' = acked,
           \A d \in Consumers \ {c} : con'[d] = con[d],
           con'[c].waiter = "pending" /\ Len(con'[c].batch) # Limit(c)' =>
               \A x \in acked : x.part = con'[c].req.part => x.off < After(c)'
    PROVE  CaughtUp'
<1>1. \A d \in Consumers \ {c} : After(d)' = After(d) /\ Limit(d)' = Limit(d)
  BY DEF After, Limit
<1> QED
  BY <1>1 DEF TailInv, CaughtUp

\* A stream that starts waits for nothing and owes what had been acknowledged.
LEMMA TailConsume ==
    ASSUME TailInv, NEW c \in Consumers, NEW req \in Requests, Consume(c, req)
    PROVE  TailInv'
<1> DEFINE owed == {x.off : x \in {y \in acked : y.part = req.part}}
           s == [NoStream EXCEPT !.pc = "loop", !.req = req, !.offset = req.from,
                                 !.left = IF req.follow THEN 0 ELSE req.max, !.owed = owed]
<1>1. req \in [part : Keys, from : Nat, follow : BOOLEAN, max : Nat]
  BY RequestsAssumption
<1>2. owed \in SUBSET Nat
  BY DEF TailInv, TypeOK
<1> HIDE DEF owed
<1>3. s \in StreamType /\ s.pc = "loop" /\ s.waiter = "none"
  BY <1>1, <1>2, EmptySeq DEF NoStream, StreamType
<1>4. con' = [con EXCEPT ![c] = s] /\ UNCHANGED <<log, acked, prod, events, status, appends, failures>>
  BY DEF Consume, owed
<1> HIDE DEF s
<1> QED
  BY <1>3, <1>4, StreamMoves DEF TailInv, TypeOK

\* The Event a follower gets is in Tail._events before it reads.
LEMMA TailSubscribe ==
    ASSUME TailInv, NEW c \in Consumers, Subscribe(c)
    PROVE  TailInv'
<1>1. con[c] \in StreamType /\ con[c].req.part \in Keys /\ con[c].pc = "loop"
      /\ events \subseteq Keys /\ failures \in Nat
  BY DEF Subscribe, TailInv, TypeOK, StreamType
<1>2. CASE con[c].req.follow
  <2> DEFINE s == [con[c] EXCEPT !.pc = "reading", !.waiter = "pending"]
  <2>1. con' = [con EXCEPT ![c] = s] /\ events' = events \cup {con[c].req.part}
        /\ UNCHANGED <<log, acked, prod, status, appends, failures>>
    BY <1>2 DEF Subscribe
  <2>2. s \in StreamType /\ s.pc = "reading" /\ s.req = con[c].req
    BY <1>1 DEF StreamType
  <2> HIDE DEF s
  <2> QED
    BY <1>1, <2>1, <2>2, StreamMoves
<1>3. CASE ~ con[c].req.follow
  <2> DEFINE s == [con[c] EXCEPT !.pc = "reading"]
  <2>1. con' = [con EXCEPT ![c] = s]
        /\ UNCHANGED <<log, acked, prod, events, status, appends, failures>>
    BY <1>3 DEF Subscribe
  <2>2. s \in StreamType /\ s.pc = "reading" /\ s.waiter = con[c].waiter /\ s.req = con[c].req
    BY <1>1 DEF StreamType
  <2>3. s.waiter = "pending" => s.req.part \in events
    BY <1>1, <2>2 DEF TailInv, WaiterReachable, Streaming
  <2> HIDE DEF s
  <2> QED
    BY <1>1, <2>1, <2>2, <2>3, StreamMoves
<1> QED
  BY <1>2, <1>3

\* A stream that was just read from reaches past the end of its log, or has a
\* full batch.
LEMMA TailRead ==
    ASSUME TailInv, NEW c \in Consumers, Read(c)
    PROVE  TailInv'
<1>1. con[c] \in StreamType /\ con[c].pc = "reading" /\ con[c].offset \in Nat
      /\ events \subseteq Keys /\ failures \in Nat /\ log \in [Parts -> Nat]
      /\ UNCHANGED <<log, acked, prod, events, status, appends, failures>>
  BY DEF Read, TailInv, TypeOK, StreamType
<1>2. con[c].waiter = "pending" => con[c].req.part \in events
  BY <1>1 DEF TailInv, WaiterReachable, Streaming
<1>3. CASE con[c].req.part \in Parts
  <2> DEFINE p == con[c].req.part
             b == Fetched(con[c].offset, log[p], Limit(c))
             s == [con[c] EXCEPT !.pc = "sending", !.sent = 0, !.batch = b]
  <2>1. con' = [con EXCEPT ![c] = s]
    BY <1>3 DEF Read
  <2>2. log[p] \in Nat /\ Limit(c) \in Nat \ {0}
    BY <1>1, <1>3, StreamNumbers DEF TailInv
  <2>3. b \in Seq(Nat) /\ Len(b) \in Nat /\ Len(b) <= Limit(c) /\ (Len(b) # Limit(c) =>
            IF b = <<>> THEN log[p] <= con[c].offset ELSE b[Len(b)] + 1 = log[p])
    BY <1>1, <2>2, FetchedShort, ZenonT(60)
  <2> HIDE DEF b
  <2>4. /\ s \in StreamType /\ s.pc = "sending" /\ s.waiter = con[c].waiter /\ s.req = con[c].req
        /\ s.batch = b /\ s.offset = con[c].offset /\ s.left = con[c].left
    BY <1>1, <2>3 DEF StreamType
  <2> HIDE DEF s
  <2>5. con'[c] = s /\ \A d \in Consumers \ {c} : con'[d] = con[d]
    BY <2>1 DEF TailInv, TypeOK
  <2>6. Limit(c)' = Limit(c)
    BY <2>4, <2>5 DEF Limit
  <2>7. After(c)' = IF b = <<>> THEN con[c].offset ELSE b[Len(b)] + 1
    BY <2>4, <2>5 DEF After
  <2>8. Len(b) # Limit(c) => log[p] <= After(c)'
    BY <2>2, <2>3, <2>7
  <2>9. After(c)' \in Nat
    <3>1. b # <<>> => b[Len(b)] \in Nat
      BY <2>3, EmptySeq, ElementOfSeq
    <3> QED
      BY <1>1, <2>7, <3>1
  <2>10. ASSUME Len(b) # Limit(c), NEW x \in acked, x.part = p PROVE x.off < After(c)'
    <3>1. x.off \in Nat /\ x.off < log[p]
      BY <2>10 DEF TailInv, TypeOK, Landed
    <3> QED
      BY <2>2, <2>8, <2>9, <2>10, <3>1
  <2>11. CaughtUp'
    BY <1>1, <2>4, <2>5, <2>6, <2>10, StillCaughtUp
  <2>12. s.left # 0 => Len(s.batch) <= s.left
    <3>1. con[c].left \in Nat /\ (con[c].left # 0 => Limit(c) <= con[c].left)
      BY <1>1, BatchAssumption DEF StreamType, Limit
    <3> QED
      BY <2>2, <2>3, <2>4, <3>1
  <2> QED
    BY <1>1, <1>2, <2>1, <2>4, <2>11, <2>12, StreamMoves
<1>4. CASE con[c].req.part \notin Parts
  <2> DEFINE s == [con[c] EXCEPT !.pc = "refused"]
  <2>1. con' = [con EXCEPT ![c] = s]
    BY <1>4 DEF Read
  <2>2. s \in StreamType /\ s.pc = "refused"
    BY <1>1 DEF StreamType
  <2> HIDE DEF s
  <2> QED
    BY <1>1, <2>1, <2>2, StreamMoves
<1> QED
  BY <1>3, <1>4

\* Yielding a record changes nothing the waiters depend on.
LEMMA TailSend ==
    ASSUME TailInv, NEW c \in Consumers, Send(c)
    PROVE  TailInv'
<1> DEFINE rec == con[c].batch[con[c].sent + 1]
           got == Append(con[c].got, rec)
           s == [con[c] EXCEPT !.sent = con[c].sent + 1, !.got = got]
<1>1. /\ con[c] \in StreamType /\ con[c].pc = "sending" /\ con[c].sent < Len(con[c].batch)
      /\ events \subseteq Keys /\ failures \in Nat
      /\ con[c].batch \in Seq(Nat) /\ con[c].sent \in Nat /\ con[c].got \in Seq(Nat)
      /\ UNCHANGED <<log, acked, prod, events, status, appends, failures>>
  BY DEF Send, TailInv, TypeOK, StreamType
<1>2. rec \in Nat
  <2>1. Len(con[c].batch) \in Nat
    BY <1>1, LenProperties
  <2>2. con[c].sent + 1 \in 1 .. Len(con[c].batch)
    BY <1>1, <2>1
  <2> QED
    BY <1>1, <2>2, ElementOfSeq
<1>3. con' = [con EXCEPT ![c] = s]
  BY DEF Send
<1> HIDE DEF rec
<1>4. got \in Seq(Nat)
  BY <1>1, <1>2, AppendProperties
<1> HIDE DEF got
<1>5. /\ s \in StreamType /\ s.pc = "sending" /\ s.waiter = con[c].waiter /\ s.req = con[c].req
      /\ s.batch = con[c].batch /\ s.offset = con[c].offset /\ s.left = con[c].left
  <2>1. con[c] \in StreamType /\ con[c].pc = "sending" /\ con[c].sent + 1 \in Nat
    BY <1>1
  <2> QED
    BY <1>4, <2>1, ZenonT(30) DEF StreamType
<1> HIDE DEF s
<1>6. con'[c] = s /\ \A d \in Consumers \ {c} : con'[d] = con[d]
  BY <1>3 DEF TailInv, TypeOK
<1>7. After(c)' = After(c) /\ Limit(c)' = Limit(c)
  BY <1>5, <1>6 DEF After, Limit
<1>8. CaughtUp'
  BY <1>1, <1>5, <1>6, <1>7, StillCaughtUp, SMTT(20) DEF TailInv, CaughtUp
<1>9. s.waiter = "pending" => s.req.part \in events
  BY <1>1, <1>5 DEF TailInv, WaiterReachable, Streaming
<1>10. s.left # 0 => Len(s.batch) <= s.left
  BY <1>1, <1>5 DEF TailInv, Bounded
<1> QED
  BY <1>1, <1>3, <1>5, <1>8, <1>9, <1>10, StreamMoves

\* A stream that is about to wait had a short batch.
LEMMA TailSettle ==
    ASSUME TailInv, NEW c \in Consumers, Settle(c)
    PROVE  TailInv'
<1> DEFINE s == [con[c] EXCEPT !.pc = Onward(c), !.offset = After(c), !.left = Left(c)]
<1>1. /\ con[c] \in StreamType /\ con[c].pc = "sending"
      /\ events \subseteq Keys /\ failures \in Nat
      /\ con[c].batch \in Seq(Nat) /\ con[c].left \in Nat
      /\ con' = [con EXCEPT ![c] = s]
      /\ UNCHANGED <<log, acked, prod, events, status, appends, failures>>
  BY DEF Settle, TailInv, TypeOK, StreamType
<1>2. After(c) \in Nat
  BY StreamNumbers DEF TailInv
<1>3. Onward(c) \in {"ended", "loop", "parked"}
      /\ (Onward(c) = "parked" => Len(con[c].batch) # Limit(c))
  BY DEF Onward
<1>4. Left(c) \in Nat
  <2>1. Len(con[c].batch) \in Nat
    BY <1>1, LenProperties
  <2>2. con[c].left # 0 => Len(con[c].batch) <= con[c].left
    BY <1>1 DEF TailInv, Bounded
  <2> QED
    BY <1>1, <2>1, <2>2 DEF Left
<1>5. /\ s \in StreamType /\ s.pc = Onward(c) /\ s.waiter = con[c].waiter /\ s.req = con[c].req
      /\ s.offset = After(c)
  BY <1>1, <1>2, <1>3, <1>4 DEF StreamType
<1> HIDE DEF s
<1>6. s.waiter = "pending" => s.req.part \in events
  BY <1>1, <1>5 DEF TailInv, WaiterReachable, Streaming
<1>7. s.pc = "parked" /\ s.waiter = "pending" =>
          \A x \in acked : x.part = s.req.part => x.off < s.offset
  BY <1>1, <1>3, <1>5 DEF TailInv, CaughtUp
<1> QED
  BY <1>1, <1>3, <1>5, <1>6, <1>7, StreamMoves

\* A stream that goes on, or is cancelled, holds no Event any more.
LEMMA TailGoOn ==
    ASSUME TailInv, NEW c \in Consumers, Wake(c) \/ Poll(c) \/ CancelConsume(c)
    PROVE  TailInv'
<1>1. con[c] \in StreamType /\ events \subseteq Keys /\ failures \in Nat /\ Streaming(c)
  BY DEF Wake, Poll, CancelConsume, Streaming, TailInv, TypeOK
<1>2. PICK pc \in {"ended", "loop", "cancelled"} :
          /\ con' = [con EXCEPT ![c] = [con[c] EXCEPT !.pc = pc]]
          /\ failures' \in {failures, failures + 1}
          /\ UNCHANGED <<log, acked, prod, events, status, appends>>
  BY DEF Wake, Poll, GoOn, CancelConsume
<1> DEFINE s == [con[c] EXCEPT !.pc = pc]
<1>3. s \in StreamType /\ s.pc = pc /\ s.waiter = con[c].waiter /\ s.req = con[c].req
  BY <1>1 DEF StreamType
<1>4. con' = [con EXCEPT ![c] = s]
  BY <1>2
<1> HIDE DEF s
<1>5. s.waiter = "pending" => s.req.part \in events
  BY <1>1, <1>3 DEF TailInv, WaiterReachable
<1>6. failures' \in Nat
  BY <1>1, <1>2
<1> QED
  BY <1>1, <1>2, <1>3, <1>4, <1>5, <1>6, StreamMoves

-----------------------------------------------------------------------------
\* At first there is nothing in the logs and nobody waits.
LEMMA TailInit == Init => TailInv
<1> SUFFICES ASSUME Init PROVE TailInv
  OBVIOUS
<1>1. NoCall \in CallType /\ NoCall.pc = "idle"
  BY DEF NoCall, CallType
<1>2. NoStream \in StreamType /\ NoStream.pc = "idle"
  BY EmptySeq DEF NoStream, StreamType, Keys
<1>3. TypeOK
  BY <1>1, <1>2 DEF Init, TypeOK
<1>4. Landed
  BY <1>1 DEF Init, Landed
<1>5. WaiterReachable /\ CaughtUp /\ Bounded /\ NoLostWakeup
  BY <1>2 DEF Init, WaiterReachable, CaughtUp, Bounded, NoLostWakeup, Streaming
<1> QED
  BY <1>3, <1>4, <1>5 DEF TailInv

\* Every step of producers, streams and the shutdown keeps the invariant.
LEMMA TailNext == TailInv /\ [Next]_vars => TailInv'
<1> SUFFICES ASSUME TailInv, [Next]_vars PROVE TailInv'
  OBVIOUS
<1>1. ASSUME NEW q \in Producers,
             Produce(q) \/ AppendStep(q) \/ AppendRaises(q) \/ CancelProduce(q)
      PROVE  TailInv'
  BY <1>1, TailProduce, TailAck DEF AppendStep
<1>2. ASSUME NEW c \in Consumers,
             (\E req \in Requests : Consume(c, req)) \/ StreamStep(c) \/ Poll(c) \/ CancelConsume(c)
      PROVE  TailInv'
  BY <1>2, TailConsume, TailSubscribe, TailRead, TailSend, TailSettle, TailGoOn DEF StreamStep
<1>3. CASE CloseTail \/ Shutdown \/ GraceExpires
  BY <1>3, TailShutdown DEF Shutdown
<1>4. CASE UNCHANGED vars
  BY <1>4 DEF vars, TailInv, TypeOK, Landed, WaiterReachable, CaughtUp, Bounded, NoLostWakeup, Streaming,
              After, Limit
<1> QED
  BY <1>1, <1>2, <1>3, <1>4 DEF Next

\* TailInv holds throughout.
LEMMA TailInvariant == Spec => []TailInv
BY TailInit, TailNext, PTL DEF Spec

\* The locals of Produce and Consume and the state of Tail have their types.
THEOREM TailTypeCorrect == Spec => []TypeOK
<1>1. TailInv => TypeOK
  BY DEF TailInv
<1> QED
  BY <1>1, TailInvariant, PTL

\* A stream that waits on an event that has not fired has been sent every
\* acknowledged record of its partition: subscribing before the read and
\* notifying before the response leave no gap (Consume, Store.append), however
\* many calls run, are cancelled or fail, and at any point of a shutdown.
THEOREM WakeupsKept == Spec => []NoLostWakeup
<1>1. TailInv => NoLostWakeup
  BY DEF TailInv
<1> QED
  BY <1>1, TailInvariant, PTL

\* An event that a stream waits for is in Tail._events, where the next notify
\* or close of Tail finds it.
THEOREM WaitersReached == Spec => []WaiterReachable
<1>1. TailInv => WaiterReachable
  BY DEF TailInv
<1> QED
  BY <1>1, TailInvariant, PTL

-----------------------------------------------------------------------------
(* What a stream was sent.                                                 *)

\* What one trip to the worker thread may fetch for a stream.
Allowed(s) == IF s.left # 0 /\ s.left < Batch THEN s.left ELSE Batch

\* What a stream was sent is a run from the offset it asked for.
Sent(s) ==
    /\ \A k \in 1 .. Len(s.got) : s.got[k] = s.req.from + k - 1 /\ s.got[k] < log[s.req.part]
    /\ s.got # <<>> \/ s.owed # {} => s.req.part \in Parts
    /\ \A o \in s.owed : o < log[s.req.part]
    /\ s.pc \in {"loop", "reading", "parked", "ended"} => s.offset = s.req.from + Len(s.got)

\* Its batch goes on from there, and if it is a short one it holds the last of
\* what had been acknowledged.
Fetching(s) == s.pc = "sending" =>
    /\ s.req.part \in Parts
    /\ s.sent <= Len(s.batch) /\ s.offset + s.sent = s.req.from + Len(s.got)
    /\ \A k \in 1 .. Len(s.batch) : s.batch[k] = s.offset + k - 1 /\ s.batch[k] < log[s.req.part]
    /\ Len(s.batch) # Allowed(s) => \A o \in s.owed : o < s.offset + Len(s.batch)

\* What is sent and what remains make max_records.
Counted(s) ==
    /\ s.pc = "parked" => s.req.follow
    /\ ~ s.req.follow /\ s.req.max = 0 => s.left = 0
    /\ ~ s.req.follow /\ s.req.max # 0 =>
        /\ Len(s.got) <= s.req.max
        /\ s.pc \in {"loop", "reading"} => s.left # 0 /\ s.left + Len(s.got) = s.req.max
        /\ s.pc = "sending" => s.left # 0 /\ s.left + Len(s.got) = s.req.max + s.sent

\* A read that is over has sent all it may, or all it owed.
Finished(s) == s.pc = "ended" /\ ~ s.req.follow =>
    \/ s.req.max # 0 /\ Len(s.got) = s.req.max
    \/ \A o \in s.owed : o < s.req.from + Len(s.got)

StreamOK(s) == Sent(s) /\ Fetching(s) /\ Counted(s) /\ Finished(s)

StreamsOK == \A c \in Consumers : StreamOK(con[c])

\* A stream stays as it is while the logs grow, whether its event fires or it
\* is cancelled.
LEMMA StreamKept ==
    ASSUME NEW s \in StreamType, NEW t \in StreamType, StreamOK(s),
           t.pc \in {s.pc, "cancelled"}, t.req = s.req, t.offset = s.offset, t.left = s.left,
           t.batch = s.batch, t.sent = s.sent, t.got = s.got, t.owed = s.owed,
           log \in [Parts -> Nat], log' \in [Parts -> Nat], \A p \in Parts : log'[p] >= log[p]
    PROVE  StreamOK(t)'
<1>1. /\ s.got \in Seq(Nat) /\ s.batch \in Seq(Nat) /\ s.owed \subseteq Nat
      /\ s.req.from \in Nat /\ s.offset \in Nat
  BY DEF StreamType
<1>2. s.req.part \in Parts => /\ log[s.req.part] \in Nat /\ log'[s.req.part] \in Nat
                              /\ log'[s.req.part] >= log[s.req.part]
  OBVIOUS
<1>3. /\ Len(s.got) \in Nat /\ Len(s.batch) \in Nat
      /\ \A k \in 1 .. Len(s.got) : s.got[k] \in Nat
      /\ \A k \in 1 .. Len(s.batch) : s.batch[k] \in Nat
  BY <1>1, LenProperties, ElementOfSeq
<1>4. Sent(t)'
  <2>1. ASSUME NEW k \in 1 .. Len(s.got)
        PROVE  s.got[k] = s.req.from + k - 1 /\ s.got[k] < log'[s.req.part]
    <3>1. s.got # <<>>
      BY <1>3
    <3>2. s.req.part \in Parts
      BY <3>1 DEF StreamOK, Sent
    <3>3. s.got[k] = s.req.from + k - 1 /\ s.got[k] < log[s.req.part] /\ s.got[k] \in Nat
      BY <1>3 DEF StreamOK, Sent
    <3> QED
      BY <1>2, <3>2, <3>3
  <2>2. ASSUME NEW o \in s.owed PROVE o < log'[s.req.part]
    <3>1. s.req.part \in Parts /\ o < log[s.req.part] /\ o \in Nat
      BY <1>1 DEF StreamOK, Sent
    <3> QED
      BY <1>2, <3>1
  <2> QED
    BY <2>1, <2>2 DEF StreamOK, Sent
<1>5. Fetching(t)'
  <2> SUFFICES ASSUME s.pc = "sending" PROVE Fetching(t)'
    BY DEF Fetching
  <2>1. ASSUME NEW k \in 1 .. Len(s.batch)
        PROVE  s.batch[k] = s.offset + k - 1 /\ s.batch[k] < log'[s.req.part]
    <3>1. /\ s.req.part \in Parts /\ s.batch[k] \in Nat
          /\ s.batch[k] = s.offset + k - 1 /\ s.batch[k] < log[s.req.part]
      BY <1>3 DEF StreamOK, Fetching
    <3> QED
      BY <1>2, <3>1
  <2> QED
    BY <2>1 DEF StreamOK, Fetching, Allowed
<1>6. Counted(t)' /\ Finished(t)'
  BY DEF StreamOK, Counted, Finished
<1> QED
  BY <1>4, <1>5, <1>6 DEF StreamOK

\* Only one stream moves, and no log.
LEMMA OneMoves ==
    ASSUME TypeOK, StreamsOK, NEW c \in Consumers, log' = log, NEW t, StreamOK(t),
           con' = [con EXCEPT ![c] = t]
    PROVE  StreamsOK'
<1>1. \A d \in Consumers : con'[d] = IF d = c THEN t ELSE con[d]
  BY DEF TypeOK
<1>2. ASSUME NEW s, StreamOK(s) PROVE StreamOK(s)'
  BY <1>2 DEF StreamOK, Sent, Fetching, Allowed, Counted, Finished
<1> QED
  BY <1>1, <1>2 DEF StreamsOK

\* A stream that starts was sent nothing.
LEMMA StreamStarts ==
    ASSUME TailInv, StreamsOK, NEW c \in Consumers, NEW req \in Requests, Consume(c, req)
    PROVE  StreamsOK'
<1>1. PICK owed : owed = {x.off : x \in {y \in acked : y.part = req.part}}
  OBVIOUS
<1>2. PICK t : t = [NoStream EXCEPT !.pc = "loop", !.req = req, !.offset = req.from,
                                    !.left = IF req.follow THEN 0 ELSE req.max, !.owed = owed]
  OBVIOUS
<1>3. con' = [con EXCEPT ![c] = t] /\ log' = log
  BY <1>1, <1>2 DEF Consume
<1>4. /\ req \in [part : Keys, from : Nat, follow : BOOLEAN, max : Nat]
      /\ t.pc = "loop" /\ t.req = req /\ t.offset = req.from /\ t.got = <<>> /\ t.owed = owed
      /\ t.left = IF req.follow THEN 0 ELSE req.max
  BY <1>2, RequestsAssumption DEF NoStream
<1>5. ASSUME NEW o \in owed PROVE req.part \in Parts /\ o < log[req.part]
  <2>1. PICK x \in acked : x.part = req.part /\ x.off = o
    BY <1>1, <1>5
  <2> QED
    BY <2>1 DEF TailInv, TypeOK, Landed
<1>6. Len(t.got) = 0
  BY <1>4
<1>7. StreamOK(t)
  BY <1>4, <1>5, <1>6 DEF StreamOK, Sent, Fetching, Counted, Finished
<1> QED
  BY <1>3, <1>7, OneMoves DEF TailInv

\* It goes to the thread, or on after the wait, or to its end there.
LEMMA StreamTurns ==
    ASSUME TailInv, StreamsOK, NEW c \in Consumers,
           Subscribe(c) \/ Wake(c) \/ Poll(c) \/ CancelConsume(c)
    PROVE  StreamsOK'
<1>1. PICK s : s = con[c]
  OBVIOUS
<1>2. s \in StreamType /\ StreamOK(s) /\ log' = log /\ con \in [Consumers -> StreamType]
  BY <1>1 DEF TailInv, TypeOK, StreamsOK, Subscribe, Wake, Poll, CancelConsume
<1>3. PICK pc \in {"reading", "loop", "ended", "cancelled"} :
        /\ \/ con' = [con EXCEPT ![c].pc = pc]
           \/ con' = [con EXCEPT ![c].pc = pc, ![c].waiter = "pending"]
        /\ pc = "reading" => s.pc = "loop"
        /\ pc \in {"loop", "ended"} => s.pc = "parked"
  BY <1>1 DEF Subscribe, Wake, Poll, GoOn, CancelConsume
<1>4. PICK t : con' = [con EXCEPT ![c] = t] /\ t \in {[s EXCEPT !.pc = pc],
                                                     [s EXCEPT !.pc = pc, !.waiter = "pending"]}
  BY <1>1, <1>3
<1>5. /\ t.pc = pc /\ t.req = s.req /\ t.offset = s.offset /\ t.left = s.left
      /\ t.got = s.got /\ t.owed = s.owed
  BY <1>2, <1>4 DEF StreamType
<1>6. StreamOK(t)
  <2>1. Sent(t) /\ Fetching(t)
    BY <1>2, <1>3, <1>5 DEF StreamOK, Sent, Fetching
  <2>2. Counted(t) /\ Finished(t)
    BY <1>2, <1>3, <1>5 DEF StreamOK, Counted, Finished
  <2> QED
    BY <2>1, <2>2 DEF StreamOK
<1> QED
  BY <1>2, <1>3, <1>4, <1>6, OneMoves DEF TailInv

\* A batch of the records there are in a log from an offset on, n of them or all.
IsRun(b, from, length, n) ==
    /\ b \in Seq(Nat) /\ Len(b) \in Nat
    /\ \A k \in 1 .. Len(b) : b[k] = from + k - 1 /\ b[k] < length
    /\ Len(b) # n => length <= from + Len(b)

\* A read finds a run of records there are, and a short one is all there are.
LEMMA FetchedRun ==
    ASSUME NEW from \in Nat, NEW length \in Nat, NEW n \in Nat \ {0}
    PROVE  IsRun(Fetched(from, length, n), from, length, n)
<1> DEFINE m == IF from >= length THEN 0 ELSE IF length - from < n THEN length - from ELSE n
<1>1. PICK b : b = Fetched(from, length, n)
  OBVIOUS
<1>2. m \in Nat /\ b = [i \in 1 .. m |-> from + i - 1]
  BY <1>1 DEF Fetched
<1>3. (m # 0 => from + m <= length) /\ (m # n => length <= from + m)
  OBVIOUS
<1> HIDE DEF m
<1>4. \A i \in 1 .. m : from + i - 1 \in Nat
  BY <1>2
<1>5. b \in Seq(Nat) /\ Len(b) = m
  BY <1>2, <1>4
<1>6. \A k \in 1 .. m : b[k] = from + k - 1 /\ b[k] < length
  BY <1>2, <1>3
<1> QED
  BY <1>1, <1>2, <1>3, <1>5, <1>6 DEF IsRun

\* A batch comes back from the thread, or the partition is not held.
LEMMA StreamReads ==
    ASSUME TailInv, StreamsOK, NEW c \in Consumers, Read(c)
    PROVE  StreamsOK'
<1>1. PICK s : s = con[c]
  OBVIOUS
<1>2. /\ s \in StreamType /\ StreamOK(s) /\ log' = log /\ s.pc = "reading"
      /\ s.offset \in Nat /\ s.owed \subseteq Nat
  BY <1>1 DEF TailInv, TypeOK, StreamsOK, Read, StreamType
<1>3. PICK t : /\ con' = [con EXCEPT ![c] = t]
               /\ \/ /\ s.req.part \in Parts
                     /\ t = [s EXCEPT !.pc = "sending", !.sent = 0,
                                      !.batch = Fetched(s.offset, log[s.req.part], Limit(c))]
                  \/ t = [s EXCEPT !.pc = "refused"]
  <2>1. CASE s.req.part \in Parts
    <3>1. con' = [con EXCEPT ![c] = [s EXCEPT !.pc = "sending", !.sent = 0,
                                        !.batch = Fetched(s.offset, log[s.req.part], Limit(c))]]
      BY <1>1, <2>1 DEF Read
    <3> QED
      BY <2>1, <3>1
  <2>2. CASE s.req.part \notin Parts
    <3>1. con' = [con EXCEPT ![c] = [s EXCEPT !.pc = "refused"]]
      BY <1>1, <2>2 DEF Read
    <3> QED
      BY <3>1
  <2> QED
    BY <2>1, <2>2
<1>4. /\ t.pc \in {"sending", "refused"} /\ t.req = s.req /\ t.offset = s.offset
      /\ t.left = s.left /\ t.got = s.got /\ t.owed = s.owed
  BY <1>2, <1>3 DEF StreamType
<1>5. Sent(t) /\ Finished(t)
  BY <1>2, <1>4 DEF StreamOK, Sent, Finished
<1>6. CASE t.pc = "refused"
  BY <1>2, <1>3, <1>4, <1>5, <1>6, OneMoves DEF StreamOK, Fetching, Counted, TailInv
<1>7. CASE t.pc = "sending"
  <2>1. PICK n \in Nat \ {0} : n = Limit(c) /\ n = Allowed(t)
    BY <1>1, <1>4, StreamNumbers DEF Limit, Allowed, TailInv
  <2>2. /\ s.req.part \in Parts /\ t.sent = 0
        /\ t.batch = Fetched(s.offset, log[s.req.part], n)
    BY <1>2, <1>3, <1>7, <2>1 DEF StreamType
  <2>3. PICK length \in Nat : length = log[s.req.part]
    BY <2>2 DEF TailInv, TypeOK
  <2>4. PICK b : b = t.batch /\ b = Fetched(s.offset, length, n)
    BY <2>2, <2>3
  <2>5. /\ b \in Seq(Nat) /\ Len(b) \in Nat
        /\ \A k \in 1 .. Len(b) : b[k] = s.offset + k - 1 /\ b[k] < length
        /\ Len(b) # n => length <= s.offset + Len(b)
    <3>1. IsRun(b, s.offset, length, n)
      BY <1>2, <2>4, FetchedRun
    <3> QED
      BY <3>1 DEF IsRun
  <2>6. \A o \in s.owed : o \in Nat /\ o < length
    BY <1>2, <2>3 DEF StreamOK, Sent
  <2>7. Len(b) # n => \A o \in s.owed : o < s.offset + Len(b)
    BY <1>2, <2>3, <2>5, <2>6
  <2>8. s.req.from \in Nat /\ Len(s.got) \in Nat
    BY <1>2, LenProperties DEF StreamType
  <2>9. s.offset = s.req.from + Len(s.got)
    BY <1>2 DEF StreamOK, Sent
  <2>10. Fetching(t)
    BY <1>2, <1>4, <2>1, <2>2, <2>3, <2>4, <2>5, <2>7, <2>8, <2>9 DEF Fetching
  <2>11. Counted(t)
    <3>1. s.req.max \in Nat /\ s.left \in Nat
      BY <1>2 DEF StreamType
    <3> QED
      BY <1>2, <1>4, <1>7, <2>2, <2>8, <3>1 DEF StreamOK, Counted
  <2> QED
    BY <1>2, <1>3, <1>5, <2>10, <2>11, OneMoves DEF StreamOK, TailInv
<1> QED
  BY <1>4, <1>6, <1>7

\* One more record of the batch goes out.
LEMMA StreamSends ==
    ASSUME TailInv, StreamsOK, NEW c \in Consumers, Send(c)
    PROVE  StreamsOK'
<1>1. PICK s : s = con[c]
  OBVIOUS
<1>2. /\ s \in StreamType /\ StreamOK(s) /\ log' = log /\ s.pc = "sending"
      /\ s.sent < Len(s.batch)
  BY <1>1 DEF TailInv, TypeOK, StreamsOK, Send
<1>3. PICK rec, got : rec = s.batch[s.sent + 1] /\ got = Append(s.got, rec)
  OBVIOUS
<1>4. PICK t : con' = [con EXCEPT ![c] = t] /\ t = [s EXCEPT !.sent = s.sent + 1, !.got = got]
  BY <1>1, <1>3 DEF Send
<1>5. /\ t.pc = "sending" /\ t.req = s.req /\ t.offset = s.offset /\ t.left = s.left
      /\ t.batch = s.batch /\ t.owed = s.owed /\ t.sent = s.sent + 1 /\ t.got = got
  BY <1>2, <1>4 DEF StreamType
<1>6. /\ s.sent \in Nat /\ s.offset \in Nat /\ s.req.from \in Nat /\ s.req.max \in Nat
      /\ s.left \in Nat /\ s.batch \in Seq(Nat) /\ s.got \in Seq(Nat)
  BY <1>2 DEF StreamType
<1>7. Len(s.batch) \in Nat /\ Len(s.got) \in Nat
  BY <1>6, LenProperties
<1>8. s.sent + 1 \in 1 .. Len(s.batch)
  BY <1>2, <1>6, <1>7
<1>9. rec \in Nat /\ rec = s.offset + s.sent /\ rec < log[s.req.part] /\ s.req.part \in Parts
  <2>1. rec \in Nat
    BY <1>3, <1>6, <1>8, ElementOfSeq
  <2> QED
    BY <1>2, <1>3, <1>6, <1>8, <2>1 DEF StreamOK, Fetching
<1>10. s.offset + s.sent = s.req.from + Len(s.got)
  BY <1>2 DEF StreamOK, Fetching
<1>11. /\ Len(got) = Len(s.got) + 1 /\ got[Len(s.got) + 1] = rec
       /\ \A k \in 1 .. Len(s.got) : got[k] = s.got[k]
  BY <1>3, <1>6, <1>9, AppendProperties
<1>12. Sent(t)
  <2>1. ASSUME NEW k \in 1 .. Len(got)
        PROVE  got[k] = s.req.from + k - 1 /\ got[k] < log[s.req.part]
    <3>1. CASE k = Len(s.got) + 1
      BY <1>6, <1>7, <1>9, <1>10, <1>11, <3>1
    <3>2. CASE k # Len(s.got) + 1
      <4>1. k \in 1 .. Len(s.got)
        BY <1>7, <1>11, <2>1, <3>2
      <4> QED
        BY <1>2, <1>11, <4>1 DEF StreamOK, Sent
    <3> QED
      BY <3>1, <3>2
  <2> QED
    BY <1>2, <1>5, <1>9, <2>1 DEF StreamOK, Sent
<1>13. Fetching(t)
  <2>1. t.sent <= Len(t.batch)
    BY <1>5, <1>8
  <2>2. t.offset + t.sent = t.req.from + Len(t.got)
    <3>1. PICK n \in Nat, off \in Nat, sent \in Nat, from \in Nat :
            n = Len(s.got) /\ off = s.offset /\ sent = s.sent /\ from = s.req.from
      BY <1>6, <1>7
    <3>2. off + sent = from + n
      BY <1>10, <3>1
    <3>3. off + (sent + 1) = from + (n + 1)
      BY <3>2
    <3> QED
      BY <1>5, <1>11, <3>1, <3>3
  <2>3. Fetching(s) /\ Allowed(t) = Allowed(s)
    BY <1>2, <1>5 DEF StreamOK, Allowed
  <2> QED
    BY <1>2, <1>5, <2>1, <2>2, <2>3 DEF Fetching
<1>14. Counted(t) /\ Finished(t)
  <2>1. Finished(t)
    BY <1>5 DEF Finished
  <2>2. ~ s.req.follow /\ s.req.max # 0 => Len(got) <= s.req.max
    <3>1. ASSUME ~ s.req.follow, s.req.max # 0 PROVE Len(got) <= s.req.max
      <4>1. s.left # 0 /\ s.left + Len(s.got) = s.req.max + s.sent
        BY <1>2, <3>1 DEF StreamOK, Counted
      <4>2. Len(s.batch) <= s.left
        BY <1>1, <1>2, <4>1 DEF TailInv, Bounded
      <4> QED
        BY <1>2, <1>6, <1>7, <1>11, <4>1, <4>2
    <3> QED
      BY <3>1
  <2>3. ~ s.req.follow /\ s.req.max # 0 => /\ s.left # 0
                                          /\ s.left + Len(got) = s.req.max + (s.sent + 1)
    <3>1. ~ s.req.follow /\ s.req.max # 0 => s.left # 0 /\ s.left + Len(s.got) = s.req.max + s.sent
      BY <1>2 DEF StreamOK, Counted
    <3>2. PICK n \in Nat, left \in Nat, sent \in Nat, max \in Nat :
            n = Len(s.got) /\ left = s.left /\ sent = s.sent /\ max = s.req.max
      BY <1>6, <1>7
    <3>3. left + n = max + sent => left + (n + 1) = max + (sent + 1)
      OBVIOUS
    <3> QED
      BY <1>11, <3>1, <3>2, <3>3
  <2> QED
    BY <1>2, <1>5, <2>1, <2>2, <2>3 DEF StreamOK, Counted
<1> QED
  BY <1>2, <1>4, <1>12, <1>13, <1>14, OneMoves DEF StreamOK, TailInv

\* The batch is out: on to the next, to the wait, or to the end.
LEMMA StreamSettles ==
    ASSUME TailInv, StreamsOK, NEW c \in Consumers, Settle(c)
    PROVE  StreamsOK'
<1>1. PICK s : s = con[c]
  OBVIOUS
<1>2. /\ s \in StreamType /\ StreamOK(s) /\ log' = log /\ s.pc = "sending"
      /\ s.sent = Len(s.batch)
  BY <1>1 DEF TailInv, TypeOK, StreamsOK, Settle
<1>3. PICK t : /\ con' = [con EXCEPT ![c] = t]
               /\ t = [s EXCEPT !.pc = Onward(c), !.offset = After(c), !.left = Left(c)]
  BY <1>1 DEF Settle
<1>4. /\ t.pc = Onward(c) /\ t.req = s.req /\ t.offset = After(c) /\ t.left = Left(c)
      /\ t.got = s.got /\ t.owed = s.owed
  BY <1>2, <1>3 DEF StreamType
<1>5. /\ s.offset \in Nat /\ s.req.from \in Nat /\ s.req.max \in Nat /\ s.left \in Nat
      /\ s.batch \in Seq(Nat) /\ s.got \in Seq(Nat)
  BY <1>2 DEF StreamType
<1>6. PICK m \in Nat, n \in Nat : m = Len(s.batch) /\ n = Len(s.got)
  BY <1>5, LenProperties
<1>7. s.offset + m = s.req.from + n
  BY <1>2, <1>6 DEF StreamOK, Fetching
<1>8. After(c) = s.req.from + n
  <2>1. CASE s.batch = <<>>
    <3>1. m = 0 /\ After(c) = s.offset
      BY <1>1, <1>6, <2>1 DEF After
    <3> QED
      BY <1>5, <1>7, <3>1
  <2>2. CASE s.batch # <<>>
    <3>1. m \in 1 .. m /\ After(c) = s.batch[m] + 1
      <4>1. m # 0
        BY <1>5, <1>6, <2>2, EmptySeq
      <4>2. After(c) = s.batch[m] + 1
        BY <1>1, <1>6, <2>2 DEF After
      <4> QED
        BY <1>6, <4>1, <4>2
    <3>2. s.batch[m] = s.offset + m - 1
      BY <1>2, <1>6, <3>1 DEF StreamOK, Fetching
    <3> QED
      BY <1>5, <1>6, <1>7, <3>1, <3>2
  <2> QED
    BY <2>1, <2>2
<1>9. Sent(t)
  BY <1>2, <1>4, <1>6, <1>8 DEF StreamOK, Sent
<1>10. /\ t.pc \in {"ended", "loop", "parked"} /\ (t.pc = "parked" => s.req.follow)
       /\ t.pc = "loop" => ~ (s.left # 0 /\ t.left = 0)
       /\ t.pc = "ended" /\ ~ s.req.follow => \/ s.left # 0 /\ t.left = 0
                                             \/ m # Allowed(s)
  BY <1>1, <1>4, <1>6, Zenon DEF Onward, Limit, Allowed
<1>11. t.left = IF s.left = 0 THEN 0 ELSE s.left - m
  BY <1>1, <1>4, <1>6 DEF Left
<1>12. ~ s.req.follow /\ s.req.max # 0 => /\ s.left # 0 /\ t.left + n = s.req.max
                                         /\ n <= s.req.max
  <2>1. ASSUME ~ s.req.follow, s.req.max # 0
        PROVE  s.left # 0 /\ s.left + n = s.req.max + m /\ n <= s.req.max
    BY <1>2, <1>6, <2>1 DEF StreamOK, Counted
  <2>2. ASSUME s.left # 0, s.left + n = s.req.max + m PROVE t.left + n = s.req.max
    <3>1. PICK left \in Nat, max \in Nat : left = s.left /\ max = s.req.max
      BY <1>5
    <3>2. left + n = max + m
      BY <2>2, <3>1
    <3>3. (left - m) + n = max
      BY <3>2
    <3>4. t.left = left - m
      BY <1>11, <2>2, <3>1
    <3> QED
      BY <3>1, <3>3, <3>4
  <2> QED
    BY <2>1, <2>2
<1>13. ~ s.req.follow /\ s.req.max = 0 => s.left = 0 /\ t.left = 0
  BY <1>2, <1>11 DEF StreamOK, Counted
<1>14. Counted(t)
  BY <1>4, <1>6, <1>10, <1>12, <1>13 DEF Counted
<1>15. Fetching(t)
  BY <1>10 DEF Fetching
<1>16. Finished(t)
  <2>1. ASSUME t.pc = "ended", ~ s.req.follow, s.left # 0, t.left = 0
        PROVE  s.req.max # 0 /\ n = s.req.max
    BY <1>5, <1>6, <1>12, <1>13, <2>1
  <2>2. ASSUME t.pc = "ended", m # Allowed(s) PROVE \A o \in s.owed : o < s.req.from + n
    BY <1>2, <1>6, <1>7, <2>2 DEF StreamOK, Fetching
  <2> QED
    BY <1>4, <1>6, <1>10, <2>1, <2>2 DEF Finished
<1> QED
  BY <1>2, <1>3, <1>9, <1>14, <1>15, <1>16, OneMoves DEF StreamOK, TailInv

\* The steps of producers and of the shutdown.
LEMMA StreamsKept ==
    ASSUME TailInv, TailInv', StreamsOK,
           \/ \E q \in Producers : \/ Produce(q) \/ AppendStep(q) \/ AppendRaises(q)
                                   \/ CancelProduce(q)
           \/ CloseTail \/ Shutdown \/ GraceExpires \/ UNCHANGED vars
    PROVE  StreamsOK'
<1>1. /\ log \in [Parts -> Nat] /\ log' \in [Parts -> Nat]
      /\ con \in [Consumers -> StreamType] /\ con' \in [Consumers -> StreamType]
      /\ events \subseteq Keys
  BY DEF TailInv, TypeOK
<1>2. \A p \in Parts : log'[p] >= log[p]
  <2>1. CASE log' = log
    BY <1>1, <2>1
  <2>2. CASE \E p \in Parts : log' = [log EXCEPT ![p] = @ + 1]
    BY <1>1, <2>2
  <2> QED
    BY <2>1, <2>2 DEF Produce, AppendStep, Land, Ack, LandOrphan, AppendRaises, CancelProduce,
                     CloseTail, Shutdown, StopServer, Drained, CloseStore, GraceExpires, vars
<1>3. ASSUME NEW c \in Consumers
      PROVE  \/ con'[c] = con[c] \/ con'[c] = [con[c] EXCEPT !.waiter = "set"]
             \/ con'[c] = [con[c] EXCEPT !.pc = "cancelled"]
  <2>1. \A keys : \/ Woken(keys)[c] = con[c]
                  \/ Woken(keys)[c] = [con[c] EXCEPT !.waiter = "set"]
    BY DEF Woken
  <2>2. CASE con' = con \/ \E keys : con' = Woken(keys)
    BY <2>1, <2>2
  <2>3. CASE GraceExpires
    BY <2>3 DEF GraceExpires
  <2> QED
    BY <2>2, <2>3 DEF Produce, AppendStep, Land, Ack, Notify, LandOrphan, AppendRaises,
                     CancelProduce, CloseTail, Release, Shutdown, StopServer, Drained, CloseStore,
                     vars
<1>4. ASSUME NEW c \in Consumers PROVE StreamOK(con[c])'
  <2>1. PICK s, t : s = con[c] /\ t = con'[c]
    OBVIOUS
  <2>2. s \in StreamType /\ t \in StreamType /\ StreamOK(s)
    BY <1>1, <2>1 DEF StreamsOK
  <2>3. /\ t.pc \in {s.pc, "cancelled"} /\ t.req = s.req /\ t.offset = s.offset
        /\ t.left = s.left /\ t.batch = s.batch /\ t.sent = s.sent /\ t.got = s.got
        /\ t.owed = s.owed
    <3>1. t = s \/ t = [s EXCEPT !.waiter = "set"] \/ t = [s EXCEPT !.pc = "cancelled"]
      BY <1>3, <2>1
    <3> QED
      BY <2>2, <3>1 DEF StreamType
  <2>4. StreamOK(t)'
    BY <1>1, <1>2, <2>2, <2>3, StreamKept
  <2> QED
    BY <2>1, <2>4
<1> QED
  BY <1>4 DEF StreamsOK

\* Every stream is right throughout.
LEMMA StreamsInvariant == Spec => []StreamsOK
<1>1. Init => StreamsOK
  <2> SUFFICES ASSUME Init, NEW c \in Consumers PROVE StreamOK(con[c])
    BY DEF StreamsOK
  <2>1. PICK s : s = con[c] /\ s = NoStream
    BY DEF Init
  <2>2. /\ s.pc = "idle" /\ s.got = <<>> /\ s.owed = {} /\ s.left = 0 /\ s.req.max = 0
        /\ Len(s.got) = 0
    BY <2>1 DEF NoStream
  <2>3. StreamOK(s)
    BY <2>2 DEF StreamOK, Sent, Fetching, Counted, Finished
  <2> QED
    BY <2>1, <2>3
<1>2. TailInv /\ TailInv' /\ StreamsOK /\ [Next]_vars => StreamsOK'
  <2> SUFFICES ASSUME TailInv, TailInv', StreamsOK, [Next]_vars PROVE StreamsOK'
    OBVIOUS
  <2>1. ASSUME NEW c \in Consumers,
               (\E req \in Requests : Consume(c, req)) \/ StreamStep(c) \/ Poll(c) \/ CancelConsume(c)
        PROVE  StreamsOK'
    BY <2>1, StreamStarts, StreamTurns, StreamReads, StreamSends, StreamSettles DEF StreamStep
  <2>2. CASE \/ \E q \in Producers : \/ Produce(q) \/ AppendStep(q) \/ AppendRaises(q)
                                     \/ CancelProduce(q)
             \/ CloseTail \/ Shutdown \/ GraceExpires \/ UNCHANGED vars
    BY <2>2, StreamsKept
  <2> QED
    BY <2>1, <2>2 DEF Next
<1> QED
  BY <1>1, <1>2, TailInvariant, PTL DEF Spec

\* What a stream was sent is a run of records of its partition from the offset
\* asked for, over batches, waits and polls, and not more than max_records: the
\* loop of Consume resumes at batch[-1].offset + 1 and counts "remaining" down.
THEOREM StreamsClean == Spec => []CleanStream
<1>1. ASSUME TailInv, StreamsOK PROVE CleanStream
  <2>1. ASSUME NEW c \in Consumers
        PROVE  LET s == con[c] IN
               /\ \A k \in DOMAIN s.got : s.got[k] = s.req.from + k - 1 /\ s.got[k] < log[s.req.part]
               /\ ~ s.req.follow /\ s.req.max # 0 => Len(s.got) <= s.req.max
    <3>1. PICK s : s = con[c] /\ s \in StreamType /\ StreamOK(s)
      BY <1>1 DEF TailInv, TypeOK, StreamsOK
    <3>2. DOMAIN s.got = 1 .. Len(s.got)
      BY <3>1, LenProperties DEF StreamType
    <3> QED
      BY <3>1, <3>2 DEF StreamOK, Sent, Counted
  <2> QED
    BY <2>1 DEF CleanStream
<1> QED
  BY <1>1, TailInvariant, StreamsInvariant, PTL

\* A read that came to its end by itself has sent max_records, or everything
\* acknowledged before the call came: Consume ends at a short batch, which held
\* the end of the log.
THEOREM ReadsEnd == Spec => []ReadComplete
<1>1. StreamsOK => ReadComplete
  BY DEF StreamsOK, StreamOK, Finished, ReadComplete
<1> QED
  BY <1>1, StreamsInvariant, PTL

=============================================================================
