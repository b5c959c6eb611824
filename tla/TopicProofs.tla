---------------------------- MODULE TopicProofs ----------------------------
(***************************************************************************)
(* Topic: what an append is owed, for every number of threads, topics,     *)
(* keys and partitions, every hash, every SyncPolicy and every order of    *)
(* calls, crashes and failures.                                            *)
(*                                                                         *)
(* Held is inductive.  It relates the four places where a topic is known:  *)
(* its topic.json, which once whole never changes; Topic._open; the        *)
(* entries of its partitions, of which there is one generation while the   *)
(* broker serves; and the locals of the threads, which may be those of an  *)
(* opening that a shutdown has closed since.                               *)
(*                                                                         *)
(* Owing is the accountancy of SyncPolicy.records: what is not fsynced of  *)
(* a partition, against its counter and the threads that have fsynced it   *)
(* and have yet to reset the counter.                                      *)
(***************************************************************************)
EXTENDS Topic, FiniteSetTheorems, TLAPS

Entries  == Topics \X Parts \X (Nat \ {0})
Acks     == Topics \X Parts \X Nat
Sizes    == {n \in Counts \cup {DefaultPartitions} : n > 0}
SeenType == [n : Sizes \cup {0}, opening : Nat]
CallType == [pc : {"idle", "enter", "open", "write", "logs", "route", "count", "snapshot",
                   "sync", "mark"},
             op : {"none", "append", "get", "create", "boot", "sync"},
             topic : Topics, key : Keys \cup {NoKey},
             count : Counts \cup {DefaultPartitions, 0},
             seen : SeenType, todo : SUBSET Entries, off : Nat]

Types ==
    /\ TypeOK
    /\ DOMAIN entry \subseteq Entries /\ IsFiniteSet(DOMAIN entry)
    /\ entry \in [DOMAIN entry -> [appends : Nat, open : BOOLEAN]]
    /\ cache \in [Topics -> SeenType]
    /\ call \in [Threads -> CallType]
    /\ acked \subseteq Acks /\ IsFiniteSet(acked)
    /\ homes \subseteq Topics \X Keys \X Parts
    /\ closing \in [left : SUBSET Entries, failed : SUBSET Entries]
    /\ restarts \in Nat

\* What a lookup of topic t returned: its count is the one in topic.json, and
\* the partitions of it that are ours have entries of that opening.
Opened(t, s) ==
    /\ s.n = meta[t] /\ s.n > 0
    /\ \A p \in 0 .. s.n - 1 : <<t, p>> \in Owned => <<t, p, s.opening>> \in DOMAIN entry

\* Thread i, in a call with locals c: only the holder of the lock is between
\* the miss and the opening, and the topic stays unopened meanwhile.
CallOK(i, c) ==
    /\ c.todo \subseteq DOMAIN entry
    /\ c.pc \in {"open", "write", "logs"} => lock = i /\ cache[c.topic] = NotOpen
    /\ c.pc = "write" => meta[c.topic] = Torn /\ c.count > 0
    /\ c.pc = "logs" => meta[c.topic] = c.count /\ c.count > 0
    /\ c.pc = "route" => Opened(c.topic, c.seen)
    /\ c.pc \in {"count", "sync", "mark"} => c.todo # {}
    /\ c.pc \in {"sync", "mark"} => c.op \in {"append", "sync"}
    /\ c.pc \in {"route", "count"} => c.op = "append"
    /\ c.pc = "snapshot" => c.op = "sync"
    /\ c.pc \in {"count", "sync", "mark"} /\ c.op = "append" =>
        \E e \in DOMAIN entry : c.todo = {e} /\ c.off < written[LogOf(e)]

Calls == \A i \in Threads : CallOK(i, call[i])

Registry ==
    /\ \A t \in Topics : cache[t] # NotOpen => Opened(t, cache[t])
    /\ \A e \in DOMAIN entry : e[2] < meta[e[1]] /\ LogOf(e) \in Owned
    /\ Serving => \A e \in DOMAIN entry : /\ cache[e[1]] # NotOpen
                                          /\ e[3] = cache[e[1]].opening
    /\ status \in {"down", "failed"} => DOMAIN entry = {} /\ \A i \in Threads : call[i] = Idle

\* A record that was acknowledged is one of those written to a partition of
\* ours, and after a shutdown it is fsynced or its log's own close is to blame.
Records ==
    /\ \A h \in homes : meta[h[1]] > 0 /\ h[3] = Hash[h[2]] % meta[h[1]]
    /\ \A a \in acked : /\ a[2] < meta[a[1]] /\ <<a[1], a[2]>> \in Owned
                        /\ a[3] < written[<<a[1], a[2]>>]
    /\ Serving => \A a \in acked : a[1] \in boot \/ cache[a[1]] # NotOpen
    /\ status = "up" => boot = {}
    /\ status # "closing" => closing.left = {}
    /\ status \in {"closing", "closed"} => \A a \in acked :
        \/ a[3] < synced[<<a[1], a[2]>>]
        \/ \E e \in closing.left \cup closing.failed : LogOf(e) = <<a[1], a[2]>>

Held == Types /\ Calls /\ Registry /\ Records

\* A thread that has fsynced for an append has the record on the disk.
Settled == \A i \in Threads : call[i].pc = "mark" /\ call[i].op = "append" =>
    call[i].off < synced[LogOf(First(call[i].todo))]

\* The threads but for those that have fsynced entry e and have yet to reset
\* its counter.
Others(e) == {i \in Threads : ~ (call[i].pc = "mark" /\ First(call[i].todo) = e)}

\* What k threads may leave unfsynced; and the lives of the process before this.
Share(k) == k * (SyncRecords - 1)
Past(r)  == Share(r * Cardinality(Threads))

\* There is room for x records at risk in life r of the process: for the share of
\* the lives before it and of k threads; with the counter at n, for n of the last.
Room(r, k, n, x) ==
    /\ x <= Past(r) + Share(k)
    /\ k > 0 => x <= Past(r) + Share(k) - (SyncRecords - 1) + n

\* The account of entry e, with x records of its log at risk.
Account(e, x) == Room(restarts, Cardinality(Others(e)), entry[e].appends, x)

Owes(l) ==
    LET x == Cardinality(Exposed(l)) IN
    /\ x <= Past(restarts + 1)
    /\ Serving => /\ (\A e \in DOMAIN entry : LogOf(e) # l) => x <= Past(restarts)
                  /\ \A e \in DOMAIN entry : LogOf(e) = l => Account(e, x)

Owing == SyncRecords > 0 => \A l \in Logs : Owes(l)

-----------------------------------------------------------------------------
(* Facts used in several places.                                           *)

\* First takes one of them.
LEMMA FirstIn == ASSUME NEW S, S # {} PROVE First(S) \in S
BY Zenon DEF First

\* The image of a finite set is finite.
LEMMA ImageFinite ==
    ASSUME NEW S, NEW T, IsFiniteSet(S), NEW f \in [S -> T], \A y \in T : \E x \in S : f[x] = y
    PROVE  IsFiniteSet(T)
<1>1. f \in Surjection(S, T)
  BY DEF Surjection
<1> QED
  BY <1>1, FS_Surjection

\* Partitioner.partition_for returns a partition there is.
LEMMA PartitionRange ==
    ASSUME NEW k \in Keys \cup {NoKey}, NEW n \in Sizes
    PROVE  PartitionFor(k, n) \subseteq 0 .. n - 1 /\ 0 .. n - 1 \subseteq Parts /\ n \in Nat \ {0}
<1>1. n \in Nat \ {0} /\ n \in Counts \cup {DefaultPartitions}
  BY CountsAssumption DEF Sizes
<1>2. 0 .. n - 1 \subseteq Parts
  BY <1>1 DEF Parts
<1>3. PartitionFor(k, n) \subseteq 0 .. n - 1
  <2>1. CASE k = NoKey
    BY <2>1 DEF PartitionFor
  <2>2. CASE k # NoKey
    <3>1. Hash[k] \in Nat
      BY <2>2, KeysAssumption
    <3>2. Hash[k] % n \in 0 .. n - 1
      BY <1>1, <3>1
    <3> QED
      BY <2>2, <3>2 DEF PartitionFor
  <2> QED
    BY <2>1, <2>2
<1> QED
  BY <1>1, <1>2, <1>3

\* Parts are numbers.
LEMMA PartsNat == Parts \subseteq Nat
<1>1. ASSUME NEW p \in Parts PROVE p \in Nat
  <2>1. PICK n \in Counts \cup {DefaultPartitions} : p \in 0 .. n - 1
    BY DEF Parts
  <2>2. n \in Nat
    BY CountsAssumption
  <2> QED
    BY <2>1, <2>2
<1> QED
  BY <1>1

\* What is on the disk is counted in numbers.
LEMMA Numbers ==
    ASSUME Types
    PROVE  /\ \A t \in Topics : meta[t] \in Int
           /\ \A l \in Logs : written[l] \in Nat /\ synced[l] \in Nat /\ synced[l] <= written[l]
<1>1. meta \in [Topics -> {Absent, Torn, DefaultPartitions} \cup Counts]
  BY DEF Types, TypeOK
<1>2. {Absent, Torn, DefaultPartitions} \cup Counts \subseteq Int
  BY CountsAssumption DEF Absent, Torn
<1> QED
  BY <1>1, <1>2 DEF Types, TypeOK

\* An entry is a triple, of a log and an opening.
LEMMA EntryType ==
    ASSUME NEW e \in Entries
    PROVE  /\ e[1] \in Topics /\ e[2] \in Parts /\ e[3] \in Nat \ {0} /\ e = <<e[1], e[2], e[3]>>
           /\ LogOf(e) = <<e[1], e[2]>> /\ LogOf(e) \in Logs
BY DEF Entries, LogOf, Logs

\* The locals of a thread that runs no call.
LEMMA IdleOK == \A i : Idle \in CallType /\ CallOK(i, Idle) /\ CallOK(i, Idle)'
<1> SUFFICES ASSUME NEW i PROVE Idle \in CallType /\ CallOK(i, Idle) /\ CallOK(i, Idle)'
  OBVIOUS
<1>1. /\ Idle.pc = "idle" /\ Idle.op = "none" /\ Idle.todo = {}
  BY DEF Idle
<1>2. (CHOOSE t \in Topics : TRUE) \in Topics
  BY TopicsAssumption, Zenon
<1>3. Idle \in CallType
  BY <1>2 DEF Idle, CallType, NotOpen, SeenType
<1> QED
  BY <1>1, <1>3 DEF CallOK

-----------------------------------------------------------------------------
(* What a step leaves as it was.                                           *)

\* A topic.json that is whole stays, and no entry goes.
Stays ==
    /\ DOMAIN entry \subseteq DOMAIN entry'
    /\ \A t \in Topics : meta[t] > 0 => meta'[t] = meta[t]

\* Records are written, never taken back.
Grows == \A l \in Logs : written[l] \in Nat /\ written'[l] \in Nat /\ written[l] <= written'[l]

\* The result of a lookup stays good.
LEMMA OpenedStays ==
    ASSUME Stays, NEW t \in Topics, NEW s, Opened(t, s)
    PROVE  Opened(t, s)'
BY DEF Stays, Opened

\* A thread that takes no step is where it was; the lock protects the topic of
\* its holder.
LEMMA OthersOK ==
    ASSUME Types, Stays, Grows, NEW j, NEW c \in CallType, CallOK(j, c),
           lock = j => UNCHANGED <<lock, cache, meta>>
    PROVE  CallOK(j, c)'
<1>1. c.topic \in Topics
  BY DEF CallType
<1>2. c.todo \subseteq DOMAIN entry'
  BY DEF CallOK, Stays
<1>3. /\ c.pc \in {"open", "write", "logs"} => lock' = j /\ cache'[c.topic] = NotOpen
      /\ c.pc = "write" => meta'[c.topic] = Torn /\ c.count > 0
      /\ c.pc = "logs" => meta'[c.topic] = c.count /\ c.count > 0
  BY DEF CallOK
<1>4. c.pc = "route" => Opened(c.topic, c.seen)'
  BY <1>1, OpenedStays DEF CallOK
<1>5. ASSUME c.pc \in {"count", "sync", "mark"}, c.op = "append"
      PROVE  \E e \in DOMAIN entry' : c.todo = {e} /\ c.off < written'[LogOf(e)]
  <2>1. PICK e \in DOMAIN entry : c.todo = {e} /\ c.off < written[LogOf(e)]
    BY <1>5 DEF CallOK
  <2>2. LogOf(e) \in Logs
    BY EntryType DEF Types
  <2>3. c.off \in Nat
    BY DEF CallType
  <2>4. c.off < written'[LogOf(e)]
    BY <2>1, <2>2, <2>3 DEF Grows
  <2> QED
    BY <2>1, <2>4 DEF Stays
<1> QED
  BY <1>2, <1>3, <1>4, <1>5 DEF CallOK

\* The step of one thread.
LEMMA CallsStep ==
    ASSUME Types, Calls, Stays, Grows, NEW i \in Threads, NEW c, call' = [call EXCEPT ![i] = c],
           CallOK(i, c)',
           \A j \in Threads \ {i} : lock = j => UNCHANGED <<lock, cache, meta>>
    PROVE  Calls'
<1>1. ASSUME NEW j \in Threads PROVE CallOK(j, call[j])'
  <2>1. PICK d : d = call'[j]
    OBVIOUS
  <2>2. CASE j = i
    <3>1. d = c
      BY <2>1, <2>2 DEF Types
    <3> QED
      BY <2>1, <2>2, <3>1
  <2>3. CASE j # i
    <3>1. d = call[j] /\ d \in CallType
      BY <2>1, <2>3 DEF Types
    <3>2. CallOK(j, d)
      BY <3>1 DEF Calls
    <3>3. CallOK(j, d)'
      BY <2>3, <3>1, <3>2, OthersOK
    <3> QED
      BY <2>1, <3>3
  <2> QED
    BY <2>2, <2>3
<1> QED
  BY <1>1 DEF Calls

\* The registry when no topic is opened and none is dropped.
LEMMA RegistryKept ==
    ASSUME Types, Registry, Stays, DOMAIN entry' = DOMAIN entry, cache' = cache,
           Serving' => Serving, status' \notin {"down", "failed"}
    PROVE  Registry'
<1>1. \A t \in Topics : cache'[t] # NotOpen => Opened(t, cache[t])'
  BY OpenedStays DEF Registry
<1>2. \A e \in DOMAIN entry : e \in Entries /\ e[1] \in Topics
  BY EntryType DEF Types
<1>3. ASSUME NEW e \in DOMAIN entry'
      PROVE  e[2] < meta'[e[1]] /\ LogOf(e) \in Owned
  <2>1. e \in DOMAIN entry /\ e \in Entries
    BY <1>3, <1>2
  <2>2. e[1] \in Topics /\ e[2] \in Nat /\ e[2] < meta[e[1]] /\ meta[e[1]] \in Int
    BY <2>1, EntryType, PartsNat, Numbers DEF Registry
  <2>3. meta'[e[1]] = meta[e[1]]
    BY <2>2 DEF Stays
  <2> QED
    BY <2>1, <2>2, <2>3 DEF Registry
<1>4. Serving' => \A e \in DOMAIN entry' : /\ cache'[e[1]] # NotOpen
                                          /\ e[3] = cache'[e[1]].opening
  BY DEF Registry
<1> QED
  BY <1>1, <1>3, <1>4 DEF Registry

\* The records when none is acknowledged and none gets a home.
LEMMA RecordsKept ==
    ASSUME Types, Types', Records, Stays, Grows, UNCHANGED <<past, status, closing>>,
           boot' \subseteq boot, \A t \in boot \ boot' : cache'[t] # NotOpen,
           \A t \in Topics : Serving /\ cache[t] # NotOpen => cache'[t] # NotOpen,
           \A l \in Logs : synced[l] <= synced'[l]
    PROVE  Records'
<1>1. /\ \A h \in homes : h[1] \in Topics
      /\ \A a \in acked : /\ a[1] \in Topics /\ a[2] \in Nat /\ a[3] \in Nat
                          /\ <<a[1], a[2]>> \in Logs
  BY PartsNat DEF Types, Acks, Logs
<1>2. \A h \in homes : meta'[h[1]] > 0 /\ h[3] = Hash[h[2]] % meta'[h[1]]
  BY <1>1 DEF Records, Stays
<1>3. ASSUME NEW a \in acked
      PROVE  /\ a[2] < meta'[a[1]] /\ <<a[1], a[2]>> \in Owned
             /\ a[3] < written'[<<a[1], a[2]>>]
  <2>1. meta[a[1]] \in Int
    BY <1>1, Numbers
  <2>2. a[2] < meta[a[1]] /\ a[3] < written[<<a[1], a[2]>>] /\ <<a[1], a[2]>> \in Owned
    BY DEF Records
  <2>3. meta'[a[1]] = meta[a[1]]
    BY <1>1, <2>1, <2>2 DEF Stays
  <2> QED
    BY <1>1, <2>2, <2>3 DEF Grows
<1>4. Serving' => \A a \in acked : a[1] \in boot' \/ cache'[a[1]] # NotOpen
  BY <1>1 DEF Records, Serving
<1>5. ASSUME status' \in {"closing", "closed"}, NEW a \in acked
      PROVE  \/ a[3] < synced'[<<a[1], a[2]>>]
             \/ \E e \in closing'.left \cup closing'.failed : LogOf(e) = <<a[1], a[2]>>
  <2>1. synced[<<a[1], a[2]>>] \in Nat /\ synced'[<<a[1], a[2]>>] \in Nat
    BY <1>1 DEF Types, TypeOK
  <2> QED
    BY <1>1, <1>5, <2>1 DEF Records
<1> QED
  BY <1>2, <1>3, <1>4, <1>5 DEF Records, past

\* A thread moves to locals c.
LEMMA CallMoves ==
    ASSUME Types, NEW i \in Threads, NEW c \in CallType, call' = [call EXCEPT ![i] = c],
           DOMAIN entry \subseteq DOMAIN entry', c.todo \subseteq DOMAIN entry'
    PROVE  /\ call' \in [Threads -> CallType]
           /\ \A j \in Threads : call'[j].todo \subseteq DOMAIN entry'
           /\ call'[i] = c /\ \A j \in Threads \ {i} : call'[j] = call[j]
<1>1. /\ call' \in [Threads -> CallType] /\ call'[i] = c
      /\ \A j \in Threads \ {i} : call'[j] = call[j]
  BY DEF Types
<1>2. ASSUME NEW j \in Threads PROVE call'[j].todo \subseteq DOMAIN entry'
  <2>1. call[j].todo \subseteq DOMAIN entry
    BY DEF Types, TypeOK
  <2> QED
    BY <1>1, <2>1
<1> QED
  BY <1>1, <1>2

\* A call under way is a call of a process that runs.
LEMMA Running ==
    ASSUME Registry, NEW i \in Threads, call[i].pc # "idle" \/ Serving
    PROVE  status \notin {"down", "failed"}
<1>1. Idle.pc = "idle"
  BY DEF Idle
<1>2. Serving => status \notin {"down", "failed"}
  BY DEF Serving
<1> QED
  BY <1>1, <1>2 DEF Registry

\* The steps of a thread that touch no file and open no topic.
LEMMA QuietStep ==
    ASSUME Held, NEW i \in Threads, NEW c \in CallType, call' = [call EXCEPT ![i] = c],
           CallOK(i, c)',
           UNCHANGED <<disk, store, status, closing, past, restarts>>,
           lock' = lock \/ (lock \in {i, Nobody} /\ lock' \in {i, Nobody}),
           boot' \subseteq boot, \A t \in boot \ boot' : cache[t] # NotOpen,
           status \notin {"down", "failed"}
    PROVE  Held'
<1>1. UNCHANGED <<meta, written, synced, cache, entry, acked, homes>>
  BY DEF disk, store, past
<1>2. Types /\ Calls /\ Registry /\ Records
  BY DEF Held
<1>3. Stays /\ Grows
  BY <1>1, <1>2, Numbers DEF Stays, Grows
<1>4. c.todo \subseteq DOMAIN entry'
  BY DEF CallOK
<1>5. Types'
  <2>1. /\ call' \in [Threads -> CallType]
        /\ \A j \in Threads : call'[j].todo \subseteq DOMAIN entry'
    BY <1>1, <1>2, <1>4, CallMoves
  <2>2. lock' \in Threads \cup {Nobody} /\ boot' \subseteq Topics
    BY <1>2 DEF Types, TypeOK
  <2>3. TypeOK'
    BY <1>1, <1>2, <2>1, <2>2 DEF Types, TypeOK
  <2> QED
    BY <1>1, <1>2, <2>1, <2>3 DEF Types
<1>6. Calls'
  <2>1. \A j \in Threads \ {i} : lock = j => UNCHANGED <<lock, cache, meta>>
    BY <1>1, TopicsAssumption DEF Nobody
  <2> QED
    BY <1>2, <1>3, <2>1, CallsStep
<1>7. Registry'
  BY <1>1, <1>2, <1>3, RegistryKept DEF Serving
<1>8. Records'
  <2>1. \A l \in Logs : synced[l] <= synced'[l]
    BY <1>1, <1>2, Numbers
  <2> QED
    BY <1>1, <1>2, <1>3, <1>5, <2>1, RecordsKept
<1> QED
  BY <1>5, <1>6, <1>7, <1>8 DEF Held

\* A call that begins.
LEMMA HeldCalls ==
    ASSUME Held, NEW i \in Threads, CallAppend(i) \/ CallOther(i) \/ CallBoot(i)
    PROVE  Held'
<1>1. PICK c : /\ c.pc \in {"enter", "snapshot"} /\ c.todo = {} /\ c \in CallType
               /\ c.pc = "snapshot" => c.op = "sync"
               /\ call' = [call EXCEPT ![i] = c]
  <2>1. CASE CallAppend(i)
    <3>1. PICK t \in Topics, k \in Keys \cup {NoKey} :
              Start(i, [Idle EXCEPT !.pc = "enter", !.op = "append", !.topic = t, !.key = k])
      BY <2>1 DEF CallAppend
    <3>2. PICK c : c = [Idle EXCEPT !.pc = "enter", !.op = "append", !.topic = t, !.key = k]
      OBVIOUS
    <3>3. c.pc = "enter" /\ c.todo = {} /\ c \in CallType
      BY <3>2, IdleOK DEF Idle, CallType
    <3> QED
      BY <3>1, <3>2, <3>3 DEF Start
  <2>2. CASE CallOther(i)
    <3>1. PICK t \in Topics :
            \/ Start(i, [Idle EXCEPT !.pc = "enter", !.op = "get", !.topic = t])
            \/ \E n \in Counts :
                Start(i, [Idle EXCEPT !.pc = "enter", !.op = "create", !.topic = t, !.count = n])
            \/ Start(i, [Idle EXCEPT !.pc = "snapshot", !.op = "sync"])
      BY <2>2 DEF CallOther
    <3>2. CASE Start(i, [Idle EXCEPT !.pc = "enter", !.op = "get", !.topic = t])
      <4>1. PICK c : c = [Idle EXCEPT !.pc = "enter", !.op = "get", !.topic = t]
        OBVIOUS
      <4>2. c.pc = "enter" /\ c.todo = {} /\ c \in CallType
        BY <4>1, IdleOK DEF Idle, CallType
      <4> QED
        BY <3>2, <4>1, <4>2 DEF Start
    <3>3. ASSUME NEW n \in Counts,
                 Start(i, [Idle EXCEPT !.pc = "enter", !.op = "create", !.topic = t, !.count = n])
          PROVE  \E c : /\ c.pc \in {"enter", "snapshot"} /\ c.todo = {} /\ c \in CallType
                        /\ c.pc = "snapshot" => c.op = "sync"
                        /\ call' = [call EXCEPT ![i] = c]
      <4>1. PICK c : c = [Idle EXCEPT !.pc = "enter", !.op = "create", !.topic = t, !.count = n]
        OBVIOUS
      <4>2. c.pc = "enter" /\ c.todo = {} /\ c \in CallType
        BY <4>1, IdleOK DEF Idle, CallType
      <4> QED
        BY <3>3, <4>1, <4>2 DEF Start
    <3>4. CASE Start(i, [Idle EXCEPT !.pc = "snapshot", !.op = "sync"])
      <4>1. PICK c : c = [Idle EXCEPT !.pc = "snapshot", !.op = "sync"]
        OBVIOUS
      <4>2. c.pc = "snapshot" /\ c.op = "sync" /\ c.todo = {} /\ c \in CallType
        BY <4>1, IdleOK DEF Idle, CallType
      <4> QED
        BY <3>4, <4>1, <4>2 DEF Start
    <3> QED
      BY <3>1, <3>2, <3>3, <3>4
  <2>3. CASE CallBoot(i)
    <3>1. PICK t \in Topics : Start(i, [Idle EXCEPT !.pc = "enter", !.op = "boot", !.topic = t])
      BY <2>3 DEF CallBoot, Held, Types, TypeOK
    <3>2. PICK c : c = [Idle EXCEPT !.pc = "enter", !.op = "boot", !.topic = t]
      OBVIOUS
    <3>3. c.pc = "enter" /\ c.todo = {} /\ c \in CallType
      BY <3>2, IdleOK DEF Idle, CallType
    <3> QED
      BY <3>1, <3>2, <3>3 DEF Start
  <2> QED
    BY <2>1, <2>2, <2>3
<1>2. /\ UNCHANGED <<disk, store, lock, boot, status, closing, past, restarts>> /\ Serving
  BY DEF CallAppend, CallOther, CallBoot, used, Serving
<1>3. CallOK(i, c)'
  BY <1>1 DEF CallOK
<1>4. status \notin {"down", "failed"}
  BY <1>2 DEF Serving
<1> QED
  BY <1>1, <1>2, <1>3, <1>4, QuietStep

\* The lookup: a hit, a miss that takes the lock, a topic.json that is found.
LEMMA HeldLookup ==
    ASSUME Held, NEW i \in Threads, EnterHit(i) \/ EnterMiss(i) \/ OpenKnown(i)
    PROVE  Held'
<1>1. PICK d : d = call[i]
  OBVIOUS
<1>2. d \in CallType /\ CallOK(i, d) /\ d.topic \in Topics
  BY <1>1 DEF Held, Types, Calls, CallType
<1>3. call[i].pc # "idle"
  BY DEF EnterHit, EnterMiss, OpenKnown
<1>4. status \notin {"down", "failed"}
  BY <1>3, Running DEF Held
<1>5. meta[d.topic] \in Counts \cup {DefaultPartitions, Absent, Torn}
  BY <1>2 DEF Held, Types, TypeOK
<1>6. CASE EnterHit(i)
  <2>1. CASE d.op = "append"
    <3>1. PICK c : c = [d EXCEPT !.pc = "route", !.seen = cache[d.topic]]
      OBVIOUS
    <3>2. /\ call' = [call EXCEPT ![i] = c] /\ cache[d.topic] # NotOpen
          /\ UNCHANGED <<disk, store, lock, boot, status, closing, past, restarts>>
      BY <1>1, <1>2, <1>6, <2>1, <3>1 DEF EnterHit, Found, Held, Types, CallType, used
    <3>3. /\ c \in CallType /\ c.pc = "route" /\ c.topic = d.topic /\ c.op = "append"
          /\ c.seen = cache[d.topic] /\ c.todo = d.todo
      <4>1. cache[d.topic] \in SeenType
        BY <1>2 DEF Held, Types
      <4> QED
        BY <1>2, <2>1, <3>1, <4>1 DEF CallType
    <3>4. Opened(c.topic, c.seen)
      BY <1>2, <3>2, <3>3 DEF Held, Registry
    <3>5. CallOK(i, c)
      BY <1>2, <3>3, <3>4 DEF CallOK
    <3>6. CallOK(i, c)'
      BY <3>2, <3>3, <3>5 DEF CallOK, Opened, disk, store
    <3> QED
      BY <1>4, <3>2, <3>3, <3>6, QuietStep
  <2>2. CASE d.op # "append"
    <3>1. /\ call' = [call EXCEPT ![i] = Idle]
          /\ boot' \subseteq boot /\ boot \ boot' \subseteq {d.topic} /\ cache[d.topic] # NotOpen
          /\ UNCHANGED <<disk, store, lock, status, closing, past, restarts>>
      BY <1>1, <1>6, <2>2 DEF EnterHit, Found, Return, used
    <3> QED
      BY <1>4, <3>1, IdleOK, QuietStep
  <2> QED
    BY <2>1, <2>2
<1>7. CASE EnterMiss(i)
  <2>1. PICK c : c = [d EXCEPT !.pc = "open"]
    OBVIOUS
  <2>2. /\ call' = [call EXCEPT ![i] = c] /\ lock' = i /\ lock = Nobody /\ cache[d.topic] = NotOpen
        /\ UNCHANGED <<disk, store, boot, status, closing, past, restarts>> /\ d.pc = "enter"
    BY <1>1, <1>7, <2>1 DEF EnterMiss, Free, used
  <2>3. c \in CallType /\ c.pc = "open" /\ c.topic = d.topic /\ c.todo = d.todo
    BY <1>2, <2>1 DEF CallType
  <2>4. CallOK(i, c)'
    BY <1>2, <2>2, <2>3 DEF CallOK, store
  <2> QED
    BY <1>4, <2>2, <2>3, <2>4, QuietStep
<1>8. CASE OpenKnown(i)
  <2>1. PICK c : c = [d EXCEPT !.pc = "logs", !.count = meta[d.topic]]
    OBVIOUS
  <2>2. /\ call' = [call EXCEPT ![i] = c] /\ d.pc = "open" /\ meta[d.topic] > 0
        /\ UNCHANGED <<disk, store, lock, boot, status, closing, past, restarts>>
    BY <1>1, <1>8, <2>1 DEF OpenKnown, used
  <2>3. /\ c \in CallType /\ c.pc = "logs" /\ c.topic = d.topic /\ c.todo = d.todo
        /\ c.count = meta[d.topic]
    <3>1. meta[d.topic] \in Counts \cup {DefaultPartitions}
      BY <1>5, <2>2 DEF Absent, Torn
    <3> QED
      BY <1>2, <2>1, <3>1 DEF CallType
  <2>4. CallOK(i, c)'
    BY <1>2, <2>2, <2>3 DEF CallOK, store, disk
  <2> QED
    BY <1>4, <2>2, <2>3, <2>4, QuietStep
<1> QED
  BY <1>6, <1>7, <1>8

\* The process is gone: what was on the disk and what was acknowledged stays.
LEMMA HeldGone ==
    ASSUME Held, NEW s \in {"down", "failed"}, Gone(s)
    PROVE  Held'
<1>1. /\ status' = s /\ lock' = Nobody /\ boot' = {}
      /\ cache' = [t \in Topics |-> NotOpen] /\ entry' = [e \in {} |-> 0]
      /\ call' = [i \in Threads |-> Idle] /\ closing' = [left |-> {}, failed |-> {}]
      /\ UNCHANGED <<meta, written, synced, acked, homes, restarts>>
  BY DEF Gone, disk, past, used
<1>2. DOMAIN entry' = {} /\ ~ Serving'
  BY <1>1 DEF Serving
<1>3. Types'
  <2>1. /\ Idle \in CallType /\ Idle.todo = {}
    BY IdleOK DEF Idle
  <2>2. TypeOK'
    BY <1>1, <1>2, <2>1 DEF Held, Types, TypeOK
  <2>3. IsFiniteSet(DOMAIN entry')
    BY <1>2, FS_EmptySet
  <2>4. entry' \in [DOMAIN entry' -> [appends : Nat, open : BOOLEAN]]
    BY <1>1, <1>2
  <2>5. cache' \in [Topics -> SeenType] /\ call' \in [Threads -> CallType]
    BY <1>1, <2>1 DEF SeenType, NotOpen
  <2>6. closing' \in [left : SUBSET Entries, failed : SUBSET Entries]
    BY <1>1
  <2> QED
    BY <1>1, <1>2, <2>2, <2>3, <2>4, <2>5, <2>6 DEF Held, Types
<1>4. Calls'
  <2>1. \A i \in Threads : call'[i] = Idle
    BY <1>1
  <2> QED
    BY <2>1, IdleOK DEF Calls
<1>5. Registry'
  <2>1. \A t \in Topics : cache'[t] = NotOpen
    BY <1>1
  <2>2. \A i \in Threads : call'[i] = Idle
    BY <1>1
  <2> QED
    BY <1>2, <2>1, <2>2 DEF Registry
<1>6. Records'
  <2>1. closing'.left = {} /\ status' \notin {"up", "closing", "closed"}
    BY <1>1
  <2> QED
    BY <1>1, <1>2, <2>1 DEF Held, Records
<1> QED
  BY <1>3, <1>4, <1>5, <1>6 DEF Held

\* A call raises: the thread is free, or the process ends with it.
LEMMA HeldRaise ==
    ASSUME Held, NEW i \in Threads, call[i].pc # "idle", Raise(i)
    PROVE  Held'
<1>1. status \notin {"down", "failed"}
  BY Running DEF Held
<1>2. CASE Gone("failed")
  BY <1>2, HeldGone
<1>3. CASE /\ call' = [call EXCEPT ![i] = Idle] /\ lock' = (IF lock = i THEN Nobody ELSE lock)
           /\ UNCHANGED <<disk, store, boot, status, closing, past, used>>
  BY <1>1, <1>3, IdleOK, QuietStep DEF used
<1> QED
  BY <1>2, <1>3 DEF Raise

\* The steps that raise, and the list that sync works through.
LEMMA HeldQuiet ==
    ASSUME Held, NEW i \in Threads,
           \/ OpenRaises(i) \/ LogsRaise(i) \/ NotLocal(i) \/ AppendClosed(i) \/ SyncRaises(i)
           \/ Snapshot(i)
    PROVE  Held'
<1>1. CASE OpenRaises(i) \/ LogsRaise(i) \/ NotLocal(i) \/ AppendClosed(i) \/ SyncRaises(i)
  <2>1. call[i].pc # "idle" /\ Raise(i)
    BY <1>1 DEF OpenRaises, LogsRaise, NotLocal, AppendClosed, SyncRaises
  <2> QED
    BY <2>1, HeldRaise
<1>2. CASE Snapshot(i)
  <2>1. PICK d : d = call[i]
    OBVIOUS
  <2>2. PICK c : c = IF Cached = {} THEN Idle ELSE [d EXCEPT !.pc = "sync", !.todo = Cached]
    OBVIOUS
  <2>3. /\ call' = [call EXCEPT ![i] = c] /\ d.pc = "snapshot"
        /\ UNCHANGED <<disk, store, lock, boot, status, closing, past, restarts>>
    BY <1>2, <2>1, <2>2 DEF Snapshot, used
  <2>4. status \notin {"down", "failed"}
    BY <2>1, <2>3, Running DEF Held
  <2>5. CASE Cached = {}
    BY <2>2, <2>3, <2>4, <2>5, IdleOK, QuietStep
  <2>6. CASE Cached # {}
    <3>1. d \in CallType /\ CallOK(i, d)
      BY <2>1 DEF Held, Types, Calls
    <3>2. d.op = "sync"
      BY <2>3, <3>1 DEF CallOK
    <3>3. Cached \subseteq DOMAIN entry /\ DOMAIN entry \subseteq Entries
      BY DEF Cached, Held, Types
    <3>4. c \in CallType /\ c.pc = "sync" /\ c.op = "sync" /\ c.todo = Cached
      BY <2>2, <2>6, <3>1, <3>2, <3>3 DEF CallType
    <3>5. CallOK(i, c)'
      BY <2>3, <2>6, <3>3, <3>4 DEF CallOK, store
    <3> QED
      BY <2>3, <2>4, <3>4, <3>5, QuietStep
  <2> QED
    BY <2>5, <2>6
<1> QED
  BY <1>1, <1>2

\* topic.json changes only while it is none, or empty, and only in the hands of
\* the thread that holds the lock.
LEMMA MetaStep ==
    ASSUME Held, NEW i \in Threads, NEW c \in CallType, call' = [call EXCEPT ![i] = c],
           lock = i, NEW t \in Topics, meta[t] <= 0, NEW v \in {Torn, DefaultPartitions} \cup Counts,
           meta' = [meta EXCEPT ![t] = v], CallOK(i, c)',
           UNCHANGED <<written, synced, store, lock, boot, status, closing, past, restarts>>,
           status \notin {"down", "failed"}
    PROVE  Held'
<1>1. UNCHANGED <<written, synced, cache, entry, acked, homes>>
  BY DEF store, past
<1>2. Types /\ Calls /\ Registry /\ Records
  BY DEF Held
<1>3. Stays
  <2>1. \A u \in Topics \ {t} : meta'[u] = meta[u]
    BY <1>2 DEF Types, TypeOK
  <2>2. ~ (meta[t] > 0)
    BY <1>2, Numbers
  <2> QED
    BY <1>1, <2>1, <2>2 DEF Stays
<1>4. Grows
  BY <1>1, <1>2, Numbers DEF Grows
<1>5. c.todo \subseteq DOMAIN entry'
  BY DEF CallOK
<1>6. Types'
  <2>1. /\ call' \in [Threads -> CallType]
        /\ \A j \in Threads : call'[j].todo \subseteq DOMAIN entry'
    BY <1>1, <1>2, <1>5, CallMoves
  <2>2. meta' \in [Topics -> {Absent, Torn, DefaultPartitions} \cup Counts]
    BY <1>2 DEF Types, TypeOK
  <2>3. TypeOK'
    BY <1>1, <1>2, <2>1, <2>2 DEF Types, TypeOK
  <2> QED
    BY <1>1, <1>2, <2>1, <2>3 DEF Types
<1>7. Calls'
  <2>1. \A j \in Threads \ {i} : lock = j => UNCHANGED <<lock, cache, meta>>
    OBVIOUS
  <2> QED
    BY <1>2, <1>3, <1>4, <2>1, CallsStep
<1>8. Registry'
  BY <1>1, <1>2, <1>3, RegistryKept DEF Serving
<1>9. Records'
  <2>1. \A l \in Logs : synced[l] <= synced'[l]
    BY <1>1, <1>2, Numbers
  <2> QED
    BY <1>1, <1>2, <1>3, <1>4, <1>6, <2>1, RecordsKept
<1> QED
  BY <1>6, <1>7, <1>8, <1>9 DEF Held

\* A topic is created: its topic.json is emptied, and then written.
LEMMA HeldMeta ==
    ASSUME Held, NEW i \in Threads, OpenNew(i) \/ WriteMeta(i)
    PROVE  Held'
<1>1. PICK d : d = call[i]
  OBVIOUS
<1>2. d \in CallType /\ CallOK(i, d) /\ d.topic \in Topics
  BY <1>1 DEF Held, Types, Calls, CallType
<1>3. call[i].pc # "idle"
  BY DEF OpenNew, WriteMeta
<1>4. status \notin {"down", "failed"}
  BY <1>3, Running DEF Held
<1>5. CASE OpenNew(i)
  <2>1. PICK c : c = [d EXCEPT !.pc = "write",
                               !.count = IF @ = 0 THEN DefaultPartitions ELSE @]
    OBVIOUS
  <2>2. /\ call' = [call EXCEPT ![i] = c] /\ d.pc = "open" /\ meta[d.topic] = Absent
        /\ meta' = [meta EXCEPT ![d.topic] = Torn]
        /\ UNCHANGED <<written, synced, store, lock, boot, status, closing, past, restarts>>
    BY <1>1, <1>2, <1>5, <2>1 DEF OpenNew, used, Held, Types, CallType
  <2>3. /\ c \in CallType /\ c.pc = "write" /\ c.topic = d.topic /\ c.todo = d.todo
        /\ c.count > 0
    <3>1. /\ d.count \in Counts \cup {DefaultPartitions, 0}
          /\ Counts \subseteq Nat /\ DefaultPartitions \in Nat \ {0}
      BY <1>2, CountsAssumption DEF CallType
    <3>2. /\ c.count \in Counts \cup {DefaultPartitions} /\ c.count # 0
          /\ c = [d EXCEPT !.pc = "write", !.count = c.count]
      BY <1>2, <2>1, <3>1 DEF CallType
    <3>3. c.count > 0
      BY <3>1, <3>2
    <3> QED
      BY <1>2, <3>2, <3>3 DEF CallType
  <2>4. lock = i /\ cache[d.topic] = NotOpen /\ d.todo \subseteq DOMAIN entry
    BY <1>2, <2>2 DEF CallOK
  <2>5. meta'[d.topic] = Torn
    BY <1>2, <2>2 DEF Held, Types, TypeOK
  <2>6. CallOK(i, c)'
    BY <2>2, <2>3, <2>4, <2>5 DEF CallOK, store
  <2>7. meta[d.topic] <= 0
    BY <2>2 DEF Absent
  <2> QED
    BY <1>2, <1>4, <2>2, <2>3, <2>4, <2>6, <2>7, MetaStep
<1>6. CASE WriteMeta(i)
  <2>1. PICK c : c = [d EXCEPT !.pc = "logs"]
    OBVIOUS
  <2>2. /\ call' = [call EXCEPT ![i] = c] /\ d.pc = "write"
        /\ meta' = [meta EXCEPT ![d.topic] = d.count]
        /\ UNCHANGED <<written, synced, store, lock, boot, status, closing, past, restarts>>
    BY <1>1, <1>6, <2>1 DEF WriteMeta, used
  <2>3. /\ lock = i /\ cache[d.topic] = NotOpen /\ d.todo \subseteq DOMAIN entry
        /\ meta[d.topic] = Torn /\ d.count > 0
    BY <1>2, <2>2 DEF CallOK
  <2>4. d.count \in Counts \cup {DefaultPartitions}
    BY <1>2, <2>3 DEF CallType
  <2>5. /\ c \in CallType /\ c.pc = "logs" /\ c.topic = d.topic /\ c.todo = d.todo
        /\ c.count = d.count
    BY <1>2, <2>1 DEF CallType
  <2>6. meta'[d.topic] = d.count
    BY <1>2, <2>2 DEF Held, Types, TypeOK
  <2>7. CallOK(i, c)'
    BY <2>2, <2>3, <2>5, <2>6 DEF CallOK, store
  <2>8. meta[d.topic] <= 0
    BY <2>3 DEF Torn
  <2> QED
    BY <1>2, <1>4, <2>2, <2>3, <2>4, <2>5, <2>7, <2>8, MetaStep
<1> QED
  BY <1>5, <1>6

\* The number of an opening: one more than there are openings of the topic.
LEMMA OpeningNumber ==
    ASSUME Types, NEW t \in Topics
    PROVE  Cardinality({e[3] : e \in {d \in DOMAIN entry : d[1] = t}}) + 1 \in Nat \ {0}
<1> DEFINE S == {d \in DOMAIN entry : d[1] = t}
           T == {e[3] : e \in S}
           f == [e \in S |-> e[3]]
<1>1. IsFiniteSet(S)
  BY FS_Subset DEF Types
<1>2. f \in [S -> T] /\ \A y \in T : \E x \in S : f[x] = y
  OBVIOUS
<1>3. IsFiniteSet(T)
  <2> HIDE DEF S, T, f
  <2> QED
    BY <1>1, <1>2, ImageFinite
<1>4. Cardinality(T) \in Nat
  BY <1>3, FS_CardinalityType
<1> QED
  BY <1>4

\* new holds the entries of opening k of topic t, one for each partition that is ours.
EntriesOf(new, t, n, k) ==
    /\ \A e \in new : \E p \in 0 .. n - 1 : e = <<t, p, k>> /\ <<t, p>> \in Owned
    /\ \A p \in 0 .. n - 1 : <<t, p>> \in Owned => <<t, p, k>> \in new

\* The partitions of an opening are finitely many entries, of logs that are ours.
LEMMA NewEntries ==
    ASSUME NEW t \in Topics, NEW n \in Sizes, NEW k \in Nat \ {0}, NEW new,
           EntriesOf(new, t, n, k)
    PROVE  /\ IsFiniteSet(new) /\ new \subseteq Entries
           /\ \A e \in new : /\ e[1] = t /\ e[2] \in 0 .. n - 1 /\ e[3] = k
                             /\ LogOf(e) \in Owned
<1> DEFINE S == {q \in 0 .. n - 1 : <<t, q>> \in Owned}
           f == [q \in S |-> <<t, q, k>>]
<1>1. n \in Nat \ {0} /\ 0 .. n - 1 \subseteq Parts
  BY PartitionRange
<1>2. IsFiniteSet(S)
  <2>1. IsFiniteSet(0 .. n - 1) /\ S \in SUBSET (0 .. n - 1)
    BY <1>1, FS_Interval
  <2> QED
    BY <2>1, FS_Subset
<1>3. f \in [S -> new] /\ \A y \in new : \E x \in S : f[x] = y
  BY DEF EntriesOf
<1>4. IsFiniteSet(new)
  <2> HIDE DEF S, f
  <2> QED
    BY <1>2, <1>3, ImageFinite
<1>5. \A e \in new : /\ e \in Entries /\ e[1] = t /\ e[2] \in 0 .. n - 1 /\ e[3] = k
                     /\ LogOf(e) \in Owned
  <2> TAKE e \in new
  <2>1. PICK p \in 0 .. n - 1 : e = <<t, p, k>> /\ <<t, p>> \in Owned
    BY DEF EntriesOf
  <2>2. e[1] = t /\ e[2] = p /\ e[3] = k /\ e \in Entries
    BY <1>1, <2>1 DEF Entries
  <2> QED
    BY <2>1, <2>2 DEF LogOf
<1> QED
  BY <1>4, <1>5

\* The topic is opened; while the broker serves it had no entries.
LEMMA HeldOpenLogs ==
    ASSUME Held, NEW i \in Threads, OpenLogs(i)
    PROVE  Held'
<1>1. PICK d : d = call[i]
  OBVIOUS
<1>2. PICK t : t = d.topic
  OBVIOUS
<1>3. PICK k : k = Cardinality({e[3] : e \in {x \in DOMAIN entry : x[1] = t}}) + 1
  OBVIOUS
<1>4. PICK new : new = {<<t, p, k>> : p \in {q \in 0 .. d.count - 1 : <<t, q>> \in Owned}}
  OBVIOUS
<1>5. PICK seen : seen = [n |-> d.count, opening |-> k]
  OBVIOUS
<1>6. Types /\ Calls /\ Registry /\ Records
  BY DEF Held
<1>7. /\ d.pc = "logs" /\ lock' = Nobody /\ Found(i, seen)
      /\ entry' = [e \in DOMAIN entry \cup new |->
                      IF e \in new THEN [appends |-> 0, open |-> TRUE] ELSE entry[e]]
      /\ cache' = [cache EXCEPT ![t] = seen]
      /\ UNCHANGED <<meta, written, synced, status, closing, acked, homes, restarts>>
  BY <1>1, <1>2, <1>3, <1>4, <1>5 DEF OpenLogs, disk, past, used
<1>8. /\ d \in CallType /\ t \in Topics /\ lock = i /\ cache[t] = NotOpen
      /\ meta[t] = d.count /\ d.count > 0 /\ d.todo \subseteq DOMAIN entry
  BY <1>1, <1>2, <1>6, <1>7 DEF Types, Calls, CallOK, CallType
<1>9. d.count \in Sizes /\ k \in Nat \ {0}
  <2>1. d.count \in Counts \cup {DefaultPartitions, 0} /\ d.count # 0
    BY <1>8, CountsAssumption DEF CallType
  <2> QED
    BY <1>3, <1>6, <1>8, <2>1, OpeningNumber DEF Sizes
<1>10. /\ IsFiniteSet(new) /\ new \subseteq Entries
       /\ \A e \in new : /\ e[1] = t /\ e[2] \in 0 .. d.count - 1 /\ e[3] = k
                         /\ LogOf(e) \in Owned
       /\ \A p \in 0 .. d.count - 1 : <<t, p>> \in Owned => <<t, p, k>> \in new
  <2>1. PICK n \in Sizes : n = d.count
    BY <1>9
  <2>2. EntriesOf(new, t, n, k)
    BY <1>4, <2>1 DEF EntriesOf
  <2>3. /\ IsFiniteSet(new) /\ new \subseteq Entries
        /\ \A e \in new : /\ e[1] = t /\ e[2] \in 0 .. n - 1 /\ e[3] = k
                          /\ LogOf(e) \in Owned
    BY <1>8, <1>9, <2>2, NewEntries
  <2> QED
    BY <2>1, <2>2, <2>3 DEF EntriesOf
<1>11. status \notin {"down", "failed"}
  BY <1>1, <1>6, <1>7, Running
<1>12. DOMAIN entry' = DOMAIN entry \cup new
  BY <1>7
<1>13. /\ cache'[t] = seen /\ seen # NotOpen /\ seen \in SeenType
       /\ \A u \in Topics \ {t} : cache'[u] = cache[u]
  BY <1>5, <1>6, <1>7, <1>8, <1>9 DEF Types, NotOpen, SeenType
<1>14. Stays /\ Grows
  BY <1>6, <1>7, <1>12, Numbers DEF Stays, Grows
<1>15. Opened(t, seen)'
  BY <1>5, <1>7, <1>8, <1>10, <1>12 DEF Opened
<1>16. PICK c : /\ c \in CallType /\ c.todo \subseteq DOMAIN entry /\ CallOK(i, c)'
                /\ call' = [call EXCEPT ![i] = c]
                /\ boot' \subseteq boot /\ boot \ boot' \subseteq {t}
  <2>1. CASE d.op = "append"
    <3>1. PICK c : c = [d EXCEPT !.pc = "route", !.seen = seen]
      OBVIOUS
    <3>2. call' = [call EXCEPT ![i] = c] /\ boot' = boot
      BY <1>1, <1>6, <1>7, <2>1, <3>1 DEF Found, Types, CallType
    <3>3. /\ c \in CallType /\ c.pc = "route" /\ c.topic = t /\ c.op = "append"
          /\ c.seen = seen /\ c.todo = d.todo
      BY <1>2, <1>8, <1>13, <2>1, <3>1 DEF CallType
    <3>4. CallOK(i, c)'
      BY <1>8, <1>12, <1>15, <3>3 DEF CallOK
    <3> QED
      BY <1>8, <3>2, <3>3, <3>4
  <2>2. CASE d.op # "append"
    <3>1. /\ call' = [call EXCEPT ![i] = Idle]
          /\ boot' \subseteq boot /\ boot \ boot' \subseteq {t}
      BY <1>1, <1>2, <1>7, <2>2 DEF Found, Return
    <3>2. Idle.todo = {}
      BY DEF Idle
    <3> QED
      BY <3>1, <3>2, IdleOK
  <2> QED
    BY <2>1, <2>2
<1>17. Types'
  <2>1. /\ call' \in [Threads -> CallType]
        /\ \A j \in Threads : call'[j].todo \subseteq DOMAIN entry'
    BY <1>6, <1>12, <1>16, CallMoves
  <2>2. entry' \in [DOMAIN entry' -> [appends : Nat, open : BOOLEAN]]
    BY <1>6, <1>7, <1>12 DEF Types
  <2>3. DOMAIN entry' \subseteq Entries /\ IsFiniteSet(DOMAIN entry')
    <3>1. IsFiniteSet(DOMAIN entry) /\ DOMAIN entry \subseteq Entries
      BY <1>6 DEF Types
    <3>2. IsFiniteSet((DOMAIN entry) \cup new)
      BY <1>10, <3>1, FS_Union
    <3> QED
      BY <1>10, <1>12, <3>1, <3>2
  <2>4. \A e \in DOMAIN entry' : /\ LogOf(e) \in Logs /\ e[3] \in Nat \ {0}
                                 /\ entry'[e].appends \in Nat /\ entry'[e].open \in BOOLEAN
    BY <2>2, <2>3, EntryType
  <2>5. TypeOK'
    BY <1>6, <1>7, <1>12, <1>16, <2>1, <2>4 DEF Types, TypeOK
  <2>6. cache' \in [Topics -> SeenType]
    BY <1>6, <1>7, <1>13 DEF Types
  <2> QED
    BY <1>6, <1>7, <2>1, <2>2, <2>3, <2>5, <2>6 DEF Types
<1>18. Calls'
  <2>1. \A j \in Threads \ {i} : lock = j => UNCHANGED <<lock, cache, meta>>
    BY <1>8
  <2> QED
    BY <1>6, <1>14, <1>16, <2>1, CallsStep
<1>19. Registry'
  <2>1. ASSUME NEW u \in Topics, cache'[u] # NotOpen PROVE Opened(u, cache[u])'
    <3>1. CASE u = t
      BY <1>13, <1>15, <3>1 DEF Opened
    <3>2. CASE u # t
      <4>1. PICK s : s = cache[u]
        OBVIOUS
      <4>2. Opened(u, s) /\ cache'[u] = s
        BY <1>6, <1>13, <2>1, <3>2, <4>1 DEF Registry
      <4>3. Opened(u, s)'
        BY <1>14, <4>2, OpenedStays
      <4> QED
        BY <4>2, <4>3 DEF Opened
    <3> QED
      BY <3>1, <3>2
  <2>2. ASSUME NEW e \in DOMAIN entry'
        PROVE  e[2] < meta'[e[1]] /\ LogOf(e) \in Owned
    <3>1. CASE e \in new
      <4>1. /\ e[1] = t /\ e[2] \in 0 .. d.count - 1 /\ d.count \in Nat /\ LogOf(e) \in Owned
            /\ meta'[t] = d.count
        BY <1>7, <1>8, <1>9, <1>10, <3>1, CountsAssumption DEF Sizes
      <4> QED
        BY <4>1
    <3>2. CASE e \in DOMAIN entry
      BY <1>6, <1>7, <3>2 DEF Registry
    <3> QED
      BY <1>12, <3>1, <3>2
  <2>3. ASSUME Serving', NEW e \in DOMAIN entry'
        PROVE  cache'[e[1]] # NotOpen /\ e[3] = cache'[e[1]].opening
    <3>1. CASE e \in new
      BY <1>5, <1>10, <1>13, <3>1
    <3>2. CASE e \in DOMAIN entry
      <4>1. Serving
        BY <1>7, <2>3 DEF Serving
      <4>2. e[1] \in Topics /\ cache[e[1]] # NotOpen /\ e[3] = cache[e[1]].opening
        BY <1>6, <3>2, <4>1, EntryType DEF Registry, Types
      <4> QED
        BY <1>8, <1>13, <4>2
    <3> QED
      BY <1>12, <3>1, <3>2
  <2> QED
    BY <1>7, <1>11, <2>1, <2>2, <2>3 DEF Registry
<1>20. Records'
  <2>1. \A l \in Logs : synced[l] <= synced'[l]
    BY <1>6, <1>7, Numbers
  <2>2. \A u \in Topics : cache[u] # NotOpen => cache'[u] # NotOpen
    BY <1>8, <1>13
  <2>3. \A u \in boot \ boot' : cache'[u] # NotOpen
    BY <1>13, <1>16
  <2>4. UNCHANGED <<past, status, closing>> /\ boot' \subseteq boot
    BY <1>7, <1>16 DEF past
  <2> QED
    BY <1>6, <1>14, <1>17, <2>1, <2>2, <2>3, <2>4, RecordsKept
<1> QED
  BY <1>17, <1>18, <1>19, <1>20 DEF Held

\* An acknowledged record, as Records has it.
Acknowledged(a) ==
    /\ a \in Acks /\ Serving /\ cache[a[1]] # NotOpen
    /\ a[2] < meta[a[1]] /\ <<a[1], a[2]>> \in Owned /\ a[3] < written[<<a[1], a[2]>>]

\* A record is acknowledged to a caller that waits for it, out of an entry.
LEMMA AckOK ==
    ASSUME Held, NEW i \in Threads, NEW e \in DOMAIN entry, call[i].off < written[LogOf(e)],
           Ack(i, LogOf(e))
    PROVE  acked' = acked \/ \E a : Acknowledged(a) /\ acked' = acked \cup {a}
<1>1. /\ e \in Entries /\ e[1] \in Topics /\ e[2] \in Parts /\ LogOf(e) = <<e[1], e[2]>>
      /\ call[i].off \in Nat
  BY EntryType DEF Held, Types, CallType
<1>2. CASE ~ Serving
  BY <1>2 DEF Ack
<1>3. CASE Serving
  <2>1. PICK a : a = <<e[1], e[2], call[i].off>>
    OBVIOUS
  <2>2. /\ a \in Acks /\ a[1] = e[1] /\ a[2] = e[2] /\ a[3] = call[i].off
    BY <1>1, <2>1, PartsNat DEF Acks
  <2>3. /\ e[2] < meta[e[1]] /\ LogOf(e) \in Owned /\ cache[e[1]] # NotOpen
    BY <1>3 DEF Held, Registry
  <2>4. Acknowledged(a)
    BY <1>1, <1>3, <2>2, <2>3 DEF Acknowledged
  <2>5. acked' = acked \cup {a}
    BY <1>1, <1>3, <2>1 DEF Ack
  <2> QED
    BY <2>4, <2>5
<1> QED
  BY <1>2, <1>3

\* The steps of a thread that work on a Log: nothing is opened or closed, and
\* what was written or fsynced stays so.
LEMMA WorkStep ==
    ASSUME Held, NEW i \in Threads, NEW c \in CallType, call' = [call EXCEPT ![i] = c],
           CallOK(i, c)',
           UNCHANGED <<meta, cache, lock, boot, status, closing, restarts>>,
           DOMAIN entry' = DOMAIN entry,
           entry' \in [DOMAIN entry -> [appends : Nat, open : BOOLEAN]],
           written' \in [Logs -> Nat], synced' \in [Logs -> Nat],
           \A l \in Logs : /\ written[l] <= written'[l]
                           /\ synced[l] <= synced'[l] /\ synced'[l] <= written'[l],
           \/ homes' = homes
           \/ \E h \in Topics \X Keys \X Parts : /\ homes' = homes \cup {h}
                                                 /\ meta[h[1]] > 0
                                                 /\ h[3] = Hash[h[2]] % meta[h[1]],
           acked' = acked \/ \E a : Acknowledged(a) /\ acked' = acked \cup {a},
           call[i].pc # "idle"
    PROVE  Held'
<1>1. Types /\ Calls /\ Registry /\ Records
  BY DEF Held
<1>2. Stays /\ Grows
  BY <1>1, Numbers DEF Stays, Grows
<1>3. c.todo \subseteq DOMAIN entry'
  BY DEF CallOK
<1>4. status \notin {"down", "failed"}
  BY <1>1, Running
<1>5. \A a \in acked' : a \in acked \/ Acknowledged(a)
  OBVIOUS
<1>6. Types'
  <2>1. /\ call' \in [Threads -> CallType]
        /\ \A j \in Threads : call'[j].todo \subseteq DOMAIN entry'
    BY <1>1, <1>3, CallMoves
  <2>2. \A e \in DOMAIN entry' : /\ LogOf(e) \in Logs /\ e[3] \in Nat \ {0}
                                 /\ entry'[e].appends \in Nat /\ entry'[e].open \in BOOLEAN
    BY <1>1, EntryType DEF Types
  <2>3. TypeOK'
    BY <1>1, <2>1, <2>2 DEF Types, TypeOK
  <2>4. homes' \subseteq Topics \X Keys \X Parts
    BY <1>1 DEF Types
  <2>5. acked' \subseteq Acks
    BY <1>1, <1>5 DEF Types, Acknowledged
  <2>6. IsFiniteSet(acked')
    <3>1. IsFiniteSet(acked)
      BY <1>1 DEF Types
    <3>2. \A a : IsFiniteSet(acked \cup {a})
      BY <3>1, FS_AddElement
    <3> QED
      BY <3>1, <3>2
  <2> QED
    BY <1>1, <2>1, <2>3, <2>4, <2>5, <2>6 DEF Types
<1>7. Calls'
  BY <1>1, <1>2, CallsStep
<1>8. Registry'
  BY <1>1, <1>2, <1>4, RegistryKept DEF Serving
<1>9. Records'
  <2>1. \A h \in homes' : meta'[h[1]] > 0 /\ h[3] = Hash[h[2]] % meta'[h[1]]
    BY <1>1 DEF Records
  <2>2. ASSUME NEW a \in acked'
        PROVE  /\ a[2] < meta'[a[1]] /\ <<a[1], a[2]>> \in Owned
               /\ a[3] < written'[<<a[1], a[2]>>]
               /\ Serving' => a[1] \in boot' \/ cache'[a[1]] # NotOpen
               /\ status' \in {"closing", "closed"} =>
                    \/ a[3] < synced'[<<a[1], a[2]>>]
                    \/ \E e \in closing'.left \cup closing'.failed : LogOf(e) = <<a[1], a[2]>>
    <3>1. a \in Acks
      BY <1>6 DEF Types
    <3>2. /\ a[3] \in Nat /\ <<a[1], a[2]>> \in Logs
      BY <3>1 DEF Acks, Logs
    <3>3. PICK l \in Logs : l = <<a[1], a[2]>>
      BY <3>2
    <3>4. /\ written[l] \in Nat /\ written'[l] \in Nat /\ synced[l] \in Nat /\ synced'[l] \in Nat
          /\ written[l] <= written'[l] /\ synced[l] <= synced'[l]
      BY <1>1, Numbers
    <3>5. CASE a \in acked
      <4>1. /\ a[2] < meta[a[1]] /\ l \in Owned /\ a[3] < written[l]
            /\ Serving => a[1] \in boot \/ cache[a[1]] # NotOpen
            /\ status \in {"closing", "closed"} =>
                    \/ a[3] < synced[l]
                    \/ \E e \in closing.left \cup closing.failed : LogOf(e) = l
        BY <1>1, <3>3, <3>5 DEF Records
      <4> QED
        BY <3>2, <3>3, <3>4, <4>1 DEF Serving
    <3>6. CASE Acknowledged(a)
      <4>1. /\ a[2] < meta[a[1]] /\ l \in Owned /\ a[3] < written[l]
            /\ cache[a[1]] # NotOpen /\ status \notin {"closing", "closed"}
        BY <3>3, <3>6 DEF Acknowledged, Serving
      <4> QED
        BY <3>2, <3>3, <3>4, <4>1
    <3> QED
      BY <1>5, <3>5, <3>6
  <2>3. (status' = "up" => boot' = {}) /\ (status' # "closing" => closing'.left = {})
    BY <1>1 DEF Records
  <2> QED
    BY <2>1, <2>2, <2>3 DEF Records
<1> QED
  BY <1>6, <1>7, <1>8, <1>9 DEF Held

\* A record is written, by its key to the one partition of its key.
LEMMA HeldAppend ==
    ASSUME Held, NEW i \in Threads, Append(i) \/ AppendRolls(i)
    PROVE  Held'
<1>1. PICK d : d = call[i]
  OBVIOUS
<1>2. d.pc = "route" /\ call[i].pc # "idle"
  BY <1>1 DEF Append, AppendRolls
<1>3. PICK p \in PartitionFor(d.key, d.seen.n) :
        /\ <<d.topic, p>> \in Owned \/ <<d.topic, p, d.seen.opening>> \in DOMAIN entry
        /\ written' = [written EXCEPT ![<<d.topic, p>>] = @ + 1]
        /\ call' = [call EXCEPT ![i].pc = "count",
                                ![i].todo = {<<d.topic, p, d.seen.opening>>},
                                ![i].off = written[<<d.topic, p>>]]
        /\ homes' = IF d.key = NoKey THEN homes
                    ELSE homes \cup {<<d.topic, d.key, p>>}
  BY <1>1 DEF Append, AppendRolls, Land
<1>4. /\ UNCHANGED <<meta, synced, cache, lock, boot, status, closing, acked, restarts>>
      /\ entry' = entry \/ \E e \in DOMAIN entry : entry' = [entry EXCEPT ![e].open = TRUE]
  BY DEF Append, AppendRolls, store, used
<1>5. /\ d \in CallType /\ CallOK(i, d) /\ d.topic \in Topics /\ d.key \in Keys \cup {NoKey}
      /\ d.op = "append" /\ Opened(d.topic, d.seen)
  <2>1. d \in CallType /\ CallOK(i, d)
    BY <1>1 DEF Held, Types, Calls
  <2> QED
    BY <1>2, <2>1 DEF CallOK, CallType
<1>6. d.seen.n \in Sizes /\ d.seen.n > 0 /\ d.seen.n = meta[d.topic]
  <2>1. d.seen.n \in Sizes \cup {0} /\ d.seen.n > 0 /\ d.seen.n = meta[d.topic]
    BY <1>5 DEF Opened, CallType, SeenType
  <2> QED
    BY <2>1
<1>7. p \in 0 .. d.seen.n - 1 /\ p \in Parts
  BY <1>5, <1>6, PartitionRange
<1>8. PICK l \in Logs : l = <<d.topic, p>>
  BY <1>5, <1>7 DEF Logs
<1>9. PICK e : e = <<d.topic, p, d.seen.opening>>
  OBVIOUS
<1>10. e \in DOMAIN entry /\ e \in Entries /\ LogOf(e) = l
  <2>1. e \in DOMAIN entry
    BY <1>3, <1>5, <1>7, <1>9 DEF Opened
  <2> QED
    BY <1>8, <1>9, <2>1 DEF Held, Types, LogOf
<1>11. /\ written[l] \in Nat /\ written' = [written EXCEPT ![l] = written[l] + 1]
       /\ written \in [Logs -> Nat] /\ synced \in [Logs -> Nat]
       /\ \A m \in Logs : written[m] \in Nat /\ synced[m] \in Nat /\ synced[m] <= written[m]
  BY <1>3, <1>8, Numbers DEF Held, Types, TypeOK
<1>12. PICK c : c = [d EXCEPT !.pc = "count", !.todo = {e}, !.off = written[l]]
  OBVIOUS
<1>13. call' = [call EXCEPT ![i] = c]
  BY <1>1, <1>3, <1>8, <1>9, <1>12 DEF Held, Types
<1>14. c \in CallType /\ c.pc = "count" /\ c.op = "append" /\ c.todo = {e} /\ c.off = written[l]
  BY <1>5, <1>10, <1>11, <1>12 DEF CallType
<1>15. /\ written' \in [Logs -> Nat] /\ written'[l] = written[l] + 1
       /\ \A m \in Logs \ {l} : written'[m] = written[m]
  BY <1>11
<1>16. \A m \in Logs : /\ written[m] <= written'[m]
                       /\ synced[m] <= synced'[m] /\ synced'[m] <= written'[m]
  BY <1>4, <1>11, <1>15
<1>17. entry' \in [DOMAIN entry -> [appends : Nat, open : BOOLEAN]] /\ DOMAIN entry' = DOMAIN entry
  BY <1>4 DEF Held, Types
<1>18. synced' \in [Logs -> Nat]
  BY <1>4, <1>11
<1>19. CallOK(i, c)'
  <2>1. c.off < written'[LogOf(e)]
    BY <1>10, <1>11, <1>14, <1>15
  <2> QED
    BY <1>10, <1>14, <1>17, <2>1 DEF CallOK
<1>20. \/ homes' = homes
       \/ \E h \in Topics \X Keys \X Parts : /\ homes' = homes \cup {h}
                                             /\ meta[h[1]] > 0
                                             /\ h[3] = Hash[h[2]] % meta[h[1]]
  <2>1. CASE d.key = NoKey
    BY <1>3, <2>1
  <2>2. CASE d.key # NoKey
    <3>1. PICK h : h = <<d.topic, d.key, p>>
      OBVIOUS
    <3>2. p = Hash[d.key] % d.seen.n
      BY <2>2 DEF PartitionFor
    <3>3. h \in Topics \X Keys \X Parts /\ h[1] = d.topic /\ h[2] = d.key /\ h[3] = p
      BY <1>5, <1>7, <2>2, <3>1
    <3>4. meta[h[1]] > 0 /\ h[3] = Hash[h[2]] % meta[h[1]]
      BY <1>6, <3>2, <3>3
    <3> QED
      BY <1>3, <2>2, <3>1, <3>3, <3>4
  <2> QED
    BY <2>1, <2>2
<1> QED
  BY <1>2, <1>4, <1>13, <1>14, <1>15, <1>16, <1>17, <1>18, <1>19, <1>20, WorkStep

\* The locals of a thread that counts, fsyncs or resets.
LEMMA WorkLocals ==
    ASSUME Held, NEW i \in Threads, NEW d, d = call[i], d.pc \in {"count", "sync", "mark"}
    PROVE  /\ d \in CallType /\ CallOK(i, d) /\ d.todo \subseteq DOMAIN entry
           /\ First(d.todo) \in d.todo /\ First(d.todo) \in DOMAIN entry
           /\ d.op = "append" => /\ d.todo = {First(d.todo)}
                                 /\ d.off < written[LogOf(First(d.todo))]
           /\ entry[First(d.todo)] \in [appends : Nat, open : BOOLEAN]
           /\ LogOf(First(d.todo)) \in Logs
<1>1. d \in CallType /\ CallOK(i, d) /\ d.todo \subseteq DOMAIN entry /\ d.todo # {}
  BY DEF Held, Types, Calls, CallOK
<1>2. First(d.todo) \in d.todo
  BY <1>1, FirstIn
<1>3. ASSUME d.op = "append" PROVE d.todo = {First(d.todo)} /\ d.off < written[LogOf(First(d.todo))]
  <2>1. PICK e \in DOMAIN entry : d.todo = {e} /\ d.off < written[LogOf(e)]
    BY <1>1, <1>3 DEF CallOK
  <2> QED
    BY <1>2, <2>1
<1>4. \A e \in DOMAIN entry : /\ entry[e] \in [appends : Nat, open : BOOLEAN] /\ LogOf(e) \in Logs
  BY EntryType DEF Held, Types
<1> QED
  BY <1>1, <1>2, <1>3, <1>4

\* The disk when no file is touched.
LEMMA DiskSame ==
    ASSUME Types, UNCHANGED <<written, synced>>
    PROVE  /\ written' \in [Logs -> Nat] /\ synced' \in [Logs -> Nat]
           /\ \A l \in Logs : /\ written[l] <= written'[l]
                              /\ synced[l] <= synced'[l] /\ synced'[l] <= written'[l]
BY Numbers DEF Types, TypeOK

\* The append is counted, and returns or has an fsync to do.
LEMMA HeldCount ==
    ASSUME Held, NEW i \in Threads, Count(i)
    PROVE  Held'
<1>1. PICK d : d = call[i]
  OBVIOUS
<1>2. PICK e : e = First(d.todo)
  OBVIOUS
<1>3. /\ d.pc = "count" /\ entry' = [entry EXCEPT ![e].appends = @ + 1]
      /\ UNCHANGED <<meta, written, synced, cache, lock, status, closing, homes, restarts>>
      /\ \/ call' = [call EXCEPT ![i].pc = "sync"] /\ UNCHANGED <<boot, acked>>
         \/ Ack(i, LogOf(e)) /\ Return(i)
  BY <1>1, <1>2 DEF Count, disk, used
<1>4. /\ d \in CallType /\ CallOK(i, d) /\ e \in d.todo /\ e \in DOMAIN entry
      /\ d.todo \subseteq DOMAIN entry /\ entry[e] \in [appends : Nat, open : BOOLEAN]
      /\ d.op = "append" /\ d.todo = {e} /\ d.off < written[LogOf(e)]
  <2>1. d.op = "append"
    BY <1>1, <1>3 DEF Held, Calls, CallOK
  <2> QED
    BY <1>1, <1>2, <1>3, <2>1, WorkLocals
<1>5. /\ DOMAIN entry' = DOMAIN entry
      /\ entry' \in [DOMAIN entry -> [appends : Nat, open : BOOLEAN]]
  BY <1>3, <1>4 DEF Held, Types
<1>6. CASE call' = [call EXCEPT ![i].pc = "sync"] /\ UNCHANGED <<boot, acked>>
  <2>1. PICK c : c = [d EXCEPT !.pc = "sync"]
    OBVIOUS
  <2>2. /\ call' = [call EXCEPT ![i] = c] /\ c \in CallType /\ c.pc = "sync" /\ c.todo = {e}
        /\ c.op = "append" /\ c.off = d.off
    BY <1>1, <1>4, <1>6, <2>1 DEF CallType, Held, Types
  <2>3. CallOK(i, c)'
    BY <1>3, <1>4, <1>5, <2>2 DEF CallOK
  <2> QED
    BY <1>1, <1>3, <1>5, <1>6, <2>2, <2>3, DiskSame, WorkStep DEF Held
<1>7. CASE Ack(i, LogOf(e)) /\ Return(i)
  <2>1. call' = [call EXCEPT ![i] = Idle] /\ boot' = boot
    BY <1>1, <1>4, <1>7 DEF Return
  <2>2. acked' = acked \/ \E a : Acknowledged(a) /\ acked' = acked \cup {a}
    BY <1>1, <1>4, <1>7, AckOK
  <2> QED
    BY <1>1, <1>3, <1>5, <2>1, <2>2, IdleOK, DiskSame, WorkStep DEF Held
<1> QED
  BY <1>3, <1>6, <1>7

\* An fsync.
LEMMA HeldSync ==
    ASSUME Held, NEW i \in Threads, Sync(i)
    PROVE  Held'
<1>1. PICK d : d = call[i]
  OBVIOUS
<1>2. PICK e : e = First(d.todo)
  OBVIOUS
<1>3. PICK c : c = [d EXCEPT !.pc = "mark"]
  OBVIOUS
<1>4. /\ d.pc = "sync" /\ synced' = [synced EXCEPT ![LogOf(e)] = written[LogOf(e)]]
      /\ UNCHANGED <<meta, written, cache, entry, lock, boot, status, closing, acked, homes, restarts>>
  BY <1>1, <1>2 DEF Sync, store, past, used
<1>5. /\ d \in CallType /\ CallOK(i, d) /\ LogOf(e) \in Logs
  BY <1>1, <1>2, <1>4, WorkLocals
<1>6. /\ call' = [call EXCEPT ![i] = c] /\ c \in CallType /\ c.pc = "mark" /\ c.todo = d.todo
      /\ c.op = d.op /\ c.off = d.off
  BY <1>1, <1>2, <1>3, <1>5 DEF Sync, CallType, Held, Types
<1>7. CallOK(i, c)'
  BY <1>4, <1>5, <1>6 DEF CallOK
<1>8. /\ written' \in [Logs -> Nat] /\ synced' \in [Logs -> Nat]
      /\ \A l \in Logs : /\ written[l] <= written'[l]
                         /\ synced[l] <= synced'[l] /\ synced'[l] <= written'[l]
  <2>1. /\ written \in [Logs -> Nat] /\ synced \in [Logs -> Nat]
        /\ \A l \in Logs : written[l] \in Nat /\ synced[l] \in Nat /\ synced[l] <= written[l]
    BY Numbers DEF Held, Types, TypeOK
  <2>2. synced' \in [Logs -> Nat] /\ \A l \in Logs : synced'[l] \in {synced[l], written[l]}
    BY <1>4, <1>5, <2>1
  <2>3. \A l \in Logs : synced[l] <= synced'[l] /\ synced'[l] <= written[l]
    BY <2>1, <2>2
  <2> QED
    BY <1>4, <2>1, <2>2, <2>3
<1>9. entry' \in [DOMAIN entry -> [appends : Nat, open : BOOLEAN]]
  BY <1>4 DEF Held, Types
<1> QED
  BY <1>1, <1>4, <1>6, <1>7, <1>8, <1>9, WorkStep

\* The counter is reset: on to the next entry, or the call returns.
LEMMA HeldMark ==
    ASSUME Held, NEW i \in Threads, Mark(i)
    PROVE  Held'
<1>1. PICK d : d = call[i]
  OBVIOUS
<1>2. PICK e : e = First(d.todo)
  OBVIOUS
<1>3. PICK rest : rest = d.todo \ {e}
  OBVIOUS
<1>4. /\ d.pc = "mark" /\ entry' = [entry EXCEPT ![e].appends = 0]
      /\ UNCHANGED <<meta, written, synced, cache, lock, status, closing, homes, restarts>>
      /\ IF rest # {}
         THEN call' = [call EXCEPT ![i].pc = "sync", ![i].todo = rest] /\ UNCHANGED <<boot, acked>>
         ELSE /\ Return(i)
              /\ IF d.op = "append" THEN Ack(i, LogOf(e)) ELSE UNCHANGED acked
  BY <1>1, <1>2, <1>3 DEF Mark, Reset, disk, used
<1>5. /\ d \in CallType /\ CallOK(i, d) /\ e \in d.todo /\ e \in DOMAIN entry
      /\ d.todo \subseteq DOMAIN entry /\ entry[e] \in [appends : Nat, open : BOOLEAN]
      /\ d.op = "append" => d.todo = {e} /\ d.off < written[LogOf(e)]
  BY <1>1, <1>2, <1>4, WorkLocals
<1>6. /\ DOMAIN entry' = DOMAIN entry
      /\ entry' \in [DOMAIN entry -> [appends : Nat, open : BOOLEAN]]
  BY <1>4, <1>5 DEF Held, Types
<1>7. d.op \in {"append", "sync"}
  BY <1>4, <1>5 DEF CallOK
<1>8. CASE rest # {}
  <2>1. PICK c : c = [d EXCEPT !.pc = "sync", !.todo = rest]
    OBVIOUS
  <2>2. d.op = "sync"
    BY <1>3, <1>5, <1>7, <1>8
  <2>3. rest \subseteq d.todo /\ d.todo \in SUBSET Entries
    BY <1>3, <1>5 DEF CallType
  <2>4. /\ call' = [call EXCEPT ![i] = c] /\ c \in CallType /\ c.pc = "sync" /\ c.todo = rest
        /\ c.op = "sync"
    BY <1>1, <1>4, <1>5, <1>8, <2>1, <2>2, <2>3 DEF CallType, Held, Types
  <2>5. CallOK(i, c)'
    BY <1>5, <1>6, <1>8, <2>3, <2>4 DEF CallOK
  <2> QED
    BY <1>1, <1>4, <1>6, <1>8, <2>4, <2>5, DiskSame, WorkStep DEF Held
<1>9. CASE rest = {}
  <2>1. call' = [call EXCEPT ![i] = Idle] /\ boot' = boot
    BY <1>1, <1>4, <1>7, <1>9 DEF Return
  <2>2. acked' = acked \/ \E a : Acknowledged(a) /\ acked' = acked \cup {a}
    BY <1>1, <1>4, <1>5, <1>9, AckOK
  <2> QED
    BY <1>1, <1>4, <1>6, <2>1, <2>2, IdleOK, DiskSame, WorkStep DEF Held
<1> QED
  BY <1>8, <1>9

\* No thread takes a step.
LEMMA CallsSame ==
    ASSUME Types, Calls, Stays, Grows, call' = call,
           \A j \in Threads : lock = j => UNCHANGED <<lock, cache, meta>>
    PROVE  Calls'
<1>1. ASSUME NEW j \in Threads PROVE CallOK(j, call[j])'
  <2>1. PICK d : d = call[j]
    OBVIOUS
  <2>2. d \in CallType /\ CallOK(j, d) /\ call'[j] = d
    BY <2>1 DEF Types, Calls
  <2>3. CallOK(j, d)'
    BY <2>2, OthersOK
  <2> QED
    BY <2>2, <2>3
<1> QED
  BY <1>1 DEF Calls

\* The last topic is recovered, and the broker is up.
LEMMA HeldBooted == ASSUME Held, Booted PROVE Held'
<1>1. /\ status = "booting" /\ status' = "up" /\ boot = {}
      /\ UNCHANGED <<meta, written, synced, cache, entry, lock, call, boot, closing, acked, homes,
                     restarts>>
  BY DEF Booted, disk, store, past, used
<1>2. Types /\ Calls /\ Registry /\ Records
  BY DEF Held
<1>3. Types'
  BY <1>1, <1>2 DEF Types, TypeOK
<1>4. Stays /\ Grows
  BY <1>1, <1>2, Numbers DEF Stays, Grows
<1>5. Calls'
  BY <1>1, <1>2, <1>4, CallsSame
<1>6. Registry'
  BY <1>1, <1>2, <1>4, RegistryKept DEF Serving
<1>7. Records'
  BY <1>1, <1>2 DEF Records, Serving
<1> QED
  BY <1>3, <1>5, <1>6, <1>7 DEF Held

\* An acknowledged record of a broker that is up is in a log that is open.
LEMMA AckedCached ==
    ASSUME Held, status = "up", NEW a \in acked
    PROVE  \E e \in Cached : LogOf(e) = <<a[1], a[2]>>
<1>1. a[1] \in Topics /\ a[2] \in Nat
  BY PartsNat DEF Held, Types, Acks
<1>2. /\ a[2] < meta[a[1]] /\ <<a[1], a[2]>> \in Owned /\ cache[a[1]] # NotOpen
  BY DEF Held, Records, Serving
<1>3. Opened(a[1], cache[a[1]]) /\ meta[a[1]] \in Int
  BY <1>1, <1>2, Numbers DEF Held, Registry
<1>4. a[2] \in 0 .. cache[a[1]].n - 1
  BY <1>1, <1>2, <1>3 DEF Opened
<1>5. PICK e : e = <<a[1], a[2], cache[a[1]].opening>>
  OBVIOUS
<1>6. e \in DOMAIN entry
  BY <1>2, <1>3, <1>4, <1>5 DEF Opened
<1> QED
  BY <1>5, <1>6 DEF Cached, LogOf

\* The shutdown begins, with a list of the logs that are open.
LEMMA HeldCloseBegins == ASSUME Held, CloseBegins PROVE Held'
<1>1. /\ status = "up" /\ status' = "closing" /\ closing' = [left |-> Cached, failed |-> {}]
      /\ UNCHANGED <<meta, written, synced, cache, entry, lock, call, boot, acked, homes, restarts>>
  BY DEF CloseBegins, disk, store, past, used
<1>2. Types /\ Calls /\ Registry /\ Records
  BY DEF Held
<1>3. Types'
  <2>1. Cached \subseteq DOMAIN entry /\ DOMAIN entry \subseteq Entries
    BY <1>2 DEF Cached, Types
  <2>2. TypeOK'
    BY <1>1, <1>2, <2>1 DEF Types, TypeOK
  <2>3. closing' \in [left : SUBSET Entries, failed : SUBSET Entries]
    BY <1>1, <2>1
  <2> QED
    BY <1>1, <1>2, <2>2, <2>3 DEF Types
<1>4. Stays /\ Grows
  BY <1>1, <1>2, Numbers DEF Stays, Grows
<1>5. Calls'
  BY <1>1, <1>2, <1>4, CallsSame
<1>6. Registry'
  BY <1>1, <1>2, <1>4, RegistryKept DEF Serving
<1>7. Records'
  <2>1. \A a \in acked : \E e \in closing'.left : LogOf(e) = <<a[1], a[2]>>
    BY <1>1, AckedCached
  <2> QED
    BY <1>1, <1>2, <2>1 DEF Records, Serving
<1> QED
  BY <1>3, <1>5, <1>6, <1>7 DEF Held

\* One log is closed, and its records are fsynced; or it cannot be.
LEMMA HeldCloseLog == ASSUME Held, CloseLog \/ CloseRaises PROVE Held'
<1>1. PICK e : e = First(closing.left)
  OBVIOUS
<1>2. Types /\ Calls /\ Registry /\ Records
  BY DEF Held
<1>3. /\ closing.left # {} /\ status = "closing" /\ e \in closing.left /\ e \in DOMAIN entry
      /\ LogOf(e) \in Logs /\ e \in Entries
  <2>1. closing.left # {}
    BY DEF CloseLog, CloseRaises
  <2>2. e \in closing.left
    BY <1>1, <2>1, FirstIn
  <2> QED
    BY <1>2, <2>1, <2>2 DEF Types, TypeOK, Records
<1>4. UNCHANGED <<meta, written, cache, lock, call, boot, status, acked, homes, restarts>>
  BY DEF CloseLog, CloseRaises, disk, store, past, used
<1>5. /\ closing' \in [left : SUBSET Entries, failed : SUBSET Entries]
      /\ closing'.left = closing.left \ {e}
      /\ closing'.failed \in {closing.failed, closing.failed \cup {e}}
  <2>1. closing \in [left : SUBSET Entries, failed : SUBSET Entries]
    BY <1>2 DEF Types
  <2>2. CASE CloseLog
    BY <1>1, <2>1, <2>2 DEF CloseLog
  <2>3. CASE CloseRaises
    BY <1>1, <1>3, <2>1, <2>3 DEF CloseRaises
  <2> QED
    BY <2>2, <2>3
<1>6. /\ DOMAIN entry' = DOMAIN entry
      /\ entry' \in [DOMAIN entry -> [appends : Nat, open : BOOLEAN]]
  <2>1. entry \in [DOMAIN entry -> [appends : Nat, open : BOOLEAN]]
    BY <1>2 DEF Types
  <2>2. CASE CloseLog
    BY <1>1, <1>3, <2>1, <2>2 DEF CloseLog
  <2>3. CASE CloseRaises
    BY <2>1, <2>3 DEF CloseRaises, store
  <2> QED
    BY <2>2, <2>3
<1>7. /\ synced' \in [Logs -> Nat]
      /\ \A l \in Logs : /\ written[l] \in Nat /\ synced[l] \in Nat /\ synced'[l] \in Nat
                         /\ synced[l] <= synced'[l] /\ synced'[l] <= written[l]
      /\ e \notin closing'.failed => synced'[LogOf(e)] = written[LogOf(e)]
  <2>1. /\ written \in [Logs -> Nat] /\ synced \in [Logs -> Nat]
        /\ \A l \in Logs : written[l] \in Nat /\ synced[l] \in Nat /\ synced[l] <= written[l]
    BY <1>2, Numbers DEF Types, TypeOK
  <2>2. CASE CloseLog
    <3>1. synced' = [synced EXCEPT ![LogOf(e)] = written[LogOf(e)]]
      BY <1>1, <2>2 DEF CloseLog
    <3>2. /\ synced' \in [Logs -> Nat] /\ synced'[LogOf(e)] = written[LogOf(e)]
          /\ \A l \in Logs : synced'[l] \in {synced[l], written[l]}
      BY <1>3, <2>1, <3>1
    <3> QED
      BY <2>1, <3>2
  <2>3. CASE CloseRaises
    <3>1. synced' = synced /\ e \in closing'.failed
      BY <1>1, <2>3 DEF CloseRaises, disk
    <3> QED
      BY <2>1, <3>1
  <2> QED
    BY <2>2, <2>3
<1>8. Types'
  <2>1. \A f \in DOMAIN entry' : /\ LogOf(f) \in Logs /\ f[3] \in Nat \ {0}
                                 /\ entry'[f].appends \in Nat /\ entry'[f].open \in BOOLEAN
    BY <1>2, <1>6, EntryType DEF Types
  <2>2. closing'.left \subseteq DOMAIN entry' /\ closing'.failed \subseteq DOMAIN entry'
    BY <1>2, <1>3, <1>5, <1>6 DEF Types, TypeOK
  <2>3. TypeOK'
    BY <1>2, <1>4, <1>6, <1>7, <2>1, <2>2 DEF Types, TypeOK
  <2> QED
    BY <1>2, <1>4, <1>5, <1>6, <2>3 DEF Types
<1>9. Stays /\ Grows
  BY <1>4, <1>6, <1>7 DEF Stays, Grows
<1>10. Calls'
  BY <1>2, <1>4, <1>9, CallsSame
<1>11. Registry'
  BY <1>2, <1>3, <1>4, <1>6, <1>9, RegistryKept DEF Serving
<1>12. Records'
  <2>1. ASSUME NEW a \in acked
        PROVE  \/ a[3] < synced'[<<a[1], a[2]>>]
               \/ \E f \in closing'.left \cup closing'.failed : LogOf(f) = <<a[1], a[2]>>
    <3>1. PICK l \in Logs : l = <<a[1], a[2]>>
      BY <1>2 DEF Types, Acks, Logs
    <3>2. a[3] \in Nat /\ a[3] < written[l]
      BY <1>2, <3>1 DEF Types, Acks, Records
    <3>3. a[3] < synced[l] \/ \E f \in closing.left \cup closing.failed : LogOf(f) = l
      BY <1>2, <1>3, <3>1 DEF Records
    <3>4. CASE a[3] < synced[l]
      BY <1>7, <3>1, <3>2, <3>4
    <3>5. CASE \E f \in closing.left \cup closing.failed : f # e /\ LogOf(f) = l
      BY <1>5, <3>1, <3>5
    <3>6. CASE LogOf(e) = l
      <4>1. CASE e \in closing'.failed
        BY <3>1, <3>6, <4>1
      <4>2. CASE e \notin closing'.failed
        BY <1>7, <3>1, <3>2, <3>6, <4>2
      <4> QED
        BY <4>1, <4>2
    <3> QED
      BY <3>3, <3>4, <3>5, <3>6
  <2> QED
    BY <1>2, <1>3, <1>4, <2>1 DEF Records, Serving
<1> QED
  BY <1>8, <1>10, <1>11, <1>12 DEF Held

\* The registry forgets its topics; threads that hold an entry go on holding it.
LEMMA HeldCloseEnds == ASSUME Held, CloseEnds PROVE Held'
<1>1. /\ status = "closing" /\ status' = "closed" /\ closing.left = {} /\ lock = Nobody
      /\ cache' = [t \in Topics |-> NotOpen]
      /\ UNCHANGED <<meta, written, synced, entry, lock, call, boot, closing, acked, homes, restarts>>
  BY DEF CloseEnds, Free, disk, past, used
<1>2. Types /\ Calls /\ Registry /\ Records
  BY DEF Held
<1>3. Types'
  <2>1. cache' \in [Topics -> SeenType]
    BY <1>1 DEF SeenType, NotOpen
  <2>2. TypeOK'
    BY <1>1, <1>2 DEF Types, TypeOK
  <2> QED
    BY <1>1, <1>2, <2>1, <2>2 DEF Types
<1>4. Stays /\ Grows
  BY <1>1, <1>2, Numbers DEF Stays, Grows
<1>5. Calls'
  <2>1. \A j \in Threads : lock # j
    BY <1>1, TopicsAssumption DEF Nobody
  <2> QED
    BY <1>1, <1>2, <1>4, <2>1, CallsSame
<1>6. Registry'
  <2>1. \A t \in Topics : cache'[t] = NotOpen
    BY <1>1
  <2> QED
    BY <1>1, <1>2, <2>1 DEF Registry, Serving
<1>7. Records'
  BY <1>1, <1>2 DEF Records, Serving
<1> QED
  BY <1>3, <1>5, <1>6, <1>7 DEF Held

\* The broker starts again, with the topics that are on its disk to recover.
LEMMA HeldRestart == ASSUME Held, Restart PROVE Held'
<1>1. /\ status \in {"down", "failed"} /\ status' = "booting" /\ restarts' = restarts + 1
      /\ boot' = {t \in Topics : meta[t] # Absent}
      /\ UNCHANGED <<meta, written, synced, cache, entry, lock, call, closing, acked, homes>>
  BY DEF Restart, disk, store, past
<1>2. Types /\ Calls /\ Registry /\ Records
  BY DEF Held
<1>3. Types'
  <2>1. TypeOK'
    BY <1>1, <1>2 DEF Types, TypeOK
  <2> QED
    BY <1>1, <1>2, <2>1 DEF Types
<1>4. Stays /\ Grows
  BY <1>1, <1>2, Numbers DEF Stays, Grows
<1>5. Calls'
  BY <1>1, <1>2, <1>4, CallsSame
<1>6. Registry'
  <2>1. DOMAIN entry' = {} /\ status' \notin {"down", "failed"}
    BY <1>1, <1>2 DEF Registry
  <2>2. \A t \in Topics : cache'[t] # NotOpen => Opened(t, cache[t])'
    BY <1>1, <1>2 DEF Registry, Opened
  <2> QED
    BY <2>1, <2>2 DEF Registry
<1>7. Records'
  <2>1. ASSUME NEW a \in acked PROVE a[1] \in boot'
    <3>1. a[1] \in Topics /\ a[2] \in Nat /\ a[2] < meta[a[1]] /\ meta[a[1]] \in Int
      BY <1>2, PartsNat, Numbers DEF Types, Acks, Records
    <3>2. meta[a[1]] # Absent
      BY <3>1 DEF Absent
    <3> QED
      BY <1>1, <3>1, <3>2
  <2> QED
    BY <1>1, <1>2, <2>1 DEF Records
<1> QED
  BY <1>3, <1>5, <1>6, <1>7 DEF Held

-----------------------------------------------------------------------------
(* The invariant, and what it says of the properties.                      *)

\* The broker starts with no topic.
LEMMA HeldInit == ASSUME Init PROVE Held
<1>1. /\ DOMAIN entry = {} /\ entry = [e \in {} |-> 0] /\ status = "up" /\ boot = {} /\ lock = Nobody
      /\ meta = [t \in Topics |-> Absent]
      /\ written = [l \in Logs |-> 0] /\ synced = [l \in Logs |-> 0]
      /\ cache = [t \in Topics |-> NotOpen] /\ call = [i \in Threads |-> Idle]
      /\ closing = [left |-> {}, failed |-> {}] /\ acked = {} /\ homes = {} /\ restarts = 0
  BY DEF Init
<1>2. Types
  <2>1. Idle \in CallType /\ Idle.todo = {}
    BY IdleOK DEF Idle
  <2>2. TypeOK
    BY <1>1, <2>1 DEF TypeOK
  <2>3. IsFiniteSet(DOMAIN entry) /\ IsFiniteSet(acked)
    BY <1>1, FS_EmptySet
  <2>4. entry \in [DOMAIN entry -> [appends : Nat, open : BOOLEAN]]
    BY <1>1
  <2>5. cache \in [Topics -> SeenType] /\ call \in [Threads -> CallType]
    BY <1>1, <2>1 DEF SeenType, NotOpen
  <2> QED
    BY <1>1, <2>2, <2>3, <2>4, <2>5 DEF Types
<1>3. Calls
  <2>1. \A i \in Threads : call[i] = Idle
    BY <1>1
  <2> QED
    BY <2>1, IdleOK DEF Calls
<1>4. Registry
  <2>1. \A t \in Topics : cache[t] = NotOpen
    BY <1>1
  <2> QED
    BY <1>1, <2>1 DEF Registry
<1>5. Records
  BY <1>1 DEF Records
<1> QED
  BY <1>2, <1>3, <1>4, <1>5 DEF Held

\* Nothing happens.
LEMMA HeldStutter == ASSUME Held, UNCHANGED vars PROVE Held'
<1>1. UNCHANGED <<meta, written, synced, cache, entry, lock, call, boot, status, closing, acked,
                  homes, restarts>>
  BY DEF vars, disk, store, past, used
<1>2. Types'
  BY <1>1 DEF Held, Types, TypeOK
<1>3. Calls'
  BY <1>1 DEF Held, Calls, CallOK, Opened
<1>4. Registry'
  BY <1>1 DEF Held, Registry, Opened, Serving
<1>5. Records'
  BY <1>1 DEF Held, Records, Serving
<1> QED
  BY <1>2, <1>3, <1>4, <1>5 DEF Held

\* Every step keeps it.
LEMMA HeldNext == ASSUME Held, [Next]_vars PROVE Held'
<1>1. ASSUME NEW i \in Threads, ThreadStep(i) PROVE Held'
  <2>1. CASE CallAppend(i) \/ CallOther(i) \/ CallBoot(i)
    BY <2>1, HeldCalls
  <2>2. CASE EnterHit(i) \/ EnterMiss(i) \/ OpenKnown(i)
    BY <2>2, HeldLookup
  <2>3. CASE \/ OpenRaises(i) \/ LogsRaise(i) \/ NotLocal(i) \/ AppendClosed(i) \/ SyncRaises(i)
             \/ Snapshot(i)
    BY <2>3, HeldQuiet
  <2>4. CASE OpenNew(i) \/ WriteMeta(i)
    BY <2>4, HeldMeta
  <2>5. CASE OpenLogs(i)
    BY <2>5, HeldOpenLogs
  <2>6. CASE Append(i) \/ AppendRolls(i)
    BY <2>6, HeldAppend
  <2>7. CASE Count(i)
    BY <2>7, HeldCount
  <2>8. CASE Sync(i)
    BY <2>8, HeldSync
  <2>9. CASE Mark(i)
    BY <2>9, HeldMark
  <2> QED
    BY <1>1, <2>1, <2>2, <2>3, <2>4, <2>5, <2>6, <2>7, <2>8, <2>9 DEF ThreadStep
<1>2. ASSUME ProcessStep PROVE Held'
  <2>1. CASE Exit
    BY <2>1, HeldGone DEF Exit
  <2> QED
    BY <1>2, <2>1, HeldBooted, HeldCloseBegins, HeldCloseLog, HeldCloseEnds, HeldRestart
    DEF ProcessStep
<1> QED
  BY <1>1, <1>2, HeldStutter DEF Next

\* It holds throughout.
LEMMA HeldInvariant == Spec => []Held
<1> QED
  BY HeldInit, HeldNext, PTL DEF Spec

\* The disk, the registry of open topics and the locals of the threads have
\* their types (Topic.__init__, topic.py; SyncPolicy's counters).
THEOREM TopicTyped == Spec => []TypeOK
<1>1. Held => TypeOK
  BY DEF Held, Types
<1> QED
  BY <1>1, HeldInvariant, PTL

\* While the broker serves, a partition directory has one open Log at most,
\* however many threads ask for its topic at once: what the RLock of
\* Topic._open_locked is for.
THEOREM HandleUnique == Spec => []OneHandle
<1>1. ASSUME Held, Serving, NEW d \in DOMAIN entry, NEW e \in DOMAIN entry, LogOf(d) = LogOf(e)
      PROVE  d = e
  <2>1. d = <<d[1], d[2], d[3]>> /\ e = <<e[1], e[2], e[3]>> /\ d[1] = e[1] /\ d[2] = e[2]
    BY <1>1, EntryType DEF Held, Types
  <2>2. d[3] = e[3]
    BY <1>1, <2>1 DEF Held, Registry
  <2> QED
    BY <2>1, <2>2
<1>2. Held => OneHandle
  BY <1>1 DEF OneHandle
<1> QED
  BY <1>2, HeldInvariant, PTL

\* The records of a key are in one partition of their topic, over creates that
\* ask for other counts, races to create it and restarts: topic.json, once it
\* counts, is never counted anew, and Partitioner.partition_for hashes the key.
THEOREM HomeUnique == Spec => []OneHome
<1>1. Held => OneHome
  BY DEF Held, Records, OneHome
<1> QED
  BY <1>1, HeldInvariant, PTL

\* An acknowledged record is in a partition that topic.json counts, whenever
\* the process died: Topic.append has no way to a Log but through an opening,
\* and that follows the write of topic.json.
THEOREM AckedCounted == Spec => []AckedReachable
<1>1. Held => AckedReachable
  BY DEF Held, Records, AckedReachable
<1> QED
  BY <1>1, HeldInvariant, PTL

\* After a clean shutdown every acknowledged record is fsynced, but for the
\* logs whose own close failed: Topic.close tries every log there is.
THEOREM ShutdownDurable == Spec => []ClosedDurable
<1>1. ASSUME Held, status = "closed", NEW l \in Logs, NEW a \in Exposed(l)
      PROVE  l \in {LogOf(e) : e \in closing.failed}
  <2>1. a \in acked /\ <<a[1], a[2]>> = l /\ a[3] >= synced[l] /\ a[3] \in Nat /\ synced[l] \in Nat
    BY <1>1, Numbers DEF Exposed, Held, Types, Acks
  <2>2. closing.left = {}
    BY <1>1 DEF Held, Records
  <2>3. PICK e \in closing.left \cup closing.failed : LogOf(e) = l
    BY <1>1, <2>1 DEF Held, Records
  <2> QED
    BY <2>2, <2>3
<1>2. Held => ClosedDurable
  BY <1>1 DEF ClosedDurable
<1> QED
  BY <1>2, HeldInvariant, PTL

-----------------------------------------------------------------------------
(* The account of SyncPolicy.records.                                      *)

\* What k threads may leave unfsynced, with one more, and with fewer.
LEMMA Shares ==
    ASSUME SyncRecords > 0, NEW k \in Nat
    PROVE  /\ Share(k) \in Nat /\ Share(0) = 0
           /\ Share(k + 1) = Share(k) + (SyncRecords - 1)
           /\ k > 0 => Share(k) >= SyncRecords - 1
           /\ \A j \in Nat : j <= k => Share(j) <= Share(k)
           /\ \A j \in Nat : Share(j + k) = Share(j) + Share(k)
<1>1. PICK w \in Nat : w = SyncRecords - 1
  BY PolicyAssumption
<1>2. \A m \in Nat : Share(m) = m * w
  BY <1>1 DEF Share
<1>3. \A m \in Nat : m * w \in Nat
  BY <1>1
<1>4. (k + 1) * w = k * w + w
  BY <1>1
<1>5. \A j, m \in Nat : (j + m) * w = j * w + m * w
  BY <1>1
<1>6. ASSUME NEW j \in Nat, j <= k PROVE j * w <= k * w
  <2>1. PICK m \in Nat : m = k - j
    BY <1>6
  <2>2. k * w = j * w + m * w
    BY <1>5, <1>6, <2>1
  <2> QED
    BY <1>3, <1>6, <2>2
<1>7. k > 0 => 1 * w <= k * w
  <2>1. ASSUME k > 0 PROVE 1 * w <= k * w
    <3>1. PICK m \in Nat : m = k - 1
      BY <2>1
    <3>2. k * w = 1 * w + m * w
      BY <1>5, <2>1, <3>1
    <3>3. 1 * w \in Nat /\ m * w \in Nat /\ k * w \in Nat
      BY <1>3
    <3> QED
      BY <3>2, <3>3
  <2> QED
    BY <2>1
<1>8. Share(k) = k * w /\ Share(0) = 0 * w /\ Share(k + 1) = (k + 1) * w
  BY <1>2
<1>9. 0 * w = 0 /\ 1 * w = w
  BY <1>1
<1>10. \A j \in Nat : Share(j) = j * w /\ Share(j + k) = (j + k) * w
  BY <1>2
<1>11. \A j \in Nat : (j + k) * w = j * w + k * w
  BY <1>5
<1> QED
  BY <1>1, <1>3, <1>4, <1>6, <1>7, <1>8, <1>9, <1>10, <1>11, ZenonT(40)

\* The share of each life of the process.
LEMMA Pasts ==
    ASSUME SyncRecords > 0, NEW r \in Nat
    PROVE  /\ Cardinality(Threads) \in Nat
           /\ Past(r) \in Nat /\ Share(Cardinality(Threads)) \in Nat
           /\ Past(r + 1) = Past(r) + Share(Cardinality(Threads))
<1>1. PICK n \in Nat : n = Cardinality(Threads)
  BY FS_CardinalityType, TopicsAssumption
<1>2. PICK m \in Nat : m = r * n
  BY <1>1
<1>3. (r + 1) * n = m + n
  BY <1>1, <1>2
<1>4. Past(r) = Share(m) /\ Past(r + 1) = Share(m + n)
  BY <1>1, <1>2, <1>3 DEF Past
<1>5. Share(m) \in Nat /\ Share(n) \in Nat /\ Share(m + n) = Share(m) + Share(n)
  BY <1>1, <1>2, Shares
<1> QED
  BY <1>1, <1>4, <1>5

\* The others are some of the threads.
LEMMA OthersCount ==
    ASSUME NEW e
    PROVE  /\ IsFiniteSet(Others(e)) /\ Cardinality(Others(e)) \in Nat
           /\ Cardinality(Threads) \in Nat /\ Cardinality(Others(e)) <= Cardinality(Threads)
<1>1. Others(e) \subseteq Threads /\ IsFiniteSet(Threads)
  BY TopicsAssumption DEF Others
<1>2. IsFiniteSet(Others(e)) /\ Cardinality(Others(e)) <= Cardinality(Threads)
  BY <1>1, FS_Subset
<1> QED
  BY <1>1, <1>2, FS_CardinalityType

\* The records at risk can be counted.
LEMMA ExposedCount ==
    ASSUME Types, NEW l
    PROVE  IsFiniteSet(Exposed(l)) /\ Cardinality(Exposed(l)) \in Nat
<1>1. Exposed(l) \subseteq acked /\ IsFiniteSet(acked)
  BY DEF Exposed, Types
<1>2. IsFiniteSet(Exposed(l))
  BY <1>1, FS_Subset
<1> QED
  BY <1>2, FS_CardinalityType

\* No more are at risk when none is acknowledged and none forgotten by the disk.
LEMMA ExposedShrinks ==
    ASSUME Types, Types', NEW l \in Logs, synced[l] <= synced'[l],
           \A a \in acked' : a \in acked \/ a[3] < synced'[<<a[1], a[2]>>]
    PROVE  /\ Cardinality(Exposed(l)) \in Nat /\ Cardinality(Exposed(l)') \in Nat
           /\ Cardinality(Exposed(l)') <= Cardinality(Exposed(l))
<1>1. ASSUME NEW a \in acked', <<a[1], a[2]>> = l, a[3] >= synced'[l] PROVE a \in Exposed(l)
  <2>1. a[3] \in Nat /\ synced[l] \in Nat /\ synced'[l] \in Nat
    BY <1>1 DEF Types, TypeOK, Acks
  <2>2. a \in acked
    BY <1>1, <2>1
  <2> QED
    BY <1>1, <2>1, <2>2 DEF Exposed
<1>2. Exposed(l)' \subseteq Exposed(l)
  BY <1>1 DEF Exposed
<1>3. IsFiniteSet(Exposed(l)) /\ Cardinality(Exposed(l)) \in Nat
  BY ExposedCount
<1>4. IsFiniteSet(Exposed(l)') /\ Cardinality(Exposed(l)') <= Cardinality(Exposed(l))
  BY <1>2, <1>3, FS_Subset
<1>5. Cardinality(Exposed(l)') \in Nat
  BY <1>4, FS_CardinalityType
<1> QED
  BY <1>3, <1>4, <1>5

\* What there is room for fits in the life of the process.
LEMMA RoomBounded ==
    ASSUME SyncRecords > 0, NEW r \in Nat, NEW k \in Nat, k <= Cardinality(Threads), NEW n,
           NEW x \in Nat, Room(r, k, n, x)
    PROVE  x <= Past(r + 1)
<1>1. Share(k) \in Nat /\ Share(k) <= Share(Cardinality(Threads))
  BY Shares, Pasts
<1>2. x <= Past(r) + Share(k)
  BY DEF Room
<1> QED
  BY <1>1, <1>2, Pasts

\* A step in which no thread comes to or leaves a reset while the broker goes on
\* serving, none is acknowledged, and no counter goes back.
Calm ==
    /\ acked' = acked /\ restarts' = restarts
    /\ \A l \in Logs : synced[l] <= synced'[l]
    /\ \A j \in Threads : call'[j] = call[j] \/ call'[j].pc # "mark"
    /\ Serving' => /\ Serving /\ DOMAIN entry' = DOMAIN entry
                   /\ \A e \in DOMAIN entry : entry[e].appends <= entry'[e].appends
                   /\ \A j \in Threads : call'[j] = call[j] \/ call[j].pc # "mark"

\* Threads that have fsynced stay so, and so does what they have fsynced.
LEMMA SettledKept ==
    ASSUME Held, Held', Settled, \A l \in Logs : synced[l] <= synced'[l],
           \A j \in Threads : \/ call'[j] = call[j] \/ call'[j].pc # "mark"
                              \/ call'[j].off < synced'[LogOf(First(call'[j].todo))]
    PROVE  Settled'
<1>1. ASSUME NEW j \in Threads, call'[j].pc = "mark", call'[j].op = "append",
             call'[j] = call[j]
      PROVE  call'[j].off < synced'[LogOf(First(call'[j].todo))]
  <2>1. PICK d : d = call[j] /\ d = call'[j]
    BY <1>1
  <2>2. PICK e : e = First(d.todo)
    OBVIOUS
  <2>3. LogOf(e) \in Logs /\ d \in CallType
    BY <1>1, <2>1, <2>2, WorkLocals
  <2>4. d.off < synced[LogOf(e)] /\ d.off \in Nat
    BY <1>1, <2>1, <2>2, <2>3 DEF Settled, CallType
  <2>5. synced[LogOf(e)] \in Nat /\ synced'[LogOf(e)] \in Nat
    BY <2>3 DEF Held, Types, TypeOK
  <2>6. d.off < synced'[LogOf(e)]
    BY <2>3, <2>4, <2>5
  <2> QED
    BY <2>1, <2>2, <2>6
<1> QED
  BY <1>1 DEF Settled

\* The others are the same when no thread comes to or leaves a reset.
LEMMA OthersSame ==
    ASSUME NEW e, \A j \in Threads : \/ call'[j] = call[j]
                                     \/ /\ ~ (call[j].pc = "mark" /\ First(call[j].todo) = e)
                                        /\ ~ (call'[j].pc = "mark" /\ First(call'[j].todo) = e)
    PROVE  Others(e)' = Others(e)
BY DEF Others

\* An account that had room has it still.
LEMMA AccountKept ==
    ASSUME SyncRecords > 0, Types, Types', NEW e \in DOMAIN entry, e \in DOMAIN entry',
           Others(e)' = Others(e), restarts' = restarts,
           entry[e].appends <= entry'[e].appends,
           NEW x \in Nat, NEW y \in Nat, y <= x, Account(e, x)
    PROVE  Account(e, y)'
<1>1. PICK o \in Nat : o = Cardinality(Others(e))
  BY OthersCount
<1>2. Cardinality(Others(e)') = o
  BY <1>1
<1>3. Past(restarts)' = Past(restarts) /\ Past(restarts) \in Nat
  BY Pasts DEF Past, Share, Types
<1>4. Share(o) \in Nat
  BY Shares
<1>5. /\ x <= Past(restarts) + Share(o)
      /\ o > 0 => x <= Past(restarts) + Share(o) - (SyncRecords - 1) + entry[e].appends
  BY <1>1 DEF Account, Room
<1>6. entry[e].appends \in Nat /\ entry'[e].appends \in Nat /\ SyncRecords \in Nat
  BY PolicyAssumption DEF Types, TypeOK
<1>7. /\ y <= Past(restarts) + Share(o)
      /\ o > 0 => y <= Past(restarts) + Share(o) - (SyncRecords - 1) + entry'[e].appends
  BY <1>3, <1>4, <1>5, <1>6
<1>8. Room(restarts, o, entry'[e].appends, y)
  BY <1>7 DEF Room
<1> QED
  BY <1>2, <1>8 DEF Account

\* The account of a log that no step touches, or that a step only relieves.
LEMMA OwesKept ==
    ASSUME SyncRecords > 0, Held, Held', NEW l \in Logs, Owes(l), restarts' = restarts,
           Cardinality(Exposed(l)') <= Cardinality(Exposed(l)),
           Serving' => Serving,
           Serving' => \A e \in DOMAIN entry : LogOf(e) = l =>
               e \in DOMAIN entry' /\ Others(e)' = Others(e) /\ entry[e].appends <= entry'[e].appends,
           Serving' => \A e \in DOMAIN entry' : LogOf(e) = l => e \in DOMAIN entry
    PROVE  Owes(l)'
<1>1. Types /\ Types' /\ restarts \in Nat
  BY DEF Held, Types
<1>2. PICK x \in Nat : x = Cardinality(Exposed(l))
  BY <1>1, ExposedCount
<1>3. PICK y \in Nat : y = Cardinality(Exposed(l)') /\ y <= x
  <2>1. IsFiniteSet(acked') /\ Exposed(l)' \subseteq acked'
    BY <1>1 DEF Types, Exposed
  <2>2. Cardinality(Exposed(l)') \in Nat
    BY <2>1, FS_Subset, FS_CardinalityType
  <2> QED
    BY <1>2, <2>2
<1>4. /\ Past(restarts)' = Past(restarts) /\ Past(restarts) \in Nat
      /\ Past(restarts + 1)' = Past(restarts + 1) /\ Past(restarts + 1) \in Nat
  <2>1. restarts + 1 \in Nat
    BY <1>1
  <2>2. Past(restarts) \in Nat /\ Past(restarts + 1) \in Nat
    BY <1>1, <2>1, Pasts
  <2>3. Past(restarts)' = Past(restarts) /\ Past(restarts + 1)' = Past(restarts + 1)
    BY DEF Past, Share
  <2> QED
    BY <2>2, <2>3
<1>5. y <= Past(restarts + 1)'
  BY <1>2, <1>3, <1>4 DEF Owes
<1>6. ASSUME Serving', \A e \in DOMAIN entry' : LogOf(e) # l PROVE y <= Past(restarts)'
  BY <1>2, <1>3, <1>4, <1>6 DEF Owes
<1>7. ASSUME Serving', NEW e \in DOMAIN entry', LogOf(e) = l PROVE Account(e, y)'
  <2>1. e \in DOMAIN entry /\ Account(e, x) /\ entry[e].appends <= entry'[e].appends
    BY <1>2, <1>7 DEF Owes
  <2> QED
    BY <1>1, <1>2, <1>3, <1>7, <2>1, AccountKept
<1> QED
  BY <1>3, <1>5, <1>6, <1>7 DEF Owes

\* The account of a log, from that of its one entry.
LEMMA OwesEntry ==
    ASSUME SyncRecords > 0, Held, Held', NEW l \in Logs, restarts' = restarts, Serving',
           NEW e \in DOMAIN entry', LogOf(e) = l, NEW y \in Nat, y = Cardinality(Exposed(l)'),
           NEW k \in Nat, k = Cardinality(Others(e)'), Room(restarts, k, entry'[e].appends, y)
    PROVE  Owes(l)'
<1>1. ASSUME NEW f \in DOMAIN entry', LogOf(f) = l PROVE f = e
  <2>1. e \in Entries /\ f \in Entries /\ e[3] = cache'[e[1]].opening /\ f[3] = cache'[f[1]].opening
    BY DEF Held, Types, Registry
  <2> QED
    BY <1>1, <2>1, EntryType
<1>2. Account(e, y)'
  BY DEF Account, Room, Past, Share
<1>3. k <= Cardinality(Threads)
  <2>1. Others(e)' \subseteq Threads /\ IsFiniteSet(Threads)
    BY TopicsAssumption DEF Others
  <2> QED
    BY <2>1, FS_Subset
<1>4. y <= Past(restarts + 1)' /\ Past(restarts + 1)' = Past(restarts + 1)
  BY <1>3, RoomBounded DEF Past, Share, Held, Types
<1> QED
  BY <1>1, <1>2, <1>4 DEF Owes

\* A calm step leaves every account with the room it had.
LEMMA CalmOwing ==
    ASSUME Held, Held', Owing, Settled, Calm
    PROVE  Owing' /\ Settled'
<1>1. Settled'
  BY SettledKept DEF Calm
<1>2. ASSUME SyncRecords > 0, NEW l \in Logs PROVE Owes(l)'
  <2>1. Cardinality(Exposed(l)') <= Cardinality(Exposed(l))
    BY ExposedShrinks DEF Calm, Held
  <2>2. ASSUME Serving', NEW e \in DOMAIN entry PROVE Others(e)' = Others(e)
    BY <2>2, OthersSame DEF Calm
  <2>3. Owes(l)
    BY <1>2 DEF Owing
  <2> QED
    BY <1>2, <2>1, <2>2, <2>3, OwesKept DEF Calm
<1> QED
  BY <1>1, <1>2 DEF Owing

\* A thread moves, and is at no reset before or after.
LEMMA CalmCall ==
    ASSUME Held, NEW i \in Threads, NEW c, call' = [call EXCEPT ![i] = c], c.pc # "mark",
           call[i].pc # "mark", UNCHANGED <<acked, restarts, synced, status>>,
           DOMAIN entry' = DOMAIN entry,
           \A e \in DOMAIN entry : entry[e].appends <= entry'[e].appends
    PROVE  Calm
<1>1. call \in [Threads -> CallType] /\ \A l \in Logs : synced[l] \in Nat
  BY DEF Held, Types, TypeOK
<1>2. \A j \in Threads : call'[j] = call[j] \/ (call'[j].pc # "mark" /\ call[j].pc # "mark")
  BY <1>1
<1>3. \A l \in Logs : synced[l] <= synced'[l]
  BY <1>1
<1> QED
  BY <1>2, <1>3 DEF Calm, Serving

\* The process ends, or ends to serve.
LEMMA CalmEnd ==
    ASSUME Held, ~ Serving', UNCHANGED <<acked, restarts>>,
           \A l \in Logs : synced[l] <= synced'[l],
           \A j \in Threads : call'[j] = call[j] \/ call'[j] = Idle
    PROVE  Calm
<1>1. Idle.pc # "mark"
  BY DEF Idle
<1> QED
  BY <1>1 DEF Calm

\* The process is gone.
LEMMA CalmGone ==
    ASSUME Held, NEW s \in {"down", "failed"}, Gone(s)
    PROVE  Calm
<1>1. ~ Serving' /\ UNCHANGED <<acked, restarts, synced>> /\ \A j \in Threads : call'[j] = Idle
  BY DEF Gone, Serving, disk, past, used
<1>2. \A l \in Logs : synced[l] <= synced'[l]
  BY <1>1 DEF Held, Types, TypeOK
<1> QED
  BY <1>1, <1>2, CalmEnd

\* A call raises.
LEMMA CalmRaise ==
    ASSUME Held, NEW i \in Threads, call[i].pc # "mark", Raise(i)
    PROVE  Calm
<1>1. CASE Gone("failed")
  BY <1>1, CalmGone
<1>2. CASE call' = [call EXCEPT ![i] = Idle] /\ UNCHANGED <<disk, store, status, past, used>>
  <2>1. Idle.pc # "mark"
    BY DEF Idle
  <2>2. \A e \in DOMAIN entry : entry[e].appends <= entry'[e].appends
    BY <1>2 DEF store, Held, Types, TypeOK
  <2> QED
    BY <1>2, <2>1, <2>2, CalmCall DEF disk, store, past, used
<1> QED
  BY <1>1, <1>2 DEF Raise

\* The calls that begin, look up, create and write.
LEMMA CalmThread ==
    ASSUME Held, NEW i \in Threads,
           \/ CallAppend(i) \/ CallOther(i) \/ CallBoot(i) \/ EnterHit(i) \/ EnterMiss(i)
           \/ OpenKnown(i) \/ OpenNew(i) \/ WriteMeta(i) \/ Append(i) \/ AppendRolls(i)
           \/ Snapshot(i)
    PROVE  Calm
<1>1. /\ UNCHANGED <<acked, restarts, synced, status>>
      /\ entry' = entry \/ \E e \in DOMAIN entry : entry' = [entry EXCEPT ![e].open = TRUE]
  BY DEF CallAppend, CallOther, CallBoot, EnterHit, EnterMiss, OpenKnown, OpenNew, WriteMeta,
         Append, AppendRolls, Snapshot, disk, store, past, used
<1>2. Idle.pc = "idle" /\ Idle \in CallType /\ call[i] \in CallType
  BY IdleOK DEF Idle, Held, Types
<1>3. call[i].pc # "mark"
  BY <1>2 DEF CallAppend, CallOther, CallBoot, EnterHit, EnterMiss, OpenKnown, OpenNew, WriteMeta,
         Append, AppendRolls, Snapshot, Start
<1>4. PICK c : c.pc # "mark" /\ call' = [call EXCEPT ![i] = c]
  <2>1. CASE CallAppend(i)
    <3>1. PICK t \in Topics, k \in Keys \cup {NoKey} :
              Start(i, [Idle EXCEPT !.pc = "enter", !.op = "append", !.topic = t, !.key = k])
      BY <2>1 DEF CallAppend
    <3>2. [Idle EXCEPT !.pc = "enter", !.op = "append", !.topic = t, !.key = k].pc = "enter"
      BY DEF Idle
    <3> QED
      BY <3>1, <3>2 DEF Start
  <2>2. CASE CallOther(i)
    <3>1. PICK t \in Topics, n \in Counts \cup {0} :
            \/ Start(i, [Idle EXCEPT !.pc = "enter", !.op = "get", !.topic = t])
            \/ Start(i, [Idle EXCEPT !.pc = "enter", !.op = "create", !.topic = t, !.count = n])
            \/ Start(i, [Idle EXCEPT !.pc = "snapshot", !.op = "sync"])
      BY <2>2 DEF CallOther
    <3>2. /\ [Idle EXCEPT !.pc = "enter", !.op = "get", !.topic = t].pc = "enter"
          /\ [Idle EXCEPT !.pc = "enter", !.op = "create", !.topic = t, !.count = n].pc = "enter"
          /\ [Idle EXCEPT !.pc = "snapshot", !.op = "sync"].pc = "snapshot"
      BY DEF Idle
    <3> QED
      BY <3>1, <3>2 DEF Start
  <2>3. CASE CallBoot(i)
    <3>1. PICK t \in boot : Start(i, [Idle EXCEPT !.pc = "enter", !.op = "boot", !.topic = t])
      BY <2>3 DEF CallBoot
    <3>2. [Idle EXCEPT !.pc = "enter", !.op = "boot", !.topic = t].pc = "enter"
      BY DEF Idle
    <3> QED
      BY <3>1, <3>2 DEF Start
  <2>4. CASE EnterHit(i)
    <3>1. PICK seen : seen = cache[call[i].topic]
      OBVIOUS
    <3>2. call' = [call EXCEPT ![i].pc = "route", ![i].seen = seen] \/ call' = [call EXCEPT ![i] = Idle]
      BY <2>4, <3>1 DEF EnterHit, Found, Return
    <3>3. [call[i] EXCEPT !.pc = "route", !.seen = seen].pc = "route"
      BY <1>2 DEF CallType
    <3>4. call \in [Threads -> CallType]
      BY DEF Held, Types
    <3> QED
      BY <1>2, <3>2, <3>3, <3>4
  <2>5. CASE EnterMiss(i) \/ OpenKnown(i) \/ OpenNew(i) \/ WriteMeta(i)
    <3>1. PICK p \in {"open", "write", "logs"} :
            \/ call' = [call EXCEPT ![i].pc = p]
            \/ \E n : call' = [call EXCEPT ![i].pc = p, ![i].count = n]
      BY <2>5 DEF EnterMiss, WriteMeta, OpenKnown, OpenNew
    <3>2. /\ [call[i] EXCEPT !.pc = p].pc = p
          /\ \A n : [call[i] EXCEPT !.pc = p, !.count = n].pc = p
      BY <1>2 DEF CallType
    <3>3. call \in [Threads -> CallType]
      BY DEF Held, Types
    <3> QED
      BY <3>1, <3>2, <3>3
  <2>6. CASE Append(i) \/ AppendRolls(i)
    <3>1. PICK es, n : call' = [call EXCEPT ![i].pc = "count", ![i].todo = es, ![i].off = n]
      BY <2>6 DEF Append, AppendRolls, Land
    <3>2. [call[i] EXCEPT !.pc = "count", !.todo = es, !.off = n].pc = "count"
      BY <1>2 DEF CallType
    <3> QED
      BY <3>1, <3>2 DEF Held, Types
  <2>7. CASE Snapshot(i)
    <3>1. PICK c : /\ c = IF Cached = {} THEN Idle ELSE [call[i] EXCEPT !.pc = "sync", !.todo = Cached]
                   /\ call' = [call EXCEPT ![i] = c]
      BY <2>7 DEF Snapshot, Held, Types
    <3>2. [call[i] EXCEPT !.pc = "sync", !.todo = Cached].pc = "sync"
      BY <1>2 DEF CallType
    <3> QED
      BY <1>2, <3>1, <3>2
  <2> QED
    BY <2>1, <2>2, <2>3, <2>4, <2>5, <2>6, <2>7
<1>5. /\ DOMAIN entry' = DOMAIN entry
      /\ \A e \in DOMAIN entry : entry[e].appends <= entry'[e].appends
  BY <1>1 DEF Held, Types, TypeOK
<1> QED
  BY <1>1, <1>3, <1>4, <1>5, CalmCall

\* The steps that raise, those of the shutdown and of the process.
LEMMA CalmProcess ==
    ASSUME Held,
           \/ \E i \in Threads : \/ OpenRaises(i) \/ LogsRaise(i) \/ NotLocal(i)
                                 \/ AppendClosed(i) \/ SyncRaises(i)
           \/ Booted \/ CloseBegins \/ CloseLog \/ CloseRaises \/ CloseEnds \/ Exit
           \/ UNCHANGED vars
    PROVE  Calm
<1>1. ASSUME NEW i \in Threads,
             OpenRaises(i) \/ LogsRaise(i) \/ NotLocal(i) \/ AppendClosed(i) \/ SyncRaises(i)
      PROVE  Calm
  <2>1. call[i].pc # "mark" /\ Raise(i)
    BY <1>1 DEF OpenRaises, LogsRaise, NotLocal, AppendClosed, SyncRaises
  <2> QED
    BY <2>1, CalmRaise
<1>2. ASSUME UNCHANGED <<acked, restarts, synced, entry, call>>, Serving' => Serving PROVE Calm
  <2>1. \A l \in Logs : synced[l] <= synced'[l]
    BY <1>2 DEF Held, Types, TypeOK
  <2>2. \A e \in DOMAIN entry : entry[e].appends <= entry'[e].appends
    BY <1>2 DEF Held, Types, TypeOK
  <2> QED
    BY <1>2, <2>1, <2>2 DEF Calm
<1>3. CASE Booted \/ CloseBegins \/ CloseEnds \/ UNCHANGED vars
  BY <1>2, <1>3 DEF Booted, CloseBegins, CloseEnds, vars, disk, store, past, used, Serving
<1>4. CASE Exit
  BY <1>4, CalmGone DEF Exit
<1>5. CASE CloseRaises
  BY <1>2, <1>5 DEF CloseRaises, disk, store, past, used, Serving
<1>6. CASE CloseLog
  <2>1. PICK e : e = First(closing.left)
    OBVIOUS
  <2>2. /\ closing.left # {} /\ synced' = [synced EXCEPT ![LogOf(e)] = written[LogOf(e)]]
        /\ UNCHANGED <<acked, restarts, call, status>>
    BY <1>6, <2>1 DEF CloseLog, past, used
  <2>3. ~ Serving'
    BY <2>2 DEF Held, Records, Serving
  <2>4. e \in closing.left /\ e \in DOMAIN entry /\ LogOf(e) \in Logs
    BY <2>1, <2>2, FirstIn, EntryType DEF Held, Types, TypeOK
  <2>5. \A l \in Logs : synced[l] \in Nat /\ written[l] \in Nat /\ synced[l] <= written[l]
    BY Numbers DEF Held
  <2>6. \A l \in Logs : synced'[l] \in {synced[l], written[l]}
    BY <2>2, <2>4 DEF Held, Types, TypeOK
  <2>7. \A l \in Logs : synced[l] <= synced'[l]
    BY <2>5, <2>6
  <2> QED
    BY <2>2, <2>3, <2>7, CalmEnd
<1> QED
  BY <1>1, <1>3, <1>4, <1>5, <1>6

\* An append is counted.
LEMMA CountOwing ==
    ASSUME Held, Held', Owing, Settled, NEW i \in Threads, Count(i)
    PROVE  Owing' /\ Settled'
<1>1. PICK d : d = call[i]
  OBVIOUS
<1>2. PICK e : e = First(d.todo)
  OBVIOUS
<1>3. PICK n : n = entry[e].appends + 1
  OBVIOUS
<1>4. /\ d.pc = "count" /\ entry' = [entry EXCEPT ![e].appends = n]
      /\ UNCHANGED <<meta, written, synced, cache, lock, status, closing, homes, restarts>>
      /\ \/ call' = [call EXCEPT ![i].pc = "sync"] /\ UNCHANGED acked
         \/ (SyncRecords # 0 => ~ n >= SyncRecords) /\ Ack(i, LogOf(e)) /\ Return(i)
  BY <1>1, <1>2, <1>3 DEF Count, Due, disk, used
<1>5. /\ d \in CallType /\ e \in DOMAIN entry /\ entry[e] \in [appends : Nat, open : BOOLEAN]
      /\ LogOf(e) \in Logs /\ e \in Entries /\ d.off \in Nat
  <2>1. d \in CallType /\ e \in DOMAIN entry /\ entry[e] \in [appends : Nat, open : BOOLEAN]
        /\ LogOf(e) \in Logs
    BY <1>1, <1>2, <1>4, WorkLocals
  <2> QED
    BY <2>1 DEF Held, Types, CallType
<1>6. /\ \A l \in Logs : synced[l] <= synced'[l]
      /\ call \in [Threads -> CallType]
      /\ entry \in [DOMAIN entry -> [appends : Nat, open : BOOLEAN]]
  BY <1>4 DEF Held, Types, TypeOK
<1>7. /\ DOMAIN entry' = DOMAIN entry /\ entry'[e].appends = n /\ n \in Nat
      /\ \A f \in DOMAIN entry : f # e => entry'[f] = entry[f]
  BY <1>3, <1>4, <1>5, <1>6
<1>8. \A f \in DOMAIN entry : entry[f].appends <= entry'[f].appends
  BY <1>3, <1>5, <1>6, <1>7
<1>9. \A j \in Threads : \/ call'[j] = call[j]
                         \/ call'[j].pc # "mark" /\ call[j].pc # "mark"
  <2>1. Idle.pc = "idle"
    BY DEF Idle
  <2>2. [d EXCEPT !.pc = "sync"].pc = "sync"
    BY <1>5 DEF CallType
  <2> QED
    BY <1>1, <1>4, <1>6, <2>1, <2>2 DEF Return
<1>10. CASE acked' = acked
  <2>1. Calm
    BY <1>4, <1>6, <1>7, <1>8, <1>9, <1>10 DEF Calm, Serving
  <2> QED
    BY <2>1, CalmOwing
<1>11. CASE acked' # acked
  <2>1. PICK a : a = <<e[1], e[2], d.off>>
    OBVIOUS
  <2>2. /\ Serving /\ acked' = acked \cup {a} /\ (SyncRecords # 0 => ~ n >= SyncRecords)
    BY <1>1, <1>4, <1>5, <1>11, <2>1, EntryType DEF Ack
  <2>3. <<a[1], a[2]>> = LogOf(e)
    BY <1>5, <2>1, EntryType
  <2>4. Settled'
    BY <1>6, <1>9, SettledKept
  <2>5. ASSUME SyncRecords > 0, NEW l \in Logs PROVE Owes(l)'
    <3>1. Owes(l)
      BY <2>5 DEF Owing
    <3>2. \A f : Others(f)' = Others(f)
      BY <1>9, OthersSame
    <3>3. CASE l # LogOf(e)
      <4>1. Exposed(l)' = Exposed(l)
        BY <1>4, <2>2, <2>3, <3>3 DEF Exposed
      <4>2. Cardinality(Exposed(l)') <= Cardinality(Exposed(l))
        BY <4>1, ExposedCount DEF Held
      <4> QED
        BY <1>4, <1>7, <1>8, <2>2, <2>5, <3>1, <3>2, <4>2, OwesKept
    <3>4. CASE l = LogOf(e)
      <4>1. PICK x \in Nat : x = Cardinality(Exposed(l))
        BY ExposedCount DEF Held
      <4>2. PICK y \in Nat : y = Cardinality(Exposed(l)') /\ y <= x + 1
        <5>1. Exposed(l)' \subseteq Exposed(l) \cup {a}
          BY <1>4, <2>2 DEF Exposed
        <5>2. IsFiniteSet(Exposed(l))
          BY ExposedCount DEF Held
        <5>3. IsFiniteSet(Exposed(l) \cup {a}) /\ Cardinality(Exposed(l) \cup {a}) \in {x, x + 1}
          BY <4>1, <5>2, FS_AddElement
        <5>4. /\ IsFiniteSet(Exposed(l)')
              /\ Cardinality(Exposed(l)') <= Cardinality(Exposed(l) \cup {a})
          BY <5>1, <5>3, FS_Subset
        <5>5. Cardinality(Exposed(l)') \in Nat
          BY <5>4, FS_CardinalityType
        <5> QED
          BY <4>1, <5>3, <5>4, <5>5
      <4>3. PICK k \in Nat : k = Cardinality(Others(e)) /\ k > 0
        <5>1. i \in Others(e)
          BY <1>1, <1>4 DEF Others
        <5> QED
          BY <5>1, OthersCount, FS_EmptySet
      <4>4. Room(restarts, k, entry[e].appends, x)
        BY <1>5, <2>2, <3>1, <3>4, <4>1, <4>3 DEF Owes, Account
      <4>5. Room(restarts, k, n, y)
        <5>1. Past(restarts) \in Nat /\ Share(k) \in Nat
          BY <2>5, Pasts, Shares DEF Held, Types
        <5>2. n < SyncRecords /\ SyncRecords \in Nat
          BY <1>7, <2>2, <2>5, PolicyAssumption
        <5>3. x <= Past(restarts) + Share(k) - (SyncRecords - 1) + entry[e].appends
          BY <4>3, <4>4 DEF Room
        <5>4. y <= Past(restarts) + Share(k) - (SyncRecords - 1) + n
          BY <1>3, <1>5, <4>2, <5>1, <5>2, <5>3
        <5>5. y <= Past(restarts) + Share(k)
          BY <1>7, <5>1, <5>2, <5>4
        <5> QED
          BY <5>4, <5>5 DEF Room
      <4>6. k = Cardinality(Others(e)')
        BY <3>2, <4>3
      <4>7. Serving'
        BY <1>4, <2>2 DEF Serving
      <4> QED
        BY <1>4, <1>5, <1>7, <2>5, <3>4, <4>2, <4>5, <4>6, <4>7, OwesEntry
    <3> QED
      BY <3>3, <3>4
  <2> QED
    BY <2>4, <2>5 DEF Owing
<1> QED
  BY <1>10, <1>11

\* An fsync: nothing of the log is at risk any more.
LEMMA SyncOwing ==
    ASSUME Held, Held', Owing, Settled, NEW i \in Threads, Sync(i)
    PROVE  Owing' /\ Settled'
<1>1. PICK d : d = call[i]
  OBVIOUS
<1>2. PICK e : e = First(d.todo)
  OBVIOUS
<1>3. PICK c : c = [d EXCEPT !.pc = "mark"]
  OBVIOUS
<1>4. /\ d.pc = "sync" /\ synced' = [synced EXCEPT ![LogOf(e)] = written[LogOf(e)]]
      /\ UNCHANGED <<meta, written, cache, entry, lock, boot, status, closing, acked, homes, restarts>>
  BY <1>1, <1>2 DEF Sync, store, past, used
<1>5. /\ d \in CallType /\ e \in DOMAIN entry /\ LogOf(e) \in Logs
      /\ d.op = "append" => d.off < written[LogOf(e)]
  BY <1>1, <1>2, <1>4, WorkLocals
<1>6. /\ call' = [call EXCEPT ![i] = c] /\ call \in [Threads -> CallType]
      /\ c.pc = "mark" /\ First(c.todo) = e /\ c.off = d.off /\ c.op = d.op
  BY <1>1, <1>2, <1>3, <1>5 DEF Sync, Held, Types, CallType
<1>7. \A j \in Threads : \/ call'[j] = call[j]
                         \/ j = i /\ call'[j] = c
  BY <1>6
<1>8. /\ synced'[LogOf(e)] = written[LogOf(e)]
      /\ \A l \in Logs : /\ synced'[l] \in {synced[l], written[l]}
                         /\ synced[l] \in Nat /\ written[l] \in Nat /\ synced[l] <= written[l]
  BY <1>4, <1>5, Numbers DEF Held, Types, TypeOK
<1>9. \A l \in Logs : synced[l] <= synced'[l]
  BY <1>8
<1>10. Settled'
  <2>1. ASSUME NEW j \in Threads, call'[j].pc = "mark", call'[j].op = "append"
        PROVE  call'[j].off < synced'[LogOf(First(call'[j].todo))]
    <3>1. CASE call'[j] = c
      BY <1>5, <1>6, <1>8, <2>1, <3>1
    <3>2. CASE call'[j] = call[j]
      <4>1. PICK b : b = call[j] /\ b = call'[j]
        BY <3>2
      <4>2. PICK f : f = First(b.todo)
        OBVIOUS
      <4>3. LogOf(f) \in Logs /\ b \in CallType
        BY <2>1, <4>1, <4>2, WorkLocals
      <4>4. b.off < synced[LogOf(f)] /\ b.off \in Nat
        BY <2>1, <4>1, <4>2, <4>3 DEF Settled, CallType
      <4>5. b.off < synced'[LogOf(f)]
        BY <1>8, <4>3, <4>4
      <4> QED
        BY <4>1, <4>2, <4>5
    <3> QED
      BY <1>7, <3>1, <3>2
  <2> QED
    BY <2>1 DEF Settled
<1>11. ASSUME SyncRecords > 0, NEW l \in Logs PROVE Owes(l)'
  <2>1. Cardinality(Exposed(l)') <= Cardinality(Exposed(l))
    BY <1>4, <1>9, ExposedShrinks DEF Held
  <2>2. Owes(l)
    BY <1>11 DEF Owing
  <2>3. CASE ~ Serving' \/ l # LogOf(e)
    <3>1. ASSUME NEW f \in DOMAIN entry, f # e PROVE Others(f)' = Others(f)
      BY <1>1, <1>4, <1>6, <1>7, <3>1, OthersSame
    <3>2. \A f \in DOMAIN entry : entry[f].appends <= entry'[f].appends
      BY <1>4 DEF Held, Types, TypeOK
    <3>3. Serving' => /\ Serving
                      /\ \A f \in DOMAIN entry : LogOf(f) = l => Others(f)' = Others(f)
      BY <1>4, <2>3, <3>1 DEF Serving
    <3> QED
      BY <1>4, <1>11, <2>1, <2>2, <3>2, <3>3, OwesKept
  <2>4. CASE Serving' /\ l = LogOf(e)
    <3>1. ASSUME NEW a \in acked', <<a[1], a[2]>> = l, a[3] >= synced'[l] PROVE FALSE
      <4>1. a[3] \in Nat /\ a[3] < written[l]
        BY <1>4, <3>1 DEF Held, Records, Types, Acks
      <4> QED
        BY <1>8, <2>4, <3>1, <4>1
    <3>2. Exposed(l)' = {}
      BY <3>1 DEF Exposed
    <3>3. Cardinality(Exposed(l)') = 0
      BY <3>2, FS_EmptySet
    <3>4. PICK k \in Nat : k = Cardinality(Others(e)')
      <4>1. Others(e)' \subseteq Threads
        BY DEF Others
      <4> QED
        BY <4>1, TopicsAssumption, FS_Subset, FS_CardinalityType
    <3>5. Room(restarts, k, entry'[e].appends, 0)
      <4>1. Past(restarts) \in Nat /\ Share(k) \in Nat /\ (k > 0 => Share(k) >= SyncRecords - 1)
        BY <1>11, Pasts, Shares DEF Held, Types
      <4>2. entry'[e].appends \in Nat /\ SyncRecords \in Nat
        BY <1>4, <1>5, PolicyAssumption DEF Held, Types, TypeOK
      <4> QED
        BY <4>1, <4>2 DEF Room
    <3> QED
      BY <1>4, <1>5, <1>11, <2>4, <3>3, <3>4, <3>5, OwesEntry
  <2> QED
    BY <2>3, <2>4
<1> QED
  BY <1>10, <1>11 DEF Owing

\* The counter is reset: what others appended since the fsync is their share.
LEMMA MarkOwing ==
    ASSUME Held, Held', Owing, Settled, NEW i \in Threads, Mark(i)
    PROVE  Owing' /\ Settled'
<1>1. PICK d : d = call[i]
  OBVIOUS
<1>2. PICK e : e = First(d.todo)
  OBVIOUS
<1>3. PICK rest : rest = d.todo \ {e}
  OBVIOUS
<1>4. /\ d.pc = "mark" /\ entry' = [entry EXCEPT ![e].appends = 0]
      /\ UNCHANGED <<meta, written, synced, cache, lock, status, closing, homes, restarts>>
      /\ IF rest # {}
         THEN call' = [call EXCEPT ![i].pc = "sync", ![i].todo = rest] /\ UNCHANGED <<boot, acked>>
         ELSE /\ Return(i)
              /\ IF d.op = "append" THEN Ack(i, LogOf(e)) ELSE UNCHANGED acked
  BY <1>1, <1>2, <1>3 DEF Mark, Reset, disk, used
<1>5. /\ d \in CallType /\ e \in DOMAIN entry /\ LogOf(e) \in Logs /\ e \in Entries
      /\ entry[e] \in [appends : Nat, open : BOOLEAN]
  <2>1. d \in CallType /\ e \in DOMAIN entry /\ LogOf(e) \in Logs
        /\ entry[e] \in [appends : Nat, open : BOOLEAN]
    BY <1>1, <1>2, <1>4, WorkLocals
  <2> QED
    BY <2>1 DEF Held, Types
<1>6. call \in [Threads -> CallType] /\ entry \in [DOMAIN entry -> [appends : Nat, open : BOOLEAN]]
  BY DEF Held, Types
<1>7. PICK c : c.pc # "mark" /\ call' = [call EXCEPT ![i] = c]
  <2>1. Idle.pc = "idle" /\ [d EXCEPT !.pc = "sync", !.todo = rest].pc = "sync"
    BY <1>5 DEF Idle, CallType
  <2> QED
    BY <1>1, <1>4, <1>6, <2>1 DEF Return
<1>8. /\ \A j \in Threads : call'[j] = call[j] \/ (j = i /\ call'[j].pc # "mark")
      /\ call'[i].pc # "mark"
  BY <1>6, <1>7
<1>9. /\ \A l \in Logs : synced[l] <= synced'[l]
      /\ DOMAIN entry' = DOMAIN entry /\ entry'[e].appends = 0
      /\ \A f \in DOMAIN entry : f # e => entry'[f] = entry[f]
  BY <1>4, <1>5, <1>6 DEF Held, Types, TypeOK
<1>10. Settled'
  BY <1>8, <1>9, SettledKept
<1>11. \A a \in acked' : a \in acked \/ a[3] < synced'[<<a[1], a[2]>>]
  <2>1. CASE acked' = acked
    BY <2>1
  <2>2. CASE acked' # acked
    <3>1. d.op = "append" /\ acked' = acked \cup {<<LogOf(e)[1], LogOf(e)[2], d.off>>}
      BY <1>1, <1>4, <2>2 DEF Ack
    <3>2. d.off < synced[LogOf(e)]
      BY <1>1, <1>2, <1>4, <3>1 DEF Settled
    <3>3. LogOf(e) = <<e[1], e[2]>>
      BY <1>5, EntryType
    <3> QED
      BY <1>4, <3>1, <3>2, <3>3
  <2> QED
    BY <2>1, <2>2
<1>12. ASSUME SyncRecords > 0, NEW l \in Logs PROVE Owes(l)'
  <2>1. /\ Cardinality(Exposed(l)) \in Nat /\ Cardinality(Exposed(l)') \in Nat
        /\ Cardinality(Exposed(l)') <= Cardinality(Exposed(l))
    BY <1>9, <1>11, ExposedShrinks DEF Held
  <2>2. Owes(l)
    BY <1>12 DEF Owing
  <2>3. CASE ~ Serving' \/ l # LogOf(e)
    <3>1. ASSUME NEW f \in DOMAIN entry, f # e PROVE Others(f)' = Others(f)
      BY <1>1, <1>2, <1>8, <3>1, OthersSame
    <3>2. \A f \in DOMAIN entry : f # e => entry[f].appends <= entry'[f].appends
      BY <1>9 DEF Held, Types, TypeOK
    <3>3. Serving' => /\ Serving
                      /\ \A f \in DOMAIN entry : LogOf(f) = l =>
                            Others(f)' = Others(f) /\ entry[f].appends <= entry'[f].appends
      BY <1>4, <2>3, <3>1, <3>2 DEF Serving
    <3> QED
      BY <1>4, <1>9, <1>12, <2>1, <2>2, <3>3, OwesKept
  <2>4. CASE Serving' /\ l = LogOf(e)
    <3>1. PICK x \in Nat, y \in Nat : /\ x = Cardinality(Exposed(l)) /\ y = Cardinality(Exposed(l)')
                                      /\ y <= x
      BY <2>1
    <3>2. PICK k \in Nat : k = Cardinality(Others(e)) /\ k + 1 = Cardinality(Others(e)')
      <4>1. i \notin Others(e)
        BY <1>1, <1>2, <1>4 DEF Others
      <4>2. Others(e)' = Others(e) \cup {i}
        BY <1>8, <4>1 DEF Others
      <4> QED
        BY <4>1, <4>2, OthersCount, FS_AddElement
    <3>3. x <= Past(restarts) + Share(k)
      BY <1>4, <1>5, <2>2, <2>4, <3>1, <3>2 DEF Owes, Account, Room, Serving
    <3>4. Room(restarts, k + 1, entry'[e].appends, y)
      <4>1. Past(restarts) \in Nat /\ Share(k) \in Nat /\ Share(k + 1) = Share(k) + (SyncRecords - 1)
        BY <1>12, Pasts, Shares DEF Held, Types
      <4>2. SyncRecords \in Nat
        BY PolicyAssumption
      <4>3. /\ y <= Past(restarts) + Share(k + 1)
            /\ y <= Past(restarts) + Share(k + 1) - (SyncRecords - 1) + 0
        BY <1>12, <3>1, <3>3, <4>1, <4>2
      <4> QED
        BY <1>9, <4>3 DEF Room
    <3> QED
      BY <1>4, <1>5, <1>9, <1>12, <2>4, <3>1, <3>2, <3>4, OwesEntry
  <2> QED
    BY <2>3, <2>4
<1> QED
  BY <1>10, <1>12 DEF Owing

\* The topic is opened: counters at 0, and no thread to reset them.
LEMMA OpenOwing ==
    ASSUME Held, Held', Owing, Settled, NEW i \in Threads, OpenLogs(i)
    PROVE  Owing' /\ Settled'
<1>1. PICK d : d = call[i]
  OBVIOUS
<1>2. PICK t : t = d.topic
  OBVIOUS
<1>3. PICK k : k = Cardinality({e[3] : e \in {x \in DOMAIN entry : x[1] = t}}) + 1
  OBVIOUS
<1>4. PICK new : /\ new = {<<t, p, k>> : p \in {q \in 0 .. d.count - 1 : <<t, q>> \in Owned}}
                 /\ \A e \in new : e[1] = t
  <2>1. PICK new : new = {<<t, p, k>> : p \in {q \in 0 .. d.count - 1 : <<t, q>> \in Owned}}
    OBVIOUS
  <2>2. ASSUME NEW e \in new PROVE e[1] = t
    <3>1. PICK p \in {q \in 0 .. d.count - 1 : <<t, q>> \in Owned} : e = <<t, p, k>>
      BY <2>1, <2>2
    <3> QED
      BY <3>1
  <2> QED
    BY <2>1, <2>2
<1>5. PICK seen : seen = [n |-> d.count, opening |-> k]
  OBVIOUS
<1>6. /\ d.pc = "logs" /\ Found(i, seen)
      /\ entry' = [e \in DOMAIN entry \cup new |->
                      IF e \in new THEN [appends |-> 0, open |-> TRUE] ELSE entry[e]]
      /\ UNCHANGED <<meta, written, synced, status, closing, acked, homes, restarts>>
  BY <1>1, <1>2, <1>3, <1>4, <1>5 DEF OpenLogs, disk, past, used
<1>7. d \in CallType /\ t \in Topics /\ cache[t] = NotOpen
  BY <1>1, <1>2, <1>6 DEF Held, Types, Calls, CallOK, CallType
<1>8. \A j \in Threads : \/ call'[j] = call[j]
                         \/ call'[j].pc # "mark" /\ call[j].pc # "mark"
  <2>1. Idle.pc = "idle" /\ [d EXCEPT !.pc = "route", !.seen = seen].pc = "route"
    BY <1>7 DEF Idle, CallType
  <2>2. \/ call' = [call EXCEPT ![i].pc = "route", ![i].seen = seen]
        \/ call' = [call EXCEPT ![i] = Idle]
    BY <1>6 DEF Found, Return
  <2>3. call \in [Threads -> CallType]
    BY DEF Held, Types
  <2> QED
    BY <1>1, <1>6, <2>1, <2>2, <2>3
<1>9. \A l \in Logs : synced[l] <= synced'[l]
  BY <1>6 DEF Held, Types, TypeOK
<1>10. Settled'
  BY <1>8, <1>9, SettledKept
<1>11. /\ DOMAIN entry' = DOMAIN entry \cup new
       /\ \A e \in new : entry'[e].appends = 0
       /\ \A e \in DOMAIN entry : e \notin new => entry'[e] = entry[e]
  BY <1>6
<1>12. Serving => \A e \in DOMAIN entry : e[1] # t
  BY <1>7 DEF Held, Registry
<1>13. \A f : Others(f)' = Others(f)
  BY <1>8, OthersSame
<1>14. ASSUME SyncRecords > 0, NEW l \in Logs PROVE Owes(l)'
  <2>1. PICK x \in Nat, y \in Nat : /\ x = Cardinality(Exposed(l)) /\ y = Cardinality(Exposed(l)')
                                    /\ y <= x
    BY <1>6, <1>9, ExposedShrinks DEF Held
  <2>2. Owes(l)
    BY <1>14 DEF Owing
  <2>3. Serving' => Serving
    BY <1>6 DEF Serving
  <2>4. CASE ~ Serving' \/ \A e \in new : LogOf(e) # l
    <3>1. Serving' => \A e \in DOMAIN entry : /\ e \in DOMAIN entry'
                                              /\ entry[e].appends <= entry'[e].appends
      <4>1. ASSUME Serving', NEW e \in DOMAIN entry PROVE entry'[e] = entry[e]
        BY <1>4, <1>11, <1>12, <2>3, <4>1
      <4> QED
        BY <1>11, <4>1 DEF Held, Types, TypeOK
    <3> QED
      BY <1>6, <1>11, <1>13, <1>14, <2>1, <2>2, <2>3, <2>4, <3>1, OwesKept
  <2>5. ASSUME Serving', NEW e \in new, LogOf(e) = l PROVE Owes(l)'
    <3>1. e \in DOMAIN entry' /\ e \in Entries /\ e[1] = t /\ l[1] = t
      <4>1. e \in DOMAIN entry' /\ e[1] = t
        BY <1>4, <1>11, <2>5
      <4>2. e \in Entries
        BY <4>1 DEF Held, Types
      <4> QED
        BY <2>5, <4>1, <4>2, EntryType
    <3>2. \A f \in DOMAIN entry : LogOf(f) # l
      BY <1>12, <2>3, <2>5, <3>1, EntryType DEF Held, Types
    <3>3. x <= Past(restarts)
      BY <2>1, <2>2, <2>3, <2>5, <3>2 DEF Owes
    <3>4. PICK n \in Nat : n = Cardinality(Others(e)')
      BY <1>13, OthersCount
    <3>5. Room(restarts, n, 0, y)
      <4>1. Past(restarts) \in Nat /\ Share(n) \in Nat /\ (n > 0 => Share(n) >= SyncRecords - 1)
        BY <1>14, Pasts, Shares DEF Held, Types
      <4>2. SyncRecords \in Nat
        BY PolicyAssumption
      <4>3. /\ y <= Past(restarts) + Share(n)
            /\ n > 0 => y <= Past(restarts) + Share(n) - (SyncRecords - 1) + 0
        BY <2>1, <3>3, <4>1, <4>2
      <4> QED
        BY <4>3 DEF Room
    <3>6. entry'[e].appends = 0
      BY <1>11, <2>5
    <3> QED
      BY <1>6, <1>14, <2>1, <2>5, <3>1, <3>4, <3>5, <3>6, OwesEntry
  <2> QED
    BY <2>4, <2>5
<1> QED
  BY <1>10, <1>14 DEF Owing

\* A life of the process begins with what the last one left.
LEMMA RestartOwing ==
    ASSUME Held, Held', Owing, Settled, Restart
    PROVE  Owing' /\ Settled'
<1>1. /\ status \in {"down", "failed"} /\ restarts' = restarts + 1
      /\ UNCHANGED <<meta, written, synced, cache, entry, lock, call, closing, acked, homes>>
  BY DEF Restart, disk, store, past
<1>2. Settled'
  BY <1>1 DEF Settled
<1>3. DOMAIN entry' = {}
  BY <1>1 DEF Held, Registry
<1>4. ASSUME SyncRecords > 0, NEW l \in Logs PROVE Owes(l)'
  <2>1. Exposed(l)' = Exposed(l)
    BY <1>1 DEF Exposed
  <2>2. PICK x \in Nat : x = Cardinality(Exposed(l))
    BY ExposedCount DEF Held
  <2>3. PICK r \in Nat : r = restarts + 1
    BY DEF Held, Types
  <2>4. x <= Past(r)
    BY <1>4, <2>2, <2>3 DEF Owing, Owes
  <2>5. Past(r) \in Nat /\ Past(r + 1) \in Nat /\ Past(r) <= Past(r + 1)
    <3>1. r + 1 \in Nat
      OBVIOUS
    <3> QED
      BY <1>4, <3>1, Pasts
  <2>6. /\ Past(restarts)' = Past(r) /\ Past(restarts + 1)' = Past(r + 1)
        /\ Cardinality(Exposed(l)') = x
    BY <1>1, <2>1, <2>2, <2>3 DEF Past, Share
  <2> QED
    BY <1>3, <2>2, <2>4, <2>5, <2>6 DEF Owes
<1> QED
  BY <1>2, <1>4 DEF Owing

\* Nothing is at risk at first.
LEMMA OwingInit == ASSUME Init PROVE Owing /\ Settled
<1>1. acked = {} /\ DOMAIN entry = {} /\ call = [i \in Threads |-> Idle] /\ restarts = 0
  BY DEF Init
<1>2. Settled
  <2>1. Idle.pc # "mark"
    BY DEF Idle
  <2> QED
    BY <1>1, <2>1 DEF Settled
<1>3. ASSUME SyncRecords > 0, NEW l \in Logs PROVE Owes(l)
  <2>1. Exposed(l) = {}
    BY <1>1 DEF Exposed
  <2>2. Cardinality(Exposed(l)) = 0
    BY <2>1, FS_EmptySet
  <2>3. Past(restarts) \in Nat /\ Past(restarts + 1) \in Nat
    BY <1>1, <1>3, Pasts
  <2> QED
    BY <1>1, <2>2, <2>3 DEF Owes
<1> QED
  BY <1>2, <1>3 DEF Owing

\* Every step keeps the accounts.
LEMMA OwingNext ==
    ASSUME Held, Held', Owing, Settled, [Next]_vars
    PROVE  Owing' /\ Settled'
<1>1. ASSUME NEW i \in Threads, ThreadStep(i) PROVE Owing' /\ Settled'
  <2>1. CASE \/ CallAppend(i) \/ CallOther(i) \/ CallBoot(i) \/ EnterHit(i) \/ EnterMiss(i)
             \/ OpenKnown(i) \/ OpenNew(i) \/ WriteMeta(i) \/ Append(i) \/ AppendRolls(i)
             \/ Snapshot(i)
    BY <2>1, CalmThread, CalmOwing
  <2>2. CASE \/ OpenRaises(i) \/ LogsRaise(i) \/ NotLocal(i) \/ AppendClosed(i) \/ SyncRaises(i)
    BY <2>2, CalmProcess, CalmOwing
  <2>3. CASE OpenLogs(i) \/ Count(i) \/ Sync(i) \/ Mark(i)
    BY <2>3, OpenOwing, CountOwing, SyncOwing, MarkOwing
  <2> QED
    BY <1>1, <2>1, <2>2, <2>3 DEF ThreadStep
<1>2. CASE ProcessStep \/ UNCHANGED vars
  <2>1. CASE Restart
    BY <2>1, RestartOwing
  <2>2. CASE \/ Booted \/ CloseBegins \/ CloseLog \/ CloseRaises \/ CloseEnds \/ Exit
             \/ UNCHANGED vars
    BY <2>2, CalmProcess, CalmOwing
  <2> QED
    BY <1>2, <2>1, <2>2 DEF ProcessStep
<1> QED
  BY <1>1, <1>2 DEF Next

\* What a power cut may take from a partition under "fsync every N records"
\* (SyncPolicy): N - 1 acknowledged records for each thread, whose fsync may be
\* the one that resets the counter over the others' records, in each life of the
\* process.  With N = 1, nothing.
THEOREM LossIsBounded == Spec => []LossBounded
<1>1. Init => Held /\ Owing /\ Settled
  BY HeldInit, OwingInit
<1>2. Held /\ Owing /\ Settled /\ [Next]_vars => (Held /\ Owing /\ Settled)'
  BY HeldNext, OwingNext
<1>3. Owing => LossBounded
  BY DEF Owing, Owes, LossBounded, Past, Share
<1> QED
  BY <1>1, <1>2, <1>3, PTL DEF Spec

=============================================================================
