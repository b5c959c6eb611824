--------------------------- MODULE ClusterProofs ---------------------------
(***************************************************************************)
(* What holds of the cluster for any number of brokers, clients, records   *)
(* and crashes, any circle and any hash, and however often the cluster     *)
(* is resized.                                                             *)
(*                                                                         *)
(* First, where resizes are done with care, a broker holds directories     *)
(* of partitions it owns and of no others: so no partition is on two       *)
(* disks, and no broker is refused for its orphans. AtHome is inductive    *)
(* because a directory is only ever made by opening a topic, which makes   *)
(* those that the ring of that moment gives the broker, and the ring       *)
(* changes in the step that moves them all (Resize).                       *)
(*                                                                         *)
(* Then the types of all variables, and with them what a call's locals     *)
(* say of each other (CallFits). What follows looks at the logs through    *)
(* Text, which is <<>> where there is no log: a step either leaves Text    *)
(* as it is, appends one record to one log (Lands), or moves whole logs    *)
(* (Resize). On it rest                                                    *)
(*   Resumes        what a reader was given is a beginning of its log;     *)
(*   Placed, Counted                                                       *)
(*                  each answer is of a record that is there, in a         *)
(*                  partition that some broker's topic.json counts;        *)
(*   QueueOK, LateFits, PrefixOK                                           *)
(*                  the requests of a batch go out in order: no log has a  *)
(*                  record without those of its key before it;             *)
(*   OneEach, Sparing                                                      *)
(*                  the copies of a record, with those that may yet come,  *)
(*                  against the answers that were lost;                    *)
(*   InTurn, Over, InOrder                                                 *)
(*                  the answers for one key ascend, within a call and      *)
(*                  from one call to the next.                             *)
(***************************************************************************)
EXTENDS Cluster, FiniteSetTheorems, SequenceTheorems, TLAPS

Rings == INSTANCE HashRingProofs
            WITH Partitions <- Parts, point <- Point, place <- Place, brokers <- FirstSize

\* On the disk of a broker are only partitions it owns.
AtHome ==
    /\ log = [b \in Brokers |-> log[b]]
    /\ \A b \in Brokers : \A p \in DOMAIN log[b] : Owner(size, p) = b

\* The scene goes on with the care it began with.
SceneOK == scene \in [who : SUBSET Clients, faults : Nat, resizes : Nat, careful : BOOLEAN]

\* No broker has found a partition that is not its own.
NoneRefused ==
    /\ broker = [b \in Brokers |-> broker[b]]
    /\ \A b \in Brokers : broker[b] # "refused"

\* Opening a topic makes directories of the broker's own partitions only.
LEMMA OpenedOwn ==
    ASSUME AtHome, NEW b \in Brokers, NEW n, NEW p \in DOMAIN Opened(b, n)
    PROVE  Owner(size, p) = b
BY DEF AtHome, Opened, Owns

\* A disk on which one broker has opened the topic, and may have appended.
LEMMA HomeKept ==
    ASSUME AtHome, NEW b, NEW n, NEW new, UNCHANGED size,
           DOMAIN new \subseteq DOMAIN Opened(b, n), log' = [log EXCEPT ![b] = new]
    PROVE  AtHome'
<1>1. \A d \in Brokers : log'[d] = IF d = b THEN new ELSE log[d]
  BY DEF AtHome
<1>2. log' = [d \in Brokers |-> log'[d]]
  BY DEF AtHome
<1>3. ASSUME NEW d \in Brokers, NEW p \in DOMAIN log'[d]
      PROVE  Owner(size, p) = d
  <2>1. CASE d = b
    BY <1>1, <1>3, <2>1, OpenedOwn
  <2>2. CASE d # b
    BY <1>1, <1>3, <2>2 DEF AtHome
  <2>3. QED
    BY <2>1, <2>2
<1>4. QED
  BY <1>2, <1>3 DEF AtHome, Owner

\* A broker that opens the topic if it knows it.
LEMMA HomeOpened ==
    ASSUME AtHome, NEW b, UNCHANGED size,
           log' = [log EXCEPT ![b] = IF meta[b] = Absent THEN @ ELSE Opened(b, meta[b])]
    PROVE  AtHome'
<1> DEFINE new == IF meta[b] = Absent THEN log[b] ELSE Opened(b, meta[b])
<1>1. DOMAIN new \subseteq DOMAIN Opened(b, meta[b]) /\ log' = [log EXCEPT ![b] = new]
  BY DEF Opened
<1>2. QED
  BY <1>1, HomeKept

\* The steps of a send.
LEMMA HomeAsked == ASSUME AtHome, NEW b, Asked(b), UNCHANGED size PROVE AtHome'
BY HomeKept DEF Asked

LEMMA HomeAppended ==
    ASSUME AtHome, NEW b, NEW p, NEW rec, Appended(b, p, rec), UNCHANGED size
    PROVE  AtHome'
<1> DEFINE new == [Opened(b, CountAt(b)) EXCEPT ![p] = Append(@, rec)]
<1>1. DOMAIN new \subseteq DOMAIN Opened(b, CountAt(b))
  OBVIOUS
<1>2. log' = [log EXCEPT ![b] = new]
  BY DEF Appended
<1>3. QED
  BY <1>1, <1>2, HomeKept

\* Neither the disks nor the size of the cluster change.
LEMMA HomeSame == ASSUME AtHome, UNCHANGED <<size, log>> PROVE AtHome'
BY DEF AtHome, Owner

\* A resize with care gives each partition to the broker that the new ring
\* names.
LEMMA HomeResize == ASSUME AtHome, scene.careful, Resize PROVE AtHome'
<1>1. PICK n, moved :
        /\ n \in (1 .. MaxBrokers) \ {size}
        /\ \A b \in Brokers : \A q \in DOMAIN log[b] : Owner(n, q) # b => <<b, q>> \in moved
        /\ size' = n /\ log' = [b \in Brokers |-> log'[b]]
        /\ \A b \in Brokers : DOMAIN log'[b] =
                {q \in DOMAIN log[b] : <<b, q>> \notin moved}
                    \cup {x[2] : x \in {y \in moved : Owner(n, y[2]) = b}}
  BY DEF Resize
<1>2. ASSUME NEW b \in Brokers, NEW p \in DOMAIN log'[b] PROVE Owner(n, p) = b
  <2>1. CASE p \in DOMAIN log[b] /\ <<b, p>> \notin moved
    BY <1>1, <2>1
  <2>2. CASE \E x \in moved : Owner(n, x[2]) = b /\ p = x[2]
    BY <2>2
  <2>3. QED
    BY <1>1, <1>2, <2>1, <2>2
<1>3. QED
  BY <1>1, <1>2 DEF AtHome, Owner

\* A new cluster has nothing on its disks.
LEMMA HomeInit == Init => SceneOK /\ AtHome
BY ClusterBounds DEF Init, AtHome, SceneOK

\* What the step of a client does to the disks.
LEMMA HomeClient == ASSUME AtHome, NEW c \in Clients, ClientStep(c) PROVE AtHome'
<1>1. CASE Fetched(c)
  BY <1>1, HomeKept DEF Fetched, cluster
<1>2. CASE Land(c)
  BY <1>2, HomeAppended DEF Land, cluster
<1>3. CASE Rejected(c) \/ Redirected(c)
  BY <1>3, HomeAsked DEF Rejected, Redirected, cluster
<1>4. CASE \/ Lookup(c) \/ FetchUnknown(c) \/ FetchFails(c) \/ Unavailable(c)
           \/ Route(c) \/ NextStream(c) \/ Returns(c) \/ Locate(c)
  BY <1>4, HomeSame DEF Lookup, FetchUnknown, FetchFails, Unavailable, Route, NextStream, Returns,
                        Locate, cluster, disk
<1>5. CASE ReadRejected(c)
  BY <1>5, HomeOpened DEF ReadRejected, cluster
<1>6. CASE Read(c) \/ ReadRedirected(c)
  <2>1. UNCHANGED size
        /\ log' = [log EXCEPT ![call[c].to] = Opened(call[c].to, meta[call[c].to])]
    BY <1>6 DEF Read, ReadRedirected, cluster
  <2>2. QED
    BY <2>1, HomeKept
<1>7. QED
  BY <1>1, <1>2, <1>3, <1>4, <1>5, <1>6 DEF ClientStep, ProducerStep, ConsumerStep

LEMMA HomeNext == AtHome /\ scene.careful /\ [Next]_vars => AtHome'
<1> SUFFICES ASSUME AtHome, scene.careful, [Next]_vars PROVE AtHome'
  OBVIOUS
<1>1. ASSUME NEW c \in Clients, ClientStep(c)
      PROVE  AtHome'
  BY <1>1, HomeClient
<1>2. ASSUME NEW c, \/ Send(c) \/ ReplyLost(c) \/ Abandons(c) \/ GivesUp(c)
                    \/ Consume(c) \/ ReadFails(c)
      PROVE  AtHome'
  BY <1>2, HomeSame DEF Send, ReplyLost, Abandons, GivesUp, Consume, ReadFails, cluster, disk
<1>3. ASSUME NEW m \in late, LandLate(m)
      PROVE  AtHome'
  BY <1>3, HomeAppended DEF LandLate, cluster
<1>4. ASSUME NEW b \in Brokers, Start(b) \/ Crash(b)
      PROVE  AtHome'
  BY <1>4, HomeSame DEF Start, Crash, disk
<1>5. ASSUME NEW b \in Brokers, Recover(b)
      PROVE  AtHome'
  BY <1>5, HomeOpened DEF Recover
<1>6. ASSUME NEW b \in Brokers, Create(b)
      PROVE  AtHome'
  BY <1>6, HomeKept DEF Create, cluster
<1>7. CASE StopAll
  BY <1>7, HomeSame DEF StopAll, disk
<1>8. CASE Resize
  BY <1>8, HomeResize
<1>9. CASE UNCHANGED vars
  BY <1>9, HomeSame DEF vars, cluster, disk
<1>10. QED
  BY <1>1, <1>2, <1>3, <1>4, <1>5, <1>6, <1>7, <1>8, <1>9 DEF Next, BrokerStep

\* Crashes and resizes are counted, and no step changes the care.
LEMMA SceneNext == SceneOK /\ [Next]_vars => SceneOK' /\ scene'.careful = scene.careful
<1> SUFFICES ASSUME SceneOK, [Next]_vars PROVE SceneOK' /\ scene'.careful = scene.careful
  OBVIOUS
<1>1. CASE Fault
  BY <1>1 DEF Fault, SceneOK
<1>2. CASE UNCHANGED scene
  BY <1>2 DEF SceneOK
<1>3. CASE StopAll
  BY <1>3 DEF StopAll, SceneOK
<1>4. ASSUME NEW c, ClientStep(c)
      PROVE  Fault \/ UNCHANGED scene
  BY <1>4 DEF ClientStep, ProducerStep, ConsumerStep, Lookup, Fetched, FetchUnknown, FetchFails,
              Unavailable, Route, Land, Rejected, Redirected, NextStream, Returns, Locate, Read,
              ReadRejected, ReadRedirected
<1>5. ASSUME NEW c, \/ Send(c) \/ ReplyLost(c) \/ Abandons(c) \/ GivesUp(c)
                    \/ Consume(c) \/ ReadFails(c)
      PROVE  Fault \/ UNCHANGED scene
  BY <1>5 DEF Send, ReplyLost, Abandons, GivesUp, Consume, ReadFails
<1>6. ASSUME NEW b, BrokerStep(b) \/ Create(b) \/ Crash(b)
      PROVE  Fault \/ UNCHANGED scene
  BY <1>6 DEF BrokerStep, Start, Recover, Create, Crash
<1>7. CASE (\E m \in late : LandLate(m)) \/ Resize \/ UNCHANGED vars
  BY <1>2, <1>7 DEF LandLate, Resize, vars
<1>8. QED
  BY <1>1, <1>2, <1>3, <1>4, <1>5, <1>6, <1>7 DEF Next

\* Only the owner of a partition has a directory of it (Ring.owns, the guard
\* of a misrouted request; Topic._open_locked), while the cluster runs and
\* while it is stopped for a resize.
THEOREM OnlyOwnersHold == Spec => [](scene.careful => AtHome)
<1> DEFINE Inv == SceneOK /\ (scene.careful => AtHome)
<1>1. Init => Inv
  BY HomeInit
<1>2. Inv /\ [Next]_vars => Inv'
  BY HomeNext, SceneNext
<1>3. QED
  BY <1>1, <1>2, PTL DEF Spec

\* So no partition exists on two brokers.
THEOREM PartitionsWhole == Spec => []NoSplit
<1>1. (scene.careful => AtHome) => NoSplit
  BY DEF AtHome, NoSplit
<1>2. QED
  BY <1>1, OnlyOwnersHold, PTL

\* A start finds no orphans.
LEMMA NoneForeign == ASSUME AtHome, NEW b \in Brokers PROVE Foreign(b) = {}
BY DEF AtHome, Foreign, Owns

LEMMA NoneRefusedNext == AtHome /\ NoneRefused /\ [Next]_vars => NoneRefused'
<1> SUFFICES ASSUME AtHome, NoneRefused, [Next]_vars PROVE NoneRefused'
  OBVIOUS
<1>1. ASSUME NEW b \in Brokers, NEW st, st # "refused", broker' = [broker EXCEPT ![b] = st]
      PROVE  NoneRefused'
  BY <1>1 DEF NoneRefused
<1>2. ASSUME NEW b \in Brokers, BrokerStep(b) \/ Crash(b)
      PROVE  NoneRefused'
  BY <1>1, <1>2, NoneForeign DEF BrokerStep, Start, Recover, Crash
<1>3. ASSUME NEW b \in Brokers, Create(b)
      PROVE  NoneRefused'
  BY <1>3 DEF Create, cluster, NoneRefused
<1>4. CASE StopAll
  BY <1>4 DEF StopAll, NoneRefused
<1>5. CASE Resize
  BY <1>5 DEF Resize, NoneRefused
<1>6. ASSUME NEW c, ClientStep(c)
      PROVE  UNCHANGED broker
  BY <1>6 DEF ClientStep, ProducerStep, ConsumerStep, Lookup, Fetched, FetchUnknown, FetchFails,
              Unavailable, Route, Land, Rejected, Redirected, NextStream, Returns, Locate, Read,
              ReadRejected, ReadRedirected, cluster
<1>7. ASSUME NEW c, \/ Send(c) \/ ReplyLost(c) \/ Abandons(c) \/ GivesUp(c)
                    \/ Consume(c) \/ ReadFails(c)
      PROVE  UNCHANGED broker
  BY <1>7 DEF Send, ReplyLost, Abandons, GivesUp, Consume, ReadFails, cluster
<1>8. CASE (\E m \in late : LandLate(m)) \/ UNCHANGED vars \/ UNCHANGED broker
  BY <1>8 DEF LandLate, vars, cluster, NoneRefused
<1>9. QED
  BY <1>2, <1>3, <1>4, <1>5, <1>6, <1>7, <1>8 DEF Next

\* A broker is never refused for orphans (Store.open) if every resize moves
\* each directory to the broker that the new ring names.
THEOREM NeverOrphaned == Spec => [](scene.careful => NoneRefused)
<1> DEFINE Inv == SceneOK /\ (scene.careful => AtHome /\ NoneRefused)
<1>1. Init => Inv
  BY HomeInit DEF Init, NoneRefused
<1>2. Inv /\ [Next]_vars => Inv'
  BY HomeNext, SceneNext, NoneRefusedNext
<1>3. QED
  BY <1>1, <1>2, PTL DEF Spec

-----------------------------------------------------------------------------
(* What the variables hold.                                                *)

Counts    == {Created, DefaultPartitions}
Requests  == [n : Nat, part : Parts, to : Brokers]
Responses == [from : Producers, n : Nat, key : Keys \cup {NoKey}, part : Parts, off : Nat]
CallType  == [pc : {"idle", "await", "route", "fetch", "refetch", "correct", "send", "landed",
                    "again", "read"},
              first : Nat, n : Nat, asks : Nat, to : Brokers,
              todo : SUBSET Requests, done : SUBSET Responses]
TableType == [n : Counts, size : 1 .. MaxBrokers]
LateType  == [rec : Records, part : Parts, to : Brokers]
Disk      == UNION {[D -> Seq(Records)] : D \in SUBSET Parts}

\* Where a producer is among its calls: those before are over, and the one it
\* is in covers the records that Upto says.
Between(c, k) ==
    /\ k.n \in 0 .. Len(Sends[c])
    /\ \A g \in 1 .. k.n : Upto[c][g] <= k.n
    /\ k.pc # "idle" =>
        /\ k.first \in 1 .. k.n
        /\ k.n = IF Upto[c][k.first] = 0 THEN k.first ELSE Upto[c][k.first]
        /\ \A g \in 1 .. k.first - 1 : Upto[c][g] < k.first

\* The locals of a call: requests and responses are of its own records, there
\* is a request for the broker at hand until the last has been served, and only
\* a call of send is ever tried again.
CallFits(c, k) ==
    /\ k \in CallType /\ k.asks \in 1 .. Len(Bootstrap[c])
    /\ c \in Producers => Between(c, k)
    /\ c \in Consumers => k.first = 0
    /\ \A q \in k.todo : q.n \in k.first .. k.n
    /\ \A e \in k.done : e.n \in k.first .. k.n /\ e.from = c /\ e.key = Sends[c][e.n]
    /\ k.pc \notin {"send", "landed"} => k.todo = {} /\ k.done = {}
    /\ k.pc = "send" => \E q \in k.todo : q.to = k.to
    /\ k.pc = "landed" => \A q \in k.todo : q.to # k.to
    /\ k.pc \in {"send", "landed", "again", "refetch"} => c \in Producers
    /\ k.pc \in {"read", "await", "correct"} => c \in Consumers
    /\ k.pc \in {"again", "refetch"} => Upto[c][k.first] = 0

ClusterOK ==
    /\ size \in 1 .. MaxBrokers /\ offline \in BOOLEAN
    /\ broker \in [Brokers -> {"down", "booting", "ready", "refused"}]
    /\ offline => \A b \in Brokers : broker[b] = "down"

DiskOK  == meta \in [Brokers -> Counts \cup {Absent}] /\ log \in [Brokers -> Disk]
CallsOK == call \in [Clients -> CallType] /\ \A c \in Clients : CallFits(c, call[c])
TableOK == routing \in [Clients -> TableType \cup {Unknown}]
LateOK  == late \subseteq LateType /\ \A m \in late : Accepts(m.to)
PastOK  == /\ seen \in [Consumers -> Seq(Records)]
           /\ delivered \subseteq Responses /\ lost \in [Records -> Nat]

Types == ClusterOK /\ DiskOK /\ CallsOK /\ TableOK /\ LateOK /\ PastOK /\ SceneOK

-----------------------------------------------------------------------------
(* The operators of the model.                                             *)

\* Brokers and partitions are numbers, of which there is a first.
LEMMA Numbers ==
    /\ MaxBrokers \in Nat \ {0} /\ 0 \in Brokers /\ Brokers \subseteq Nat /\ Parts \subseteq Nat
    /\ \A n \in Counts : n \in Nat \ {0} /\ 0 .. n - 1 \subseteq Parts
    /\ \A n \in 1 .. MaxBrokers : 0 .. n - 1 \subseteq Brokers
BY CreatedAssumption, SizeAssumption DEF Brokers, Parts, Counts

\* A record is named by its producer and its number.
LEMMA RecordsAre ==
    \A c, n : <<c, n>> \in Records <=> c \in Producers /\ n \in 1 .. Len(Sends[c])
<1> SUFFICES ASSUME NEW c, NEW n
             PROVE  <<c, n>> \in Records <=> c \in Producers /\ n \in 1 .. Len(Sends[c])
  OBVIOUS
<1>1. \A d \in Producers : DOMAIN Sends[d] = 1 .. Len(Sends[d])
  BY ClusterBounds
<1>2. <<c, n>> \in Records <=> \E d \in Producers : <<c, n>> \in {d} \X DOMAIN Sends[d]
  BY DEF Records
<1>3. \A d : <<c, n>> \in {d} \X DOMAIN Sends[d] <=> c = d /\ n \in DOMAIN Sends[d]
  OBVIOUS
<1> QED
  BY <1>1, <1>2, <1>3

\* What HashRing assumes is so here.
LEMMA RingsGiven ==
    Rings!VNodesAssumption /\ Rings!DigestsAssumption /\ Rings!BrokersAssumption
BY RingAssumption, SizeAssumption
   DEF Rings!VNodesAssumption, Rings!DigestsAssumption, Rings!BrokersAssumption,
       Rings!IsFiniteSet, IsFiniteSet

\* The ring names a broker of the cluster.
LEMMA OwnerIn ==
    ASSUME NEW n \in 1 .. MaxBrokers, NEW p \in Parts
    PROVE  Owner(n, p) \in 0 .. n - 1 /\ Owner(n, p) \in Brokers
<1>1. Owner(n, p) = Circle!broker_for(n, Place[p])
  BY DEF Owner, Owners
<1>2. Place[p] \in Nat
  BY RingAssumption
<1>3. Rings!Chosen
  BY RingAssumption, SizeAssumption DEF Rings!Chosen, Rings!Names, Brokers
<1>4. Rings!broker_for(n, Place[p]) \in 0 .. n - 1
  BY <1>2, <1>3, RingsGiven, Rings!OwnerInCluster
<1>5. Rings!broker_for(n, Place[p]) = Circle!broker_for(n, Place[p])
  BY DEF Rings!broker_for, Circle!broker_for, Rings!At, Circle!At, Rings!Points, Circle!Points,
         Rings!Rank, Circle!Rank, Rings!Bisect, Circle!Bisect, Rings!Less, Circle!Less,
         Rings!Cardinality, Circle!Cardinality
<1> QED
  BY <1>1, <1>4, <1>5, Numbers

\* What a partition directory holds, and nothing where there is none.
Text == [b \in Brokers |-> [p \in Parts |-> IF p \in DOMAIN log[b] THEN log[b][p] ELSE <<>>]]

\* No directory is given up.
Wider == \A b \in Brokers : DOMAIN log[b] \subseteq DOMAIN log'[b]

LEMMA DiskMembers ==
    \A f : f \in Disk <=> /\ f = [p \in DOMAIN f |-> f[p]] /\ DOMAIN f \subseteq Parts
                          /\ \A p \in DOMAIN f : f[p] \in Seq(Records)
<1> SUFFICES ASSUME NEW f
             PROVE  f \in Disk <=> /\ f = [p \in DOMAIN f |-> f[p]] /\ DOMAIN f \subseteq Parts
                                   /\ \A p \in DOMAIN f : f[p] \in Seq(Records)
  OBVIOUS
<1>1. f \in Disk <=> \E D \in SUBSET Parts : f \in [D -> Seq(Records)]
  BY DEF Disk
<1> QED
  BY <1>1

LEMMA TextType == ASSUME DiskOK PROVE Text \in [Brokers -> [Parts -> Seq(Records)]]
<1>1. ASSUME NEW b \in Brokers, NEW p \in Parts
      PROVE  (IF p \in DOMAIN log[b] THEN log[b][p] ELSE <<>>) \in Seq(Records)
  BY DiskMembers DEF DiskOK
<1> QED
  BY <1>1 DEF Text

LEMMA TextTypeNext == ASSUME DiskOK' PROVE Text' \in [Brokers -> [Parts -> Seq(Records)]]
<1>1. log' \in [Brokers -> Disk]
  BY DEF DiskOK
<1>2. ASSUME NEW b \in Brokers, NEW p \in Parts
      PROVE  (IF p \in DOMAIN log'[b] THEN log'[b][p] ELSE <<>>) \in Seq(Records)
  <2>1. PICK D \in SUBSET Parts : log'[b] \in [D -> Seq(Records)]
    BY <1>1 DEF Disk
  <2> QED
    BY <2>1
<1> QED
  BY <1>2 DEF Text

\* A disk on which one broker has changed.
LEMMA DiskChanged ==
    ASSUME DiskOK, NEW b \in Brokers, NEW new \in Disk, log' = [log EXCEPT ![b] = new],
           meta' \in [Brokers -> Counts \cup {Absent}]
    PROVE  DiskOK'
BY DEF DiskOK, Disk, Counts

\* The topic as a broker opens it: all it had, and new directories.
LEMMA OpenedIs ==
    ASSUME DiskOK, ClusterOK, NEW b \in Brokers, NEW n \in Counts
    PROVE  /\ Opened(b, n) \in Disk
           /\ DOMAIN Opened(b, n) = DOMAIN log[b] \cup {q \in 0 .. n - 1 : Owner(size, q) = b}
           /\ \A p \in DOMAIN Opened(b, n) : Opened(b, n)[p] = Text[b][p]
<1>1. log[b] \in Disk /\ DOMAIN log[b] \subseteq Parts /\ 0 .. n - 1 \subseteq Parts
  BY DiskMembers, Numbers DEF DiskOK
<1>2. DOMAIN Opened(b, n) = DOMAIN log[b] \cup {q \in 0 .. n - 1 : Owner(size, q) = b}
  BY DEF Opened, Owns
<1>3. \A p \in DOMAIN Opened(b, n) : Opened(b, n)[p] = Text[b][p]
  BY <1>1, <1>2 DEF Opened, Text, Owns
<1>4. \A p \in DOMAIN Opened(b, n) : Opened(b, n)[p] \in Seq(Records)
  BY <1>1, <1>2, <1>3, TextType
<1>5. Opened(b, n) = [p \in DOMAIN Opened(b, n) |-> Opened(b, n)[p]]
  BY <1>2 DEF Opened
<1> QED
  BY <1>1, <1>2, <1>3, <1>4, <1>5, DiskMembers

\* Opening a topic changes no record.
LEMMA OpenedText ==
    ASSUME DiskOK, ClusterOK, NEW b \in Brokers, NEW n \in Counts,
           log' = [log EXCEPT ![b] = Opened(b, n)]
    PROVE  Text' = Text /\ Wider
<1>1. /\ DOMAIN Opened(b, n) = DOMAIN log[b] \cup {q \in 0 .. n - 1 : Owner(size, q) = b}
      /\ \A p \in DOMAIN Opened(b, n) : Opened(b, n)[p] = Text[b][p]
  BY OpenedIs
<1>2. \A d \in Brokers : log'[d] = IF d = b THEN Opened(b, n) ELSE log[d]
  BY DEF DiskOK
<1>3. Wider
  BY <1>1, <1>2 DEF Wider
<1>4. ASSUME NEW d \in Brokers, NEW p \in Parts
      PROVE  (IF p \in DOMAIN log'[d] THEN log'[d][p] ELSE <<>>) = Text[d][p]
  <2>1. CASE d # b
    BY <1>2, <2>1 DEF Text
  <2>2. CASE d = b /\ p \in DOMAIN Opened(b, n)
    BY <1>1, <1>2, <2>2
  <2>3. CASE d = b /\ p \notin DOMAIN Opened(b, n)
    BY <1>1, <1>2, <2>3 DEF Text
  <2> QED
    BY <2>1, <2>2, <2>3
<1>5. Text' = Text
  BY <1>4 DEF Text
<1> QED
  BY <1>3, <1>5

\* So it is when the topic is not known, and nothing is opened.
LEMMA MayOpen ==
    ASSUME DiskOK, ClusterOK, NEW b \in Brokers, UNCHANGED meta,
           log' = [log EXCEPT ![b] = IF meta[b] = Absent THEN @ ELSE Opened(b, meta[b])]
    PROVE  DiskOK' /\ Text' = Text /\ Wider
<1>1. CASE meta[b] = Absent
  <2>1. log' = log
    BY <1>1 DEF DiskOK
  <2> QED
    BY <2>1 DEF DiskOK, Text, Wider
<1>2. CASE meta[b] # Absent
  <2>1. meta[b] \in Counts /\ log' = [log EXCEPT ![b] = Opened(b, meta[b])]
    BY <1>2 DEF DiskOK
  <2> QED
    BY <2>1, OpenedIs, OpenedText, DiskChanged DEF DiskOK
<1> QED
  BY <1>1, <1>2

LEMMA CountIs == ASSUME DiskOK, NEW b \in Brokers PROVE CountAt(b) \in Counts
BY DEF DiskOK, CountAt, Counts

\* A broker that was asked to append, and refused.
LEMMA AskedText ==
    ASSUME DiskOK, ClusterOK, NEW b \in Brokers, Asked(b)
    PROVE  DiskOK' /\ Text' = Text /\ Wider
<1>1. CountAt(b) \in Counts /\ meta' = [meta EXCEPT ![b] = CountAt(b)]
      /\ log' = [log EXCEPT ![b] = Opened(b, CountAt(b))]
  BY CountIs DEF Asked
<1>2. meta' \in [Brokers -> Counts \cup {Absent}]
  BY <1>1 DEF DiskOK
<1> QED
  BY <1>1, <1>2, OpenedIs, OpenedText, DiskChanged

\* A broker that appended: one record more, at the end of the text.
LEMMA AppendedText ==
    ASSUME DiskOK, ClusterOK, NEW b \in Brokers, NEW p \in Parts, NEW rec \in Records,
           Appended(b, p, rec)
    PROVE  /\ DiskOK' /\ Wider
           /\ Text' = [Text EXCEPT ![b][p] = Append(@, rec)]
           /\ p \in DOMAIN log'[b] /\ Owner(size, p) = b
           /\ meta'[b] = CountAt(b) /\ p < CountAt(b)
<1> DEFINE n == CountAt(b)
           old == Opened(b, n)
           new == [old EXCEPT ![p] = Append(@, rec)]
<1>1. n \in Counts /\ meta' = [meta EXCEPT ![b] = n] /\ log' = [log EXCEPT ![b] = new]
      /\ p < n /\ Owner(size, p) = b
  BY CountIs DEF Appended, Owns
<1>2. /\ old \in Disk
      /\ DOMAIN old = DOMAIN log[b] \cup {q \in 0 .. n - 1 : Owner(size, q) = b}
      /\ \A q \in DOMAIN old : old[q] = Text[b][q]
  BY <1>1, OpenedIs
<1>3. p \in DOMAIN old /\ Text[b][p] \in Seq(Records)
  BY <1>1, <1>2, Numbers, TextType DEF Counts
<1> HIDE DEF old, n
<1>4. old = [q \in DOMAIN old |-> old[q]] /\ DOMAIN old \subseteq Parts
      /\ \A q \in DOMAIN old : old[q] \in Seq(Records)
  BY <1>2, DiskMembers
<1>5. /\ DOMAIN new = DOMAIN old
      /\ \A q \in DOMAIN old : new[q] = IF q = p THEN Append(Text[b][p], rec) ELSE Text[b][q]
  BY <1>2, <1>3, <1>4
<1>6. new = [q \in DOMAIN new |-> new[q]]
  BY <1>4
<1>7. \A q \in DOMAIN new : new[q] \in Seq(Records)
  BY <1>2, <1>3, <1>4, <1>5
<1>8. new \in Disk
  BY <1>4, <1>5, <1>6, <1>7, DiskMembers
<1> HIDE DEF new
<1>9. DiskOK'
  <2>1. meta' \in [Brokers -> Counts \cup {Absent}]
    BY <1>1 DEF DiskOK
  <2> QED
    BY <1>1, <1>8, <2>1, DiskChanged
<1>10. \A d \in Brokers : log'[d] = IF d = b THEN new ELSE log[d]
  BY <1>1 DEF DiskOK
<1>11. Wider
  BY <1>2, <1>5, <1>10 DEF Wider
<1>12. ASSUME NEW d \in Brokers, NEW q \in Parts
       PROVE  (IF q \in DOMAIN log'[d] THEN log'[d][q] ELSE <<>>)
                = IF d = b /\ q = p THEN Append(Text[b][p], rec) ELSE Text[d][q]
  <2>1. CASE d # b
    BY <1>10, <2>1 DEF Text
  <2>2. CASE d = b /\ q \in DOMAIN old
    BY <1>5, <1>10, <2>2
  <2>3. CASE d = b /\ q \notin DOMAIN old
    BY <1>2, <1>3, <1>5, <1>10, <2>3 DEF Text
  <2> QED
    BY <2>1, <2>2, <2>3
<1>13. Text' = [Text EXCEPT ![b][p] = Append(@, rec)]
  <2>1. Text' = [d \in Brokers |-> [q \in Parts |->
                    IF d = b /\ q = p THEN Append(Text[b][p], rec) ELSE Text[d][q]]]
    BY <1>12 DEF Text
  <2> QED
    BY <2>1, TextType
<1>14. p \in DOMAIN log'[b] /\ meta'[b] = n
  BY <1>1, <1>3, <1>5, <1>10 DEF DiskOK
<1> QED
  BY <1>1, <1>9, <1>11, <1>13, <1>14 DEF n

\* Of some records of a call, one is the earliest: a circle of them has a least
\* point.
LEMMA LeastRequest ==
    ASSUME NEW S, S \subseteq Requests, S # {}, NEW m \in Nat, \A q \in S : q.n <= m
    PROVE  \E q \in S : \A r \in S : q.n <= r.n
<1> DEFINE T == {q.n : q \in S}
           f == [i \in T |-> <<i, 0, 0>>]
           P == {f[i] : i \in T}
<1>1. T \subseteq 0 .. m /\ T # {}
  BY DEF Requests
<1>2. IsFiniteSet(T)
  <2>1. IsFiniteSet(0 .. m)
    BY FS_Interval
  <2> QED
    BY <1>1, <2>1, FS_Subset
<1> HIDE DEF T
<1>3. IsFiniteSet(P)
  <2>1. f \in Surjection(T, P)
    BY DEF Surjection
  <2> QED
    BY <1>2, <2>1, FS_Surjection
<1>4. P # {} /\ P \in SUBSET (Nat \X Nat \X Nat)
  <2>1. \A i \in T : f[i] = <<i, 0, 0>> /\ <<i, 0, 0>> \in Nat \X Nat \X Nat
    BY <1>1
  <2> QED
    BY <1>1, <2>1
<1>5. Rings!IsFiniteSet(P)
  BY <1>3 DEF Rings!IsFiniteSet, IsFiniteSet
<1>6. PICK p \in P : \A q \in P : q = p \/ Rings!Less(p, q)
  BY <1>4, <1>5, RingsGiven, Rings!LeastPoint DEF Rings!IsCircle
<1>7. PICK i \in T : p = <<i, 0, 0>>
  BY <1>6
<1>8. ASSUME NEW j \in T PROVE i <= j
  <2>1. <<j, 0, 0>> \in P /\ i \in Nat /\ j \in Nat
    BY <1>1
  <2>2. <<j, 0, 0>> = <<i, 0, 0>> \/ Rings!Less(<<i, 0, 0>>, <<j, 0, 0>>)
    BY <1>6, <1>7, <2>1
  <2>3. i = j \/ i < j
    BY <2>1, <2>2 DEF Rings!Less
  <2> QED
    BY <2>1, <2>3
<1>9. PICK q \in S : q.n = i
  BY DEF T
<1> QED
  BY <1>8, <1>9 DEF T

LEMMA CurrentIs ==
    ASSUME CallsOK, NEW c \in Clients, call[c].pc = "send"
    PROVE  /\ Current(c) \in call[c].todo /\ Current(c) \in Requests
           /\ Current(c).to = call[c].to
           /\ \A r \in call[c].todo : r.to = call[c].to => Current(c).n <= r.n
<1>1. Group(c) \subseteq Requests /\ Group(c) # {}
  BY DEF CallsOK, CallFits, CallType, Group
<1>2. call[c].n \in Nat /\ \A q \in Group(c) : q.n <= call[c].n
  BY DEF CallsOK, CallFits, CallType, Group, Requests
<1>3. \E q \in Group(c) : \A r \in Group(c) : q.n <= r.n
  BY <1>1, <1>2, LeastRequest
<1>4. Current(c) \in Group(c) /\ \A r \in Group(c) : Current(c).n <= r.n
  BY <1>3 DEF Current
<1> QED
  BY <1>1, <1>4 DEF Group

\* Only the call of one client changes, and into one that fits.
Only(c) == call' = [d \in Clients |-> call'[d]] /\ \A d \in Clients : d # c => call'[d] = call[d]

LEMMA CallStep ==
    ASSUME CallsOK, NEW c \in Clients, Only(c), CallFits(c, call'[c])
    PROVE  CallsOK'
<1>1. \A d \in Clients : CallFits(d, call'[d])
  BY DEF Only, CallsOK
<1>2. \A d \in Clients : call'[d] \in CallType
  BY <1>1 DEF CallFits
<1> QED
  BY <1>1, <1>2 DEF Only, CallsOK

LEMMA EndFits ==
    ASSUME CallsOK, NEW c \in Clients
    PROVE  CallFits(c, Ended(c))
<1>1. 1 \in 1 .. Len(Bootstrap[c])
  BY BootstrapAssumption
<1>2. CallFits(c, call[c]) /\ call[c] \in CallType
  BY DEF CallsOK
<1>3. Ended(c) = [pc |-> "idle", first |-> 0, n |-> call[c].n, asks |-> 1, to |-> 0,
                  todo |-> {}, done |-> {}]
  BY DEF Ended, Idle
<1> QED
  BY <1>1, <1>2, <1>3, Numbers DEF CallFits, CallType, Between

\* A call without requests and responses, in the course of the same records.
Quiet(c) ==
    /\ Only(c) /\ call'[c].todo = {} /\ call'[c].done = {} /\ call'[c].n = call[c].n
    /\ \/ call'[c].pc = "idle" \/ c \in Consumers
       \/ call[c].pc # "idle" /\ call'[c].first = call[c].first

LEMMA EndStep ==
    ASSUME CallsOK, NEW c \in Clients, End(c)
    PROVE  CallsOK' /\ Quiet(c) /\ call'[c] = Ended(c)
<1>1. Only(c) /\ call'[c] = Ended(c)
  BY DEF End, Only, CallsOK
<1> QED
  BY <1>1, EndFits, CallStep DEF Quiet, Ended, Idle

\* A send starts over, and goes back to its table or fetches it first.
LEMMA AgainStep ==
    ASSUME CallsOK, NEW c \in Producers, call[c].pc \in {"send", "landed"}, ~ Batch(c),
           NEW pc \in {"again", "refetch"}, Again(c, pc)
    PROVE  CallsOK' /\ Quiet(c) /\ call'[c].pc = pc
<1>1. 1 \in 1 .. Len(Bootstrap[c]) /\ c \in Clients
  BY BootstrapAssumption DEF Clients
<1>2. CallFits(c, call[c]) /\ call[c] \in CallType
  BY <1>1 DEF CallsOK
<1>3. call'[c] = [call[c] EXCEPT !.pc = pc, !.asks = 1, !.todo = {}, !.done = {}]
  BY <1>1 DEF Again, CallsOK
<1>4. Only(c)
  BY <1>1 DEF Again, Only, CallsOK
<1>5. call'[c] = [pc |-> pc, first |-> call[c].first, n |-> call[c].n, asks |-> 1,
                  to |-> call[c].to, todo |-> {}, done |-> {}]
  BY <1>2, <1>3 DEF CallType
<1>6. Upto[c][call[c].first] = 0
  <2>1. call[c].first \in 1 .. call[c].n /\ call[c].n \in 0 .. Len(Sends[c])
    BY <1>2 DEF CallFits, Between
  <2>2. call[c].first \in DOMAIN Sends[c] /\ Upto[c][call[c].first] \in Nat
    BY <2>1, ClusterBounds, CallsAssumption
  <2> QED
    BY <2>1, <2>2 DEF Batch
<1>7. c \notin Consumers
  BY ClientAssumption
<1>8. CallFits(c, call'[c])
  BY <1>1, <1>2, <1>5, <1>6, <1>7 DEF CallFits, CallType, Between
<1>9. CallsOK'
  BY <1>1, <1>4, <1>8, CallStep
<1> QED
  BY <1>4, <1>5, <1>9 DEF Quiet

\* A call that only moves on, without requests.
Goes(c, pc, asks, to) ==
    /\ Only(c) /\ call'[c] = [call[c] EXCEPT !.pc = pc, !.asks = asks, !.to = to]
    /\ call[c].pc \notin {"send", "landed"} /\ (call[c].pc # "idle" \/ c \in Consumers)
    /\ \/ pc \in {"route", "fetch"}
       \/ pc \in {"again", "refetch"} /\ call[c].pc = "refetch"
       \/ pc \in {"read", "await", "correct"} /\ c \in Consumers

LEMMA GotoStep ==
    ASSUME CallsOK, NEW c \in Clients, NEW asks \in 1 .. Len(Bootstrap[c]), NEW to \in Brokers,
           NEW pc \in {"await", "route", "fetch", "refetch", "correct", "again", "read"},
           Goes(c, pc, asks, to)
    PROVE  CallsOK' /\ Quiet(c) /\ call'[c].pc = pc
<1>1. CallFits(c, call[c]) /\ call[c] \in CallType
  BY DEF CallsOK
<1>2. call[c].todo = {} /\ call[c].done = {}
  BY <1>1 DEF CallFits, Goes
<1>4. call'[c] = [pc |-> pc, first |-> call[c].first, n |-> call[c].n, asks |-> asks, to |-> to,
                  todo |-> {}, done |-> {}]
  BY <1>1, <1>2 DEF CallType, Goes
<1>5. c \in Producers => c \notin Consumers
  BY ClientAssumption
<1>6. c \in Clients => c \in Producers \/ c \in Consumers
  BY DEF Clients
<1>7. call'[c] \in CallType /\ call'[c].asks \in 1 .. Len(Bootstrap[c])
  <2>1. asks \in Nat /\ pc \in {"await", "route", "fetch", "refetch", "correct", "again", "read"}
    BY BootstrapAssumption
  <2> QED
    BY <1>1, <1>4, <2>1 DEF CallType
<1>8. CallFits(c, call'[c])
  BY <1>1, <1>4, <1>5, <1>6, <1>7 DEF CallFits, Between, Goes
<1>9. CallsOK'
  BY <1>8, CallStep DEF Goes
<1>10. /\ call'[c].pc = pc /\ call'[c].first = call[c].first /\ call'[c].n = call[c].n
       /\ call'[c].todo = {} /\ call'[c].done = {}
  BY ONLY <1>4
<1> QED
  BY <1>9, <1>10 DEF Quiet, Goes

-----------------------------------------------------------------------------
(* What each step does to the calls.                                       *)

\* Another address.
LEMMA NextAddressStep ==
    ASSUME CallsOK, NEW c \in Clients, Fetching(c), call' = [call EXCEPT ![c] = NextAddress(c)]
    PROVE  CallsOK' /\ Quiet(c)
<1>1. CallFits(c, call[c]) /\ call[c] \in CallType /\ call[c].asks \in 1 .. Len(Bootstrap[c])
  BY DEF CallsOK, CallFits
<1>2. CASE call[c].asks < Len(Bootstrap[c])
  <2> DEFINE asks == call[c].asks + 1
             pc   == call[c].pc
             to   == call[c].to
  <2>1. asks \in 1 .. Len(Bootstrap[c]) /\ to \in Brokers
    BY <1>1, <1>2, BootstrapAssumption DEF CallType
  <2>2. call' = [call EXCEPT ![c] = [call[c] EXCEPT !.asks = asks]]
    BY <1>2 DEF NextAddress
  <2>3. Only(c) /\ call'[c] = [call[c] EXCEPT !.asks = asks]
    BY <2>2 DEF Only, CallsOK
  <2>4. call'[c] = [call[c] EXCEPT !.pc = pc, !.asks = asks, !.to = to]
    BY <1>1, <2>3 DEF CallType
  <2>5. pc \in {"fetch", "refetch", "await", "correct"}
        /\ (pc \in {"await", "correct"} => c \in Consumers)
    BY <1>1 DEF Fetching, CallFits
  <2> HIDE DEF asks, pc, to
  <2>6. pc = call[c].pc
    BY DEF pc
  <2>7. Goes(c, pc, asks, to)
    BY <2>3, <2>4, <2>5, <2>6 DEF Goes
  <2> QED
    BY <2>1, <2>5, <2>7, GotoStep
<1>3. CASE ~ (call[c].asks < Len(Bootstrap[c]))
  <2>1. End(c)
    BY <1>3 DEF NextAddress, End
  <2> QED
    BY <2>1, EndStep
<1> QED
  BY <1>2, <1>3

\* A step from pc to pc, and nothing else.
LEMMA PcStep ==
    ASSUME CallsOK, NEW c \in Clients,
           NEW pc \in {"await", "route", "fetch", "refetch", "correct", "again", "read"},
           Goto(c, pc), call[c].pc \notin {"send", "landed"},
           \/ pc = "route"
           \/ pc = "again" /\ call[c].pc = "refetch"
           \/ pc \in {"read", "await", "correct"} /\ c \in Consumers,
           call[c].pc # "idle" \/ c \in Consumers
    PROVE  CallsOK' /\ Quiet(c)
<1>1. call[c] \in CallType /\ call[c].asks \in 1 .. Len(Bootstrap[c]) /\ call[c].to \in Brokers
  BY DEF CallsOK, CallFits, CallType
<1>2. Only(c) /\ call'[c] = [call[c] EXCEPT !.pc = pc]
  BY DEF Goto, Only, CallsOK
<1>3. call'[c] = [call[c] EXCEPT !.pc = pc, !.asks = call[c].asks, !.to = call[c].to]
  BY <1>1, <1>2 DEF CallType
<1>4. Goes(c, pc, call[c].asks, call[c].to)
  BY <1>2, <1>3 DEF Goes
<1> QED
  BY <1>1, <1>4, GotoStep

\* A step from pc to pc, with the first address to ask.
LEMMA AskStep ==
    ASSUME CallsOK, NEW c \in Clients, NEW pc \in {"await", "fetch", "correct"},
           Only(c), call'[c] = [call[c] EXCEPT !.pc = pc, !.asks = 1],
           call[c].pc \notin {"send", "landed", "idle"},
           pc = "fetch" \/ c \in Consumers
    PROVE  CallsOK' /\ Quiet(c)
<1>1. call[c] \in CallType /\ 1 \in 1 .. Len(Bootstrap[c]) /\ call[c].to \in Brokers
  BY BootstrapAssumption DEF CallsOK, CallFits, CallType
<1>2. call'[c] = [call[c] EXCEPT !.pc = pc, !.asks = 1, !.to = call[c].to]
  BY <1>1 DEF CallType
<1>3. Goes(c, pc, 1, call[c].to)
  BY <1>2 DEF Goes
<1> QED
  BY <1>1, <1>3, GotoStep

LEMMA LookupCalls == ASSUME CallsOK, NEW c \in Clients, Lookup(c) PROVE CallsOK' /\ Quiet(c)
<1>1. Only(c) /\ call'[c] = [call[c] EXCEPT !.pc = "fetch", !.asks = 1]
  BY DEF Lookup, Only, CallsOK
<1>2. call[c].pc \notin {"send", "landed", "idle"}
  BY DEF Lookup
<1> QED
  BY <1>1, <1>2, AskStep

LEMMA FetchedCalls == ASSUME CallsOK, NEW c \in Clients, Fetched(c) PROVE CallsOK' /\ Quiet(c)
<1>1. call[c].pc \in {"fetch", "refetch", "await", "correct"}
  BY DEF Fetched, Fetching
<1>2. CASE Goto(c, "route")
  BY <1>1, <1>2, PcStep
<1>3. CASE call[c].pc = "refetch" /\ Goto(c, "again")
  BY <1>3, PcStep
<1>4. CASE End(c)
  BY <1>4, EndStep
<1> QED
  BY <1>2, <1>3, <1>4 DEF Fetched

LEMMA FetchUnknownCalls ==
    ASSUME CallsOK, NEW c \in Clients, FetchUnknown(c) PROVE CallsOK' /\ Quiet(c)
<1>1. CASE End(c)
  BY <1>1, EndStep
<1>2. CASE call[c].pc = "await" /\ call' = [call EXCEPT ![c].asks = 1]
  <2>1. Only(c) /\ call'[c] = [call[c] EXCEPT !.asks = 1] /\ c \in Consumers /\ call[c] \in CallType
    BY <1>2, ZenonT(40) DEF Only, CallsOK, CallFits
  <2>2. call'[c] = [call[c] EXCEPT !.pc = "await", !.asks = 1]
    BY <1>2, <2>1 DEF CallType
  <2> QED
    BY <1>2, <2>1, <2>2, AskStep
<1> QED
  BY <1>1, <1>2 DEF FetchUnknown

LEMMA FetchFailsCalls ==
    ASSUME CallsOK, NEW c \in Clients, FetchFails(c) PROVE CallsOK' /\ Quiet(c)
BY NextAddressStep DEF FetchFails

\* A call that is not of a stream is of a producer, and not of a batch.
LEMMA NotStream == ASSUME NEW c \in Clients, ~ Stream(c) PROVE c \in Producers /\ ~ Batch(c)
BY DEF Stream, Clients

LEMMA UnavailableCalls ==
    ASSUME CallsOK, NEW c \in Clients, Unavailable(c) PROVE CallsOK' /\ Quiet(c)
<1>1. CASE Stream(c)
  BY <1>1, EndStep DEF Unavailable
<1>2. CASE ~ Stream(c)
  <2>1. c \in Producers /\ ~ Batch(c) /\ Again(c, "again")
    BY <1>2, NotStream DEF Unavailable
  <2>2. call[c].pc = "send"
    <3>1. call[c].pc = "read" => c \in Consumers
      BY DEF CallsOK, CallFits
    <3> QED
      BY <2>1, <3>1, ClientAssumption DEF Unavailable
  <2> QED
    BY <2>1, <2>2, AgainStep
<1> QED
  BY <1>1, <1>2

LEMMA RedirectedCalls ==
    ASSUME CallsOK, NEW c \in Producers, Redirected(c) PROVE CallsOK' /\ Quiet(c)
<1>1. CASE Batch(c)
  BY <1>1, EndStep DEF Redirected, Clients
<1>2. CASE ~ Batch(c)
  BY <1>2, AgainStep DEF Redirected, WrongBroker
<1> QED
  BY <1>1, <1>2

LEMMA NoAnswerCalls ==
    ASSUME CallsOK, NEW c \in Producers, call[c].pc \in {"send", "landed"}, NoAnswer(c)
    PROVE  CallsOK' /\ Quiet(c)
<1>1. CASE End(c)
  BY <1>1, EndStep DEF Clients
<1>2. CASE ~ Batch(c) /\ Again(c, "again")
  BY <1>2, AgainStep
<1> QED
  BY <1>1, <1>2 DEF NoAnswer

LEMMA LocateCalls ==
    ASSUME CallsOK, TableOK, NEW c \in Consumers, Locate(c) PROVE CallsOK' /\ Quiet(c)
<1>1. c \in Clients /\ Watch[c] \in Parts
  BY ClientAssumption DEF Clients
<1>2. CASE Watch[c] < routing[c].n
  <2>1. routing[c].size \in 1 .. MaxBrokers
    BY <1>1 DEF Locate, TableOK, TableType
  <2>2. PICK to \in Brokers : to = Owner(routing[c].size, Watch[c])
    BY <1>1, <2>1, OwnerIn
  <2>3. Only(c) /\ call'[c] = [call[c] EXCEPT !.pc = "read", !.to = to] /\ call[c] \in CallType
    BY <1>1, <1>2, <2>2 DEF Locate, Only, CallsOK
  <2>4. call[c].asks \in 1 .. Len(Bootstrap[c])
    BY <1>1 DEF CallsOK, CallFits
  <2>5. call'[c] = [call[c] EXCEPT !.pc = "read", !.asks = call[c].asks, !.to = to]
    BY <2>3 DEF CallType
  <2>6. call[c].pc = "route"
    BY DEF Locate
  <2>7. Goes(c, "read", call[c].asks, to)
    BY <2>3, <2>5, <2>6 DEF Goes
  <2> QED
    BY <1>1, <2>4, <2>7, GotoStep
<1>3. CASE End(c)
  BY <1>1, <1>3, EndStep
<1> QED
  BY <1>2, <1>3 DEF Locate

LEMMA ReadRedirectedCalls ==
    ASSUME CallsOK, NEW c \in Consumers, ReadRedirected(c) PROVE CallsOK' /\ Quiet(c)
<1>1. c \in Clients /\ call[c].pc = "read"
  BY DEF Clients, ReadRedirected, Reading
<1>2. Only(c) /\ call'[c] = [call[c] EXCEPT !.pc = "correct", !.asks = 1]
  BY <1>1 DEF ReadRedirected, Only, CallsOK
<1> QED
  BY <1>1, <1>2, AskStep

LEMMA ReadCalls ==
    ASSUME CallsOK, NEW c \in Consumers, Read(c) PROVE CallsOK' /\ Quiet(c)
<1>1. c \in Clients /\ call[c].pc = "read"
  BY DEF Clients, Read, Reading
<1>2. CASE End(c)
  BY <1>1, <1>2, EndStep
<1>3. CASE UNCHANGED call
  BY <1>1, <1>3 DEF CallsOK, CallFits, Quiet, Only
<1> QED
  BY <1>2, <1>3 DEF Read

LEMMA ConsumeCalls ==
    ASSUME CallsOK, NEW c \in Consumers, Consume(c) PROVE CallsOK' /\ Quiet(c)
<1>1. c \in Clients /\ call[c].pc = "idle"
  BY DEF Clients, Consume
<1> QED
  BY <1>1, PcStep DEF Consume

\* The next call begins after the one before it.
LEMMA SendCalls ==
    ASSUME CallsOK, NEW c \in Producers, Send(c)
    PROVE  /\ CallsOK' /\ Only(c) /\ call'[c].todo = {} /\ call'[c].done = {}
           /\ call'[c].pc = "route" /\ call[c].pc = "idle"
           /\ call'[c].first = call[c].n + 1 /\ call'[c].n > call[c].n
<1> DEFINE n == call[c].n + 1
           m == IF Upto[c][n] = 0 THEN n ELSE Upto[c][n]
<1>1. c \in Clients /\ c \notin Consumers
  BY ClientAssumption DEF Clients
<1>2. CallFits(c, call[c]) /\ call[c] \in CallType /\ Between(c, call[c])
  BY <1>1 DEF CallsOK, CallFits
<1>3. PICK len \in Nat : len = Len(Sends[c]) /\ DOMAIN Sends[c] = 1 .. len
  BY ClusterBounds
<1>4. call[c].n \in Nat /\ n \in 1 .. len /\ \A g \in 1 .. n - 1 : Upto[c][g] < n
  BY <1>2, <1>3, CallsAssumption DEF Send, Between
<1>5. \A g \in 1 .. len : Upto[c][g] \in 0 .. len
  BY <1>3, CallsAssumption
<1>6. Upto[c][n] # 0 => n <= Upto[c][n] /\ \A g \in n + 1 .. Upto[c][n] : Upto[c][g] = 0
  BY <1>3, <1>4, CallsAssumption
<1>7. m \in n .. len
  BY <1>4, <1>5, <1>6
<1>8. \A g \in 1 .. m : Upto[c][g] <= m
  BY <1>3, <1>4, <1>5, <1>6, <1>7
<1>9. call' = [call EXCEPT ![c] = [Idle EXCEPT !.pc = "route", !.first = n, !.n = m]]
  BY DEF Send
<1> HIDE DEF m
<1>10. Only(c)
  BY <1>9 DEF Only, CallsOK
<1>11. call'[c] = [pc |-> "route", first |-> n, n |-> m, asks |-> 1, to |-> 0,
                   todo |-> {}, done |-> {}]
  BY <1>1, <1>9 DEF CallsOK, Idle
<1>12. call'[c] \in CallType /\ 1 \in 1 .. Len(Bootstrap[c])
  BY <1>1, <1>4, <1>7, <1>11, Numbers, BootstrapAssumption DEF CallType
<1>13. Between(c, call'[c])
  BY <1>3, <1>4, <1>7, <1>8, <1>11 DEF Between, m
<1>14. CallFits(c, call'[c])
  BY <1>1, <1>11, <1>12, <1>13 DEF CallFits
<1>15. CallsOK'
  BY <1>1, <1>10, <1>14, CallStep
<1>16. call[c].pc = "idle"
  BY DEF Send
<1> QED
  BY <1>4, <1>7, <1>10, <1>11, <1>15, <1>16

\* The requests for the records of a call, by a plan of their partitions.
Planned(c, plan) ==
    /\ plan \in [call[c].first .. call[c].n -> Parts]
    /\ \A n \in call[c].first .. call[c].n : plan[n] \in PartitionFor(Sends[c][n], routing[c].n)
    /\ call'[c].todo = {Request(c, n, plan[n]) : n \in call[c].first .. call[c].n}

LEMMA RouteCalls ==
    ASSUME CallsOK, TableOK, NEW c \in Producers, Route(c)
    PROVE  /\ CallsOK' /\ Only(c) /\ call'[c].done = {}
           /\ call'[c].pc = "send" /\ call[c].pc \in {"route", "again"}
           /\ call'[c].first = call[c].first /\ call'[c].n = call[c].n
           /\ routing[c] \in TableType
           /\ \E plan : Planned(c, plan)
<1>1. c \in Clients /\ c \notin Consumers
  BY ClientAssumption DEF Clients
<1>2. CallFits(c, call[c]) /\ call[c] \in CallType /\ Between(c, call[c])
  BY <1>1 DEF CallsOK, CallFits
<1>3. call[c].pc \in {"route", "again"} /\ routing[c] \in TableType /\ routing[c].size \in 1 .. MaxBrokers
  BY <1>1 DEF Route, TableOK, TableType
<1>4. call[c].done = {} /\ call[c].first \in 1 .. call[c].n /\ call[c].n \in Nat
  BY <1>2, <1>3 DEF CallFits, Between, CallType
<1>5. PICK plan \in [call[c].first .. call[c].n -> Parts] :
        /\ \A n \in DOMAIN plan : plan[n] \in PartitionFor(Sends[c][n], routing[c].n)
        /\ call' = [call EXCEPT ![c].pc = "send",
                        ![c].to = Owner(routing[c].size, plan[call[c].first]),
                        ![c].todo = {Request(c, n, plan[n]) : n \in DOMAIN plan}]
  BY DEF Route
<1> DEFINE to   == Owner(routing[c].size, plan[call[c].first])
           todo == {Request(c, n, plan[n]) : n \in call[c].first .. call[c].n}
<1>6. DOMAIN plan = call[c].first .. call[c].n
  OBVIOUS
<1>7. to \in Brokers
  BY <1>3, <1>4, OwnerIn
<1>8. \A n \in call[c].first .. call[c].n :
        /\ Request(c, n, plan[n]).n = n /\ Request(c, n, plan[n]).to = Owner(routing[c].size, plan[n])
        /\ Request(c, n, plan[n]) \in Requests
  BY <1>2, <1>3, <1>4, OwnerIn DEF Request, Requests, CallType
<1>9. \A q \in todo : q \in Requests /\ q.n \in call[c].first .. call[c].n
  BY <1>8
<1>10. \E q \in todo : q.to = to
  BY <1>4, <1>8
<1>11. call'[c] = [call[c] EXCEPT !.pc = "send", !.to = to, !.todo = todo]
  BY <1>1, <1>5, <1>6 DEF CallsOK
<1>12. Only(c)
  BY <1>1, <1>5 DEF Only, CallsOK
<1> HIDE DEF to, todo
<1>13. call'[c] = [pc |-> "send", first |-> call[c].first, n |-> call[c].n, asks |-> call[c].asks,
                   to |-> to, todo |-> todo, done |-> {}]
  BY <1>2, <1>4, <1>11 DEF CallType
<1>14. call'[c] \in CallType
  BY <1>2, <1>7, <1>9, <1>13 DEF CallType
<1>15. CallFits(c, call'[c])
  BY <1>1, <1>2, <1>3, <1>9, <1>10, <1>13, <1>14 DEF CallFits, Between
<1>16. CallsOK'
  BY <1>1, <1>12, <1>15, CallStep
<1>17. Planned(c, plan)
  BY <1>5, <1>6, <1>13 DEF Planned, todo
<1> QED
  BY <1>3, <1>12, <1>13, <1>16, <1>17

\* The answer to request q of c, when the log is as it is now.
Response(c, q) ==
    [from |-> c, n |-> q.n, key |-> Sends[c][q.n], part |-> q.part, off |-> Len(Text[q.to][q.part])]

LEMMA LandCalls ==
    ASSUME CallsOK, DiskOK, NEW c \in Producers, Land(c), NEW q, q = Current(c)
    PROVE  /\ CallsOK' /\ Only(c) /\ q \in Requests /\ q \in call[c].todo /\ q.to = call[c].to
           /\ call'[c].todo = call[c].todo \ {q}
           /\ call'[c].done = call[c].done \cup {Response(c, q)}
           /\ call[c].pc = "send" /\ call'[c].first = call[c].first /\ call'[c].n = call[c].n
           /\ call'[c].to = call[c].to
           /\ call'[c].pc = IF Group(c) = {q} THEN "landed" ELSE "send"
           /\ <<c, q.n>> \in Records
           /\ \A r \in call[c].todo : r.to = call[c].to => q.n <= r.n
<1>1. c \in Clients /\ c \notin Consumers
  BY ClientAssumption DEF Clients
<1>2. CallFits(c, call[c]) /\ call[c] \in CallType /\ Between(c, call[c])
  BY <1>1 DEF CallsOK, CallFits
<1>3. call[c].pc = "send"
  BY DEF Land
<1>4. q \in Requests /\ q \in call[c].todo /\ q.to = call[c].to
      /\ \A r \in call[c].todo : r.to = call[c].to => q.n <= r.n
  BY <1>1, <1>3, CurrentIs
<1> DEFINE pc == IF Group(c) = {q} THEN "landed" ELSE "send"
<1>5. Offset(q.to, q.part) = Len(Text[q.to][q.part])
  <2>1. q.to \in Brokers /\ q.part \in Parts /\ Len(<<>>) = 0
    BY <1>4 DEF Requests
  <2> QED
    BY <2>1 DEF Offset, Text
<1>6. call'[c] = [call[c] EXCEPT !.pc = pc, !.todo = @ \ {q}, !.done = @ \cup {Response(c, q)}]
  BY <1>1, <1>4, <1>5 DEF Land, CallsOK, Response
<1>7. Only(c)
  BY <1>1 DEF Land, Only, CallsOK
<1>8. call'[c] = [pc |-> pc, first |-> call[c].first, n |-> call[c].n, asks |-> call[c].asks,
                  to |-> call[c].to, todo |-> call[c].todo \ {q},
                  done |-> call[c].done \cup {Response(c, q)}]
  BY <1>2, <1>6 DEF CallType
<1>9. q.n \in call[c].first .. call[c].n /\ call[c].first \in 1 .. call[c].n
      /\ call[c].n \in 0 .. Len(Sends[c])
  BY <1>2, <1>3, <1>4 DEF CallFits, Between
<1>10. q.n \in 1 .. Len(Sends[c]) /\ Sends[c][q.n] \in Keys \cup {NoKey}
  BY <1>9, ClusterBounds
<1>11. Response(c, q) \in Responses /\ Response(c, q).n = q.n /\ Response(c, q).from = c
       /\ Response(c, q).key = Sends[c][q.n]
  <2>1. Len(Text[q.to][q.part]) \in Nat
    BY <1>4, TextType DEF Requests
  <2> QED
    BY <1>4, <1>10, <2>1 DEF Response, Responses, Requests
<1>12. pc = "send" => \E r \in call[c].todo \ {q} : r.to = call[c].to
  BY <1>4 DEF Group
<1>13. pc = "landed" => \A r \in call[c].todo \ {q} : r.to # call[c].to
  BY DEF Group
<1>14. pc \in {"send", "landed"}
  OBVIOUS
<1> HIDE DEF pc
<1>15. call'[c] \in CallType
  BY <1>2, <1>8, <1>11, <1>14 DEF CallType
<1>16. CallFits(c, call'[c])
  BY <1>1, <1>2, <1>3, <1>8, <1>9, <1>11, <1>12, <1>13, <1>14, <1>15 DEF CallFits, Between
<1>17. CallsOK'
  BY <1>1, <1>7, <1>16, CallStep
<1>18. <<c, q.n>> \in Records
  BY <1>10, RecordsAre
<1> QED
  BY <1>3, <1>4, <1>7, <1>8, <1>17, <1>18 DEF pc

LEMMA NextStreamCalls ==
    ASSUME CallsOK, NEW c \in Producers, NextStream(c)
    PROVE  /\ CallsOK' /\ Only(c)
           /\ call'[c].todo = call[c].todo /\ call'[c].done = call[c].done
           /\ call[c].pc = "landed" /\ call'[c].pc = "send"
           /\ call'[c].first = call[c].first /\ call'[c].n = call[c].n
           /\ call'[c].to # call[c].to
<1>1. c \in Clients /\ c \notin Consumers
  BY ClientAssumption DEF Clients
<1>2. CallFits(c, call[c]) /\ call[c] \in CallType /\ Between(c, call[c])
  BY <1>1 DEF CallsOK, CallFits
<1>3. call[c].pc = "landed" /\ call[c].todo # {} /\ call[c].todo \subseteq Requests
  BY <1>2 DEF NextStream, CallType
<1>4. \E q \in call[c].todo : \A r \in call[c].todo : q.n <= r.n
  <2>1. call[c].n \in Nat /\ \A q \in call[c].todo : q.n <= call[c].n
    BY <1>2 DEF CallFits, CallType
  <2> QED
    BY <1>3, <2>1, LeastRequest
<1>5. PICK q \in call[c].todo : call' = [call EXCEPT ![c].pc = "send", ![c].to = q.to]
  BY <1>4 DEF NextStream
<1>6. call'[c] = [call[c] EXCEPT !.pc = "send", !.to = q.to] /\ Only(c)
  BY <1>1, <1>5 DEF CallsOK, Only
<1>7. call'[c] = [pc |-> "send", first |-> call[c].first, n |-> call[c].n, asks |-> call[c].asks,
                  to |-> q.to, todo |-> call[c].todo, done |-> call[c].done]
  BY <1>2, <1>6 DEF CallType
<1>8. q.to \in Brokers /\ q.to # call[c].to
  BY <1>2, <1>3, <1>5 DEF CallFits, Requests
<1>9. call'[c] \in CallType
  BY <1>2, <1>7, <1>8 DEF CallType
<1>10. CallFits(c, call'[c])
  <2>1. Between(c, call'[c])
    BY <1>2, <1>3, <1>7 DEF Between
  <2>2. \E r \in call'[c].todo : r.to = call'[c].to
    BY <1>5, <1>7
  <2>3. call'[c].pc = "send" /\ call'[c].asks = call[c].asks /\ call'[c].todo = call[c].todo
        /\ call'[c].done = call[c].done /\ call'[c].first = call[c].first /\ call'[c].n = call[c].n
    BY <1>7
  <2> QED
    BY <1>1, <1>2, <1>9, <2>1, <2>2, <2>3 DEF CallFits
<1>11. CallsOK'
  BY <1>1, <1>6, <1>10, CallStep
<1> QED
  BY <1>3, <1>6, <1>7, <1>8, <1>11

\* A broker that stops ends the streams it has, and keeps no request.
LEMMA CutOffCalls ==
    ASSUME CallsOK, NEW stopped, CutOff(stopped)
    PROVE  /\ CallsOK'
           /\ \A c \in Clients :
                call'[c] = IF Stream(c) /\ call[c].pc \in {"send", "read"} /\ call[c].to \in stopped
                           THEN Ended(c) ELSE call[c]
<1>1. \A c \in Clients :
        call'[c] = IF Stream(c) /\ call[c].pc \in {"send", "read"} /\ call[c].to \in stopped
                   THEN Ended(c) ELSE call[c]
  BY DEF CutOff
<1>2. call' = [c \in Clients |-> call'[c]]
  BY DEF CutOff
<1>3. \A c \in Clients : CallFits(c, call'[c])
  BY <1>1, EndFits DEF CallsOK
<1>4. \A c \in Clients : call'[c] \in CallType
  BY <1>3 DEF CallFits
<1> QED
  BY <1>1, <1>2, <1>3, <1>4 DEF CallsOK

-----------------------------------------------------------------------------
(* What each step does to the disks.                                       *)

\* The logs read as before, and no directory is gone.
Untouched == DiskOK' /\ Text' = Text /\ Wider

LEMMA DiskSame == ASSUME DiskOK, UNCHANGED disk PROVE Untouched
BY DEF DiskOK, disk, Untouched, Text, Wider

LEMMA OpenedUntouched ==
    ASSUME DiskOK, ClusterOK, NEW b \in Brokers, meta[b] # Absent, UNCHANGED meta,
           log' = [log EXCEPT ![b] = Opened(b, meta[b])]
    PROVE  Untouched
<1>1. meta[b] \in Counts
  BY DEF DiskOK
<1> QED
  BY <1>1, OpenedText, OpenedIs, DiskChanged DEF Untouched, DiskOK

LEMMA AskedIn == ASSUME CallsOK, NEW c \in Clients PROVE AskedBroker(c) \in Brokers
<1>1. call[c].asks \in 1 .. Len(Bootstrap[c]) /\ Bootstrap[c] \in Seq(Brokers)
  BY BootstrapAssumption DEF CallsOK, CallFits
<1> QED
  BY <1>1 DEF AskedBroker

LEMMA ToIn == ASSUME CallsOK, NEW c \in Clients PROVE call[c].to \in Brokers
BY DEF CallsOK, CallType

\* The steps of a client, but for an append, leave the records alone.
LEMMA ClientDisk ==
    ASSUME ClusterOK, DiskOK, CallsOK, NEW c \in Clients, ClientStep(c),
           ~ (c \in Producers /\ Land(c))
    PROVE  Untouched
<1>1. CASE \/ Lookup(c) \/ FetchUnknown(c) \/ FetchFails(c) \/ Unavailable(c)
           \/ Route(c) \/ NextStream(c) \/ Returns(c) \/ Locate(c)
  BY <1>1, DiskSame DEF Lookup, FetchUnknown, FetchFails, Unavailable, Route, NextStream, Returns,
                        Locate
<1>2. CASE Fetched(c)
  BY <1>2, AskedIn, OpenedUntouched DEF Fetched
<1>3. CASE Rejected(c) \/ Redirected(c)
  BY <1>3, ToIn, AskedText DEF Rejected, Redirected, Untouched
<1>4. CASE ReadRejected(c)
  BY <1>4, ToIn, MayOpen DEF ReadRejected, Untouched
<1>5. CASE c \in Consumers /\ (Read(c) \/ ReadRedirected(c))
  <2>1. meta[call[c].to] # Absent
    BY <1>5, ToIn, ClientAssumption, Numbers DEF Read, ReadRedirected, Absent, Parts
  <2> QED
    BY <1>5, <2>1, ToIn, OpenedUntouched DEF Read, ReadRedirected
<1> QED
  BY <1>1, <1>2, <1>3, <1>4, <1>5 DEF ClientStep, ProducerStep, ConsumerStep

\* A resize moves directories, whole, each to one broker, from one broker.
Moves ==
    \E from \in [Brokers -> [Parts -> Brokers]] :
        /\ \A d \in Brokers : \A p \in DOMAIN log'[d] :
            p \in DOMAIN log[from[d][p]] /\ log'[d][p] = log[from[d][p]][p]
        /\ \A d, e \in Brokers : \A p \in DOMAIN log'[d] \cap DOMAIN log'[e] :
            from[d][p] = from[e][p] => d = e
        /\ \A b \in Brokers : \A p \in DOMAIN log[b] : \E d \in Brokers :
            p \in DOMAIN log'[d] /\ from[d][p] = b

LEMMA ResizeDisk ==
    ASSUME ClusterOK, DiskOK, Resize
    PROVE  /\ DiskOK' /\ Moves /\ offline /\ ~ offline' /\ size' \in 1 .. MaxBrokers
           /\ \A b \in Brokers : meta[b] # Absent => meta'[b] = meta[b]
           /\ \A b \in Brokers : meta'[b] # Absent => \E d \in Brokers : meta'[b] = meta[d]
           /\ CarriesMeta /\ (\A b \in Brokers : DOMAIN log[b] # {} => meta[b] # Absent) =>
                \A b \in Brokers : DOMAIN log'[b] # {} => meta'[b] # Absent
<1>1. PICK n \in (1 .. MaxBrokers) \ {size} :
        LET Orphans == UNION {{<<b, p>> : p \in {q \in DOMAIN log[b] : Owner(n, q) # b}} : b \in Brokers} IN
        \E moved \in SUBSET Orphans :
            LET Into(b)   == {x \in moved : Owner(n, x[2]) = b}
                Source(p) == (CHOOSE x \in moved : x[2] = p)[1]
            IN
            /\ offline
            /\ \A x \in moved : x[2] \notin DOMAIN log[Owner(n, x[2])]
            /\ \A x, y \in moved : x[2] = y[2] => x = y
            /\ size' = n /\ offline' = FALSE
            /\ log' = [b \in Brokers |->
                        [p \in {q \in DOMAIN log[b] : <<b, q>> \notin moved} \cup {x[2] : x \in Into(b)} |->
                            IF p \in DOMAIN log[b] THEN log[b][p] ELSE log[Source(p)][p]]]
            /\ meta' = [b \in Brokers |->
                            IF CarriesMeta /\ meta[b] = Absent /\ Into(b) # {}
                            THEN meta[(CHOOSE x \in Into(b) : TRUE)[1]] ELSE meta[b]]
  BY DEF Resize
<1> DEFINE Orphans == UNION {{<<b, p>> : p \in {q \in DOMAIN log[b] : Owner(n, q) # b}} : b \in Brokers}
<1>2. PICK moved \in SUBSET Orphans :
            LET Into(b)   == {x \in moved : Owner(n, x[2]) = b}
                Source(p) == (CHOOSE x \in moved : x[2] = p)[1]
            IN
            /\ offline
            /\ \A x \in moved : x[2] \notin DOMAIN log[Owner(n, x[2])]
            /\ \A x, y \in moved : x[2] = y[2] => x = y
            /\ size' = n /\ offline' = FALSE
            /\ log' = [b \in Brokers |->
                        [p \in {q \in DOMAIN log[b] : <<b, q>> \notin moved} \cup {x[2] : x \in Into(b)} |->
                            IF p \in DOMAIN log[b] THEN log[b][p] ELSE log[Source(p)][p]]]
            /\ meta' = [b \in Brokers |->
                            IF CarriesMeta /\ meta[b] = Absent /\ Into(b) # {}
                            THEN meta[(CHOOSE x \in Into(b) : TRUE)[1]] ELSE meta[b]]
  BY <1>1
<1> DEFINE Into(b)   == {x \in moved : Owner(n, x[2]) = b}
           Source(p) == (CHOOSE x \in moved : x[2] = p)[1]
           Kept(b)   == {q \in DOMAIN log[b] : <<b, q>> \notin moved}
           New(b)    == [p \in Kept(b) \cup {x[2] : x \in Into(b)} |->
                            IF p \in DOMAIN log[b] THEN log[b][p] ELSE log[Source(p)][p]]
<1>3. \A x \in moved : x = <<x[1], x[2]>> /\ x[1] \in Brokers /\ x[2] \in DOMAIN log[x[1]]
  OBVIOUS
<1>4. /\ \A x \in moved : x[2] \notin DOMAIN log[Owner(n, x[2])]
      /\ \A x, y \in moved : x[2] = y[2] => x = y
      /\ \A b \in Brokers : log'[b] = New(b)
      /\ \A b \in Brokers : meta'[b] = IF CarriesMeta /\ meta[b] = Absent /\ Into(b) # {}
                                       THEN meta[(CHOOSE x \in Into(b) : TRUE)[1]] ELSE meta[b]
      /\ log' = [b \in Brokers |-> log'[b]] /\ meta' = [b \in Brokers |-> meta'[b]]
      /\ offline /\ ~ offline' /\ size' \in 1 .. MaxBrokers
  BY <1>2
<1> HIDE DEF Orphans
<1>5. \A x \in moved : Source(x[2]) = x[1]
  <2> SUFFICES ASSUME NEW x \in moved PROVE Source(x[2]) = x[1]
    OBVIOUS
  <2>1. (CHOOSE y \in moved : y[2] = x[2]) \in moved /\ (CHOOSE y \in moved : y[2] = x[2])[2] = x[2]
    OBVIOUS
  <2> QED
    BY <1>4, <2>1
<1> HIDE DEF Source
<1>6. \A b \in Brokers : log[b] \in Disk /\ DOMAIN log[b] \subseteq Parts
        /\ \A p \in DOMAIN log[b] : log[b][p] \in Seq(Records)
  BY DiskMembers DEF DiskOK
<1>7. \A d \in Brokers : /\ DOMAIN log'[d] = Kept(d) \cup {x[2] : x \in Into(d)}
                         /\ \A p \in DOMAIN log'[d] : log'[d][p] =
                                IF p \in DOMAIN log[d] THEN log[d][p] ELSE log[Source(p)][p]
                         /\ log'[d] = [p \in DOMAIN log'[d] |-> log'[d][p]]
  <2> SUFFICES ASSUME NEW d \in Brokers
               PROVE  /\ DOMAIN log'[d] = Kept(d) \cup {x[2] : x \in Into(d)}
                      /\ \A p \in DOMAIN log'[d] : log'[d][p] =
                             IF p \in DOMAIN log[d] THEN log[d][p] ELSE log[Source(p)][p]
                      /\ log'[d] = [p \in DOMAIN log'[d] |-> log'[d][p]]
    OBVIOUS
  <2>1. log'[d] = New(d)
    BY <1>4
  <2>2. DOMAIN New(d) = Kept(d) \cup {x[2] : x \in Into(d)}
    OBVIOUS
  <2>3. \A p \in DOMAIN New(d) :
            New(d)[p] = IF p \in DOMAIN log[d] THEN log[d][p] ELSE log[Source(p)][p]
    OBVIOUS
  <2>4. New(d) = [p \in DOMAIN New(d) |-> New(d)[p]]
    OBVIOUS
  <2> HIDE DEF New, Kept, Into
  <2> QED
    BY <2>1, <2>2, <2>3, <2>4
<1> HIDE DEF New
<1> DEFINE from == [d \in Brokers |-> [p \in Parts |-> IF p \in DOMAIN log[d] THEN d ELSE
                                            IF \E x \in moved : x[2] = p THEN Source(p) ELSE d]]
<1>8. ASSUME NEW d \in Brokers, NEW p \in DOMAIN log'[d]
      PROVE  \/ p \in DOMAIN log[d] /\ <<d, p>> \notin moved
             \/ p \notin DOMAIN log[d] /\ <<Source(p), p>> \in moved /\ Owner(n, p) = d
  <2>0. p \in Kept(d) \/ \E x \in Into(d) : p = x[2]
    <3>1. DOMAIN log'[d] = Kept(d) \cup {x[2] : x \in Into(d)}
      BY <1>7
    <3> HIDE DEF Kept, Into, from
    <3> QED
      BY <1>8, <3>1
  <2>1. CASE p \in Kept(d)
    BY <2>1
  <2>2. CASE \E x \in Into(d) : p = x[2]
    BY <1>3, <1>4, <1>5, <2>2
  <2> QED
    BY <2>0, <2>1, <2>2
<1>9. from \in [Brokers -> [Parts -> Brokers]]
  BY <1>3, <1>5
<1>10. ASSUME NEW d \in Brokers, NEW p \in DOMAIN log'[d]
       PROVE  /\ p \in Parts
              /\ p \in DOMAIN log[from[d][p]] /\ log'[d][p] = log[from[d][p]][p]
              /\ p \in DOMAIN log[d] => from[d][p] = d
              /\ p \notin DOMAIN log[d] => from[d][p] = Source(p)
  <2>1. CASE p \in DOMAIN log[d] /\ <<d, p>> \notin moved
    BY <1>6, <1>7, <2>1
  <2>2. CASE p \notin DOMAIN log[d] /\ <<Source(p), p>> \in moved
    <3>1. Source(p) \in Brokers /\ p \in DOMAIN log[Source(p)] /\ p \in Parts
      BY <1>3, <1>6, <2>2
    <3>2. \E x \in moved : x[2] = p
      BY <2>2
    <3>3. from[d][p] = Source(p)
      BY <2>2, <3>1, <3>2
    <3> QED
      BY <1>7, <1>10, <2>2, <3>1, <3>3
  <2> QED
    BY <1>8, <1>10, <2>1, <2>2
<1> HIDE DEF from
<1>11. ASSUME NEW d \in Brokers, NEW e \in Brokers, NEW p \in DOMAIN log'[d] \cap DOMAIN log'[e],
              from[d][p] = from[e][p]
       PROVE  d = e
  <2>1. CASE p \in DOMAIN log[d] /\ p \in DOMAIN log[e]
    BY <1>10, <1>11, <2>1
  <2>2. CASE p \notin DOMAIN log[d] /\ p \notin DOMAIN log[e]
    BY <1>8, <1>11, <2>2
  <2>3. CASE p \in DOMAIN log[d] /\ p \notin DOMAIN log[e]
    <3>1. from[d][p] = d /\ from[e][p] = Source(p)
      BY <1>10, <2>3
    <3>2. <<d, p>> \notin moved /\ <<Source(p), p>> \in moved
      BY <1>8, <2>3
    <3> QED
      BY <1>11, <3>1, <3>2
  <2>4. CASE p \notin DOMAIN log[d] /\ p \in DOMAIN log[e]
    <3>1. from[e][p] = e /\ from[d][p] = Source(p)
      BY <1>10, <2>4
    <3>2. <<e, p>> \notin moved /\ <<Source(p), p>> \in moved
      BY <1>8, <2>4
    <3> QED
      BY <1>11, <3>1, <3>2
  <2> QED
    BY <2>1, <2>2, <2>3, <2>4
<1>12. ASSUME NEW b \in Brokers, NEW p \in DOMAIN log[b]
       PROVE  \E d \in Brokers : p \in DOMAIN log'[d] /\ from[d][p] = b
  <2>1. CASE <<b, p>> \notin moved
    BY <1>7, <1>10, <1>12, <2>1
  <2>2. CASE <<b, p>> \in moved
    <3>1. Owner(n, p) \in Brokers
      BY <1>6, <1>12, OwnerIn
    <3>2. <<b, p>> \in Into(Owner(n, p)) /\ p \notin DOMAIN log[Owner(n, p)] /\ Source(p) = b
      BY <1>4, <1>5, <2>2
    <3>3. p \in DOMAIN log'[Owner(n, p)]
      <4>1. p \in {x[2] : x \in Into(Owner(n, p))}
        BY <3>2
      <4> QED
        BY <1>7, <3>1, <4>1
    <3> QED
      BY <1>10, <3>1, <3>2, <3>3
  <2> QED
    BY <2>1, <2>2
<1>13. Moves
  BY <1>9, <1>10, <1>11, <1>12 DEF Moves
<1>14. ASSUME NEW d \in Brokers PROVE log'[d] \in Disk
  <2>1. \A p \in DOMAIN log'[d] : log'[d][p] \in Seq(Records) /\ p \in Parts
    <3> SUFFICES ASSUME NEW p \in DOMAIN log'[d]
                 PROVE  log'[d][p] \in Seq(Records) /\ p \in Parts
      OBVIOUS
    <3>1. p \in Parts /\ p \in DOMAIN log[from[d][p]] /\ log'[d][p] = log[from[d][p]][p]
      BY <1>10
    <3>2. from[d][p] \in Brokers
      BY <1>9, <3>1
    <3> QED
      BY <1>6, <3>1, <3>2
  <2> QED
    BY <1>7, <2>1, DiskMembers
<1>15. ASSUME NEW b \in Brokers
       PROVE  /\ meta[b] # Absent => meta'[b] = meta[b]
              /\ \E d \in Brokers : meta'[b] = meta[d]
  <2>1. CASE CarriesMeta /\ meta[b] = Absent /\ Into(b) # {}
    <3>1. (CHOOSE x \in Into(b) : TRUE) \in moved
      BY <2>1
    <3> QED
      BY <1>3, <1>4, <2>1, <3>1
  <2>2. CASE ~ (CarriesMeta /\ meta[b] = Absent /\ Into(b) # {})
    BY <1>4, <2>2
  <2> QED
    BY <2>1, <2>2
<1>16. DiskOK'
  <2>1. \A b \in Brokers : meta'[b] \in Counts \cup {Absent}
    BY <1>15 DEF DiskOK
  <2> QED
    BY <1>4, <1>14, <2>1 DEF DiskOK, Disk, Counts
<1>17. ASSUME CarriesMeta, \A b \in Brokers : DOMAIN log[b] # {} => meta[b] # Absent,
              NEW d \in Brokers, NEW p \in DOMAIN log'[d]
       PROVE  meta'[d] # Absent
  <2>1. CASE meta[d] # Absent
    BY <1>15, <2>1
  <2>2. CASE meta[d] = Absent
    <3>1. <<Source(p), p>> \in moved /\ Owner(n, p) = d
      BY <1>8, <1>17, <2>2
    <3>2. <<Source(p), p>> \in Into(d)
      BY <3>1
    <3>3. PICK x \in moved : x = CHOOSE y \in Into(d) : TRUE
      BY <3>2
    <3>4. meta'[d] = meta[x[1]]
      BY <1>4, <1>17, <2>2, <3>2, <3>3
    <3> QED
      BY <1>3, <1>17, <3>3, <3>4
  <2> QED
    BY <2>1, <2>2
<1> QED
  BY <1>4, <1>13, <1>15, <1>16, <1>17

-----------------------------------------------------------------------------
(* Types.                                                                  *)

LEMMA TypesInit == Init => Types
<1> SUFFICES ASSUME Init PROVE Types
  OBVIOUS
<1>1. ClusterOK
  BY SizeAssumption DEF Init, ClusterOK
<1>2. DiskOK
  <2>1. [p \in {} |-> <<>>] \in Disk
    BY DiskMembers
  <2> QED
    BY <2>1 DEF Init, DiskOK
<1>3. CallsOK
  <2>1. ASSUME NEW c \in Clients PROVE CallFits(c, Idle)
    <3>1. 1 \in 1 .. Len(Bootstrap[c])
      BY BootstrapAssumption
    <3>2. Idle \in CallType
      BY Numbers DEF Idle, CallType
    <3>3. c \in Producers => Between(c, Idle)
      BY ClusterBounds DEF Between, Idle
    <3> QED
      BY <3>1, <3>2, <3>3 DEF CallFits, Idle
  <2>2. Idle \in CallType
    BY Numbers DEF Idle, CallType
  <2> QED
    BY <2>1, <2>2 DEF Init, CallsOK
<1>4. TableOK /\ LateOK /\ PastOK
  BY DEF Init, TableOK, LateOK, PastOK
<1> QED
  BY <1>1, <1>2, <1>3, <1>4, HomeInit DEF Types

\* A request that arrives late arrives at a broker that is up.
LEMMA LateSame == ASSUME LateOK, late' \subseteq late, UNCHANGED broker PROVE LateOK'
BY DEF LateOK, Accepts

LEMMA ClusterSame == ASSUME ClusterOK, UNCHANGED cluster PROVE ClusterOK' /\ UNCHANGED broker
BY DEF ClusterOK, cluster

LEMMA PastSame == ASSUME PastOK, UNCHANGED <<seen, history>> PROVE PastOK'
BY DEF PastOK, history

\* What the steps of a client leave as it is.
LEMMA ClientCalls ==
    ASSUME CallsOK, DiskOK, TableOK, NEW c \in Clients, ClientStep(c)
    PROVE  /\ CallsOK' /\ UNCHANGED <<cluster, late, lost>>
           /\ \/ Quiet(c)
              \/ c \in Producers /\ (Route(c) \/ Land(c) \/ NextStream(c))
<1>1. CASE Lookup(c) \/ Fetched(c) \/ FetchUnknown(c) \/ FetchFails(c) \/ Unavailable(c)
  BY <1>1, LookupCalls, FetchedCalls, FetchUnknownCalls, FetchFailsCalls, UnavailableCalls
     DEF Lookup, Fetched, FetchUnknown, FetchFails, Unavailable, history
<1>2. CASE c \in Producers /\ (Route(c) \/ Land(c) \/ NextStream(c))
  BY <1>2, RouteCalls, LandCalls, NextStreamCalls DEF Route, Land, NextStream, history
<1>3. CASE c \in Producers /\ (Rejected(c) \/ Redirected(c) \/ Returns(c))
  BY <1>3, EndStep, RedirectedCalls DEF Rejected, Redirected, Returns, history
<1>4. CASE c \in Consumers /\ ConsumerStep(c)
  BY <1>4, EndStep, LocateCalls, ReadCalls, ReadRedirectedCalls
     DEF ConsumerStep, Locate, Read, ReadRejected, ReadRedirected, history
<1> QED
  BY <1>1, <1>2, <1>3, <1>4 DEF ClientStep, ProducerStep

LEMMA FetchedTable == ASSUME Types, NEW c \in Clients, Fetched(c) PROVE TableOK'
<1>1. PICK b \in Brokers : b = AskedBroker(c)
  BY AskedIn DEF Types
<1>2. [n |-> meta[b], size |-> size] \in TableType
  BY <1>1 DEF Fetched, Types, DiskOK, ClusterOK, TableType
<1> QED
  BY <1>1, <1>2 DEF Fetched, Types, TableOK

\* The next record for a consumer is one of the text.
LEMMA ReadIs ==
    ASSUME Types, NEW c \in Consumers, Read(c), seen' # seen
    PROVE  \E b \in Brokers :
                /\ Watch[c] \in DOMAIN log'[b] /\ Owner(size, Watch[c]) = b
                /\ Len(seen[c]) < Len(Text[b][Watch[c]])
                /\ seen' = [seen EXCEPT ![c] = Append(@, Text[b][Watch[c]][Len(seen[c]) + 1])]
<1>1. PICK b \in Brokers : b = call[c].to
  BY ToIn DEF Types, Clients
<1>2. meta[b] \in Counts /\ Watch[c] \in Parts /\ Watch[c] \in 0 .. meta[b] - 1
      /\ Owner(size, Watch[c]) = b
  BY <1>1, ClientAssumption, Numbers DEF Read, Types, DiskOK, Owns, Absent, Parts, Counts
<1>3. DOMAIN Opened(b, meta[b]) = DOMAIN log[b] \cup {q \in 0 .. meta[b] - 1 : Owner(size, q) = b}
      /\ \A p \in DOMAIN Opened(b, meta[b]) : Opened(b, meta[b])[p] = Text[b][p]
  BY <1>2, OpenedIs DEF Types
<1>4. Watch[c] \in DOMAIN Opened(b, meta[b])
      /\ Opened(b, meta[b])[Watch[c]] = Text[b][Watch[c]]
  BY <1>2, <1>3
<1>5. log'[b] = Opened(b, meta[b])
  BY <1>1 DEF Read, Types, DiskOK
<1>6. Len(seen[c]) < Len(Text[b][Watch[c]])
      /\ seen' = [seen EXCEPT ![c] = Append(@, Text[b][Watch[c]][Len(seen[c]) + 1])]
  BY <1>1, <1>4 DEF Read, NextOffset
<1> QED
  BY <1>2, <1>4, <1>5, <1>6

LEMMA ReadPast == ASSUME Types, NEW c \in Consumers, Read(c) PROVE PastOK'
<1>1. CASE seen' = seen
  BY <1>1 DEF Read, Types, PastOK, history
<1>2. CASE seen' # seen
  <2>1. PICK b \in Brokers :
            /\ Len(seen[c]) < Len(Text[b][Watch[c]])
            /\ seen' = [seen EXCEPT ![c] = Append(@, Text[b][Watch[c]][Len(seen[c]) + 1])]
    BY <1>2, ReadIs
  <2>2. Text[b][Watch[c]] \in Seq(Records) /\ seen[c] \in Seq(Records)
    BY TextType, ClientAssumption DEF Types, PastOK
  <2>3. Text[b][Watch[c]][Len(seen[c]) + 1] \in Records
    BY <2>1, <2>2
  <2> QED
    BY <2>1, <2>2, <2>3 DEF Read, Types, PastOK, history
<1> QED
  BY <1>1, <1>2

LEMMA TypesClient ==
    ASSUME Types, SceneOK', NEW c \in Clients, ClientStep(c)
    PROVE  Types'
<1>1. ClusterOK' /\ CallsOK' /\ LateOK'
  BY ClientCalls, ClusterSame, LateSame DEF Types
<1>2. DiskOK'
  <2>1. CASE c \in Producers /\ Land(c)
    <3>1. PICK q : q = Current(c)
      OBVIOUS
    <3>2. q \in Requests /\ <<c, q.n>> \in Records /\ q.to = call[c].to
      BY <2>1, <3>1, LandCalls DEF Types
    <3> QED
      BY <2>1, <3>1, <3>2, AppendedText DEF Land, Types, Requests
  <2> QED
    BY <2>1, ClientDisk DEF Types, Untouched
<1>3. TableOK'
  <2>1. CASE Fetched(c)
    BY <2>1, FetchedTable
  <2>2. CASE ~ Fetched(c)
    <3>1. UNCHANGED routing
      BY <2>2 DEF ClientStep, ProducerStep, ConsumerStep, Lookup, FetchUnknown, FetchFails,
              Unavailable, Route, Land, Rejected, Redirected, NextStream, Returns, Locate, Read,
              ReadRejected, ReadRedirected
    <3> QED
      BY <3>1 DEF Types, TableOK
  <2> QED
    BY <2>1, <2>2
<1>4. PastOK'
  <2>1. CASE c \in Consumers /\ Read(c)
    BY <2>1, ReadPast
  <2>2. CASE c \in Producers /\ Returns(c)
    <3>1. call[c].done \subseteq Responses
      BY DEF Types, CallsOK, CallType
    <3> QED
      BY <2>2, <3>1 DEF Returns, Types, PastOK
  <2>3. CASE ~ (c \in Consumers /\ Read(c)) /\ ~ (c \in Producers /\ Returns(c))
    <3>1. UNCHANGED <<seen, history>>
      BY <2>3 DEF ClientStep, ProducerStep, ConsumerStep, Lookup, Fetched, FetchUnknown, FetchFails,
              Unavailable, Route, Land, Rejected, Redirected, NextStream, Locate,
              ReadRejected, ReadRedirected
    <3> QED
      BY <3>1, PastSame DEF Types
  <2> QED
    BY <2>1, <2>2, <2>3
<1> QED
  BY <1>1, <1>2, <1>3, <1>4 DEF Types

\* An attempt without an answer is counted for a send.
LEMMA NoAnswerPast ==
    ASSUME Types, NEW c \in Producers, call[c].pc \in {"send", "landed"}, NoAnswer(c),
           UNCHANGED <<seen, delivered>>
    PROVE  PastOK'
<1>1. CASE UNCHANGED lost
  BY <1>1 DEF Types, PastOK
<1>2. CASE lost' = [lost EXCEPT ![<<c, call[c].n>>] = @ + 1]
  <2>1. PICK r : r = <<c, call[c].n>>
    OBVIOUS
  <2>2. lost' = [lost EXCEPT ![r] = @ + 1] /\ lost \in [Records -> Nat]
    BY <1>2, <2>1 DEF Types, PastOK
  <2>3. DOMAIN lost' = Records /\ lost' = [x \in Records |-> lost'[x]]
    BY <2>2
  <2>4. ASSUME NEW x \in Records PROVE lost'[x] \in Nat
    <3>1. lost[x] \in Nat
      BY <2>2
    <3>2. CASE x = r
      BY <2>2, <3>1, <3>2
    <3>3. CASE x # r
      BY <2>2, <3>1, <3>3
    <3> QED
      BY <3>2, <3>3
  <2> QED
    BY <2>3, <2>4 DEF Types, PastOK
<1> QED
  BY <1>1, <1>2 DEF NoAnswer

LEMMA TypesOthers ==
    ASSUME Types, SceneOK',
           \/ \E c \in Producers : Send(c) \/ ReplyLost(c) \/ GivesUp(c)
           \/ \E c \in Consumers : Consume(c) \/ ReadFails(c)
    PROVE  Types' /\ Untouched
<1>1. PICK c \in Clients : \/ c \in Producers /\ (Send(c) \/ ReplyLost(c) \/ GivesUp(c))
                           \/ c \in Consumers /\ (Consume(c) \/ ReadFails(c))
  BY DEF Clients
<1>2. UNCHANGED <<cluster, disk, late, routing, seen, delivered>>
  BY <1>1 DEF Send, ReplyLost, GivesUp, Consume, ReadFails, history
<1>3. CallsOK'
  BY <1>1, SendCalls, NoAnswerCalls, EndStep, ConsumeCalls
     DEF Types, ReplyLost, GivesUp, ReadFails
<1>4. PastOK'
  <2>1. CASE c \in Producers /\ ReplyLost(c)
    BY <1>2, <2>1, NoAnswerPast DEF ReplyLost
  <2>2. CASE ~ (c \in Producers /\ ReplyLost(c))
    BY <1>1, <2>2, PastSame DEF Types, Send, GivesUp, Consume, ReadFails
  <2> QED
    BY <2>1, <2>2
<1>5. ClusterOK' /\ LateOK' /\ Untouched /\ TableOK'
  BY <1>2, ClusterSame, LateSame, DiskSame DEF Types, TableOK
<1> QED
  BY <1>3, <1>4, <1>5 DEF Types, Untouched

LEMMA TypesAbandons ==
    ASSUME Types, SceneOK', NEW c \in Producers, Abandons(c)
    PROVE  /\ Types' /\ Untouched /\ UNCHANGED cluster
           /\ \E q \in call[c].todo :
                /\ q = Current(c) /\ q \in Requests /\ <<c, q.n>> \in Records /\ q.to = call[c].to
                /\ \A r \in call[c].todo : r.to = call[c].to => q.n <= r.n
                /\ Accepts(call[c].to)
                /\ late' = late \cup {[rec |-> <<c, q.n>>, part |-> q.part, to |-> q.to]}
<1>1. c \in Clients /\ call[c].pc = "send" /\ Accepts(call[c].to) /\ NoAnswer(c)
      /\ UNCHANGED <<cluster, disk, routing, seen, delivered>>
  BY DEF Abandons, Clients
<1>2. PICK q \in call[c].todo :
        /\ q = Current(c) /\ q \in Requests /\ q.to = call[c].to
        /\ \A r \in call[c].todo : r.to = call[c].to => q.n <= r.n
  BY <1>1, CurrentIs DEF Types
<1>3. <<c, q.n>> \in Records
  <2>1. q.n \in call[c].first .. call[c].n /\ call[c].first \in 1 .. call[c].n
        /\ call[c].n \in 0 .. Len(Sends[c]) /\ Len(Sends[c]) \in Nat
    BY <1>1, <1>2, ClusterBounds DEF Types, CallsOK, CallFits, Between
  <2>2. q.n \in 1 .. Len(Sends[c])
    BY <2>1
  <2> QED
    BY <2>2, RecordsAre
<1>4. late' = late \cup {[rec |-> <<c, q.n>>, part |-> q.part, to |-> q.to]}
  BY <1>2 DEF Abandons
<1>5. LateOK'
  <2>1. [rec |-> <<c, q.n>>, part |-> q.part, to |-> q.to] \in LateType
    BY <1>2, <1>3 DEF LateType, Requests
  <2> QED
    BY <1>1, <1>2, <1>4, <2>1 DEF Types, LateOK, Accepts, cluster
<1>6. CallsOK' /\ PastOK'
  BY <1>1, NoAnswerCalls, NoAnswerPast DEF Types
<1>7. ClusterOK' /\ Untouched /\ TableOK'
  BY <1>1, ClusterSame, DiskSame DEF Types, TableOK
<1> QED
  BY <1>1, <1>2, <1>3, <1>4, <1>5, <1>6, <1>7 DEF Types, Untouched

LEMMA TypesLandLate ==
    ASSUME Types, SceneOK', NEW m \in late, LandLate(m)
    PROVE  Types'
<1>1. m.rec \in Records /\ m.part \in Parts /\ m.to \in Brokers
  BY DEF Types, LateOK, LateType
<1>2. DiskOK'
  BY <1>1, AppendedText DEF LandLate, Types
<1>3. ClusterOK' /\ LateOK' /\ PastOK'
  BY ClusterSame, LateSame, PastSame DEF LandLate, Types
<1>4. CallsOK' /\ TableOK'
  BY DEF LandLate, Types, CallsOK, TableOK
<1> QED
  BY <1>2, <1>3, <1>4 DEF Types

\* A broker starts, recovers, or is given the topic.
LEMMA TypesBroker ==
    ASSUME Types, SceneOK', NEW b \in Brokers, Start(b) \/ Recover(b) \/ Create(b)
    PROVE  Types' /\ Untouched /\ UNCHANGED <<size, offline, call, late, history, seen, routing>>
<1>1. UNCHANGED <<size, offline, call, late, history, seen, routing>>
  BY DEF Start, Recover, Create, cluster
<1>2. ClusterOK'
  <2>1. CASE Start(b) \/ Recover(b)
    BY <2>1 DEF Start, Recover, Types, ClusterOK
  <2>2. CASE Create(b)
    BY <2>2, ClusterSame DEF Create, Types
  <2> QED
    BY <2>1, <2>2
<1>3. LateOK'
  <2>1. \A d \in Brokers : Accepts(d) => Accepts(d)'
    BY DEF Start, Recover, Create, Accepts, cluster, Types, ClusterOK
  <2> QED
    BY <1>1, <2>1 DEF Types, LateOK, LateType
<1>4. Untouched
  <2>1. CASE Start(b)
    BY <2>1, DiskSame DEF Start, Types
  <2>2. CASE Recover(b)
    BY <2>2, MayOpen DEF Recover, Types, Untouched
  <2>3. CASE Create(b)
    <3>1. Created \in Counts /\ meta' \in [Brokers -> Counts \cup {Absent}]
      BY <2>3 DEF Create, Counts, Types, DiskOK
    <3>2. log' = [log EXCEPT ![b] = Opened(b, Created)]
      BY <2>3 DEF Create
    <3> QED
      BY <3>1, <3>2, OpenedText, OpenedIs, DiskChanged DEF Types, Untouched
  <2> QED
    BY <2>1, <2>2, <2>3
<1>5. CallsOK' /\ TableOK' /\ PastOK'
  BY <1>1 DEF Types, CallsOK, TableOK, PastOK, history
<1> QED
  BY <1>1, <1>2, <1>3, <1>4, <1>5 DEF Types, Untouched

\* Brokers that stop.
LEMMA TypesStop ==
    ASSUME Types, SceneOK', (\E b \in Brokers : Crash(b)) \/ StopAll
    PROVE  /\ Types' /\ Untouched /\ UNCHANGED <<size, disk, routing, seen, history>>
           /\ \E stopped \in SUBSET Brokers :
                /\ CutOff(stopped)
                /\ \A b \in Brokers : broker'[b] = IF b \in stopped THEN "down" ELSE broker[b]
<1>1. PICK stopped \in SUBSET Brokers :
        /\ CutOff(stopped)
        /\ broker' = [b \in Brokers |-> IF b \in stopped THEN "down" ELSE broker[b]]
        /\ UNCHANGED <<size, disk, routing, seen, history>>
        /\ offline' = (offline \/ stopped = Brokers) \/ UNCHANGED offline
        /\ offline' \in BOOLEAN
        /\ offline' => offline \/ stopped = Brokers
  <2>1. ASSUME NEW b \in Brokers, Crash(b)
        PROVE  \E stopped \in SUBSET Brokers :
            /\ CutOff(stopped)
            /\ broker' = [d \in Brokers |-> IF d \in stopped THEN "down" ELSE broker[d]]
            /\ UNCHANGED <<size, disk, routing, seen, history>>
            /\ UNCHANGED offline
    <3>1. broker' = [d \in Brokers |-> IF d \in {b} THEN "down" ELSE broker[d]]
      BY <2>1 DEF Crash, Types, ClusterOK
    <3>2. CutOff({b}) /\ UNCHANGED <<size, disk, routing, seen, history>> /\ UNCHANGED offline
      BY <2>1 DEF Crash
    <3> QED
      BY <3>1, <3>2
  <2>2. CASE StopAll
    <3>1. broker' = [d \in Brokers |-> IF d \in Brokers THEN "down" ELSE broker[d]]
      BY <2>2 DEF StopAll
    <3>2. CutOff(Brokers) /\ UNCHANGED <<size, disk, routing, seen, history>> /\ offline' = TRUE
      BY <2>2 DEF StopAll
    <3> QED
      BY <3>1, <3>2
  <2> QED
    BY <2>1, <2>2 DEF Types, ClusterOK
<1>2. ClusterOK'
  BY <1>1 DEF Types, ClusterOK
<1>3. LateOK'
  BY <1>1 DEF CutOff, Types, LateOK, LateType, Accepts
<1>4. CallsOK'
  BY <1>1, CutOffCalls DEF Types
<1>5. Untouched /\ TableOK' /\ PastOK'
  BY <1>1, DiskSame, PastSame DEF Types, TableOK
<1> QED
  BY <1>1, <1>2, <1>3, <1>4, <1>5 DEF Types, Untouched

LEMMA TypesResize == ASSUME Types, SceneOK', Resize PROVE Types'
<1>1. DiskOK' /\ offline /\ ~ offline' /\ size' \in 1 .. MaxBrokers
  BY ResizeDisk DEF Types
<1>2. UNCHANGED <<broker, call, routing, late, seen, history>> /\ offline' = FALSE
  BY DEF Resize
<1>3. CallsOK' /\ TableOK' /\ PastOK' /\ LateOK' /\ ClusterOK'
  BY <1>1, <1>2, LateSame DEF Types, CallsOK, TableOK, PastOK, history, ClusterOK
<1> QED
  BY <1>1, <1>3 DEF Types

LEMMA TypesNext == Types /\ [Next]_vars => Types'
<1> SUFFICES ASSUME Types, [Next]_vars PROVE Types'
  OBVIOUS
<1>1. SceneOK'
  BY SceneNext DEF Types
<1>2. ASSUME NEW c \in Clients, ClientStep(c) PROVE Types'
  BY <1>1, <1>2, TypesClient
<1>3. CASE \/ \E c \in Producers : Send(c) \/ ReplyLost(c) \/ GivesUp(c)
           \/ \E c \in Consumers : Consume(c) \/ ReadFails(c)
  BY <1>1, <1>3, TypesOthers
<1>4. ASSUME NEW c \in Producers, Abandons(c) PROVE Types'
  BY <1>1, <1>4, TypesAbandons
<1>5. ASSUME NEW m \in late, LandLate(m) PROVE Types'
  BY <1>1, <1>5, TypesLandLate
<1>6. ASSUME NEW b \in Brokers, Start(b) \/ Recover(b) \/ Create(b) PROVE Types'
  BY <1>1, <1>6, TypesBroker
<1>7. CASE (\E b \in Brokers : Crash(b)) \/ StopAll
  BY <1>1, <1>7, TypesStop
<1>8. CASE Resize
  BY <1>1, <1>8, TypesResize
<1>9. CASE UNCHANGED vars
  <2>1. UNCHANGED <<cluster, disk, call, routing, late, seen, history>>
    BY <1>9 DEF vars
  <2>2. ClusterOK' /\ LateOK' /\ PastOK' /\ DiskOK'
    BY <2>1, ClusterSame, LateSame, PastSame, DiskSame DEF Types, Untouched
  <2> QED
    BY <1>1, <2>1, <2>2 DEF Types, CallsOK, TableOK
<1> QED
  BY <1>2, <1>3, <1>4, <1>5, <1>6, <1>7, <1>8, <1>9 DEF Next, BrokerStep

LEMMA TypesInvariant == Spec => []Types
BY TypesInit, TypesNext, PTL DEF Spec

\* The brokers, their disks and the locals of every call keep their types; a
\* call that is sending has a request for the broker at hand, and no request
\* outlives its broker.
THEOREM ClusterTyped == Spec => []TypeOK
<1>1. ASSUME Types PROVE TypeOK
  <2>1. size \in 1 .. MaxBrokers /\ offline \in BOOLEAN
        /\ broker \in [Brokers -> {"down", "booting", "ready", "refused"}]
        /\ meta \in [Brokers -> {Absent, Created, DefaultPartitions}]
    BY <1>1 DEF Types, ClusterOK, DiskOK, Counts
  <2>2. /\ \A b \in Brokers : DOMAIN log[b] \subseteq Parts
        /\ \A b \in Brokers : \A p \in DOMAIN log[b] : log[b][p] \in Seq(Records)
    BY <1>1, DiskMembers DEF Types, DiskOK
  <2>3. ASSUME NEW c \in Clients
        PROVE  /\ call[c].pc \in {"idle", "await", "route", "fetch", "refetch", "correct", "send",
                                  "landed", "again", "read"}
               /\ call[c].asks \in 1 .. Len(Bootstrap[c]) /\ call[c].to \in Brokers
               /\ \A q \in call[c].todo :
                    <<c, q.n>> \in Records /\ q.part \in Parts /\ q.to \in Brokers
               /\ call[c].pc = "send" => Group(c) # {}
    <3>1. CallFits(c, call[c]) /\ call[c] \in CallType
      BY <1>1 DEF Types, CallsOK
    <3>2. ASSUME NEW q \in call[c].todo
          PROVE  <<c, q.n>> \in Records /\ q.part \in Parts /\ q.to \in Brokers
      <4>1. c \in Producers /\ call[c].pc \in {"send", "landed"} /\ q \in Requests
        BY <3>1, <3>2 DEF CallFits, CallType
      <4>2. q.n \in call[c].first .. call[c].n /\ call[c].first \in 1 .. call[c].n
            /\ call[c].n \in 0 .. Len(Sends[c]) /\ Len(Sends[c]) \in Nat
        BY <3>1, <4>1, ClusterBounds DEF CallFits, Between
      <4> QED
        BY <4>1, <4>2, RecordsAre DEF Requests
    <3>3. call[c].pc = "send" => Group(c) # {}
      BY <3>1 DEF CallFits, Group
    <3> QED
      BY <3>1, <3>2, <3>3 DEF CallFits, CallType
  <2>4. ASSUME NEW c \in Clients PROVE routing[c].n \in 0 .. Cardinality(Parts)
    <3>1. PICK n \in Nat \ {0} : Parts = 0 .. n - 1 /\ Created <= n /\ DefaultPartitions <= n
      BY CreatedAssumption DEF Parts
    <3>2. Cardinality(Parts) = n
      BY <3>1, FS_Interval
    <3>3. routing[c] = Unknown \/ routing[c].n \in Counts
      BY <1>1 DEF Types, TableOK, TableType
    <3> QED
      BY <3>1, <3>2, <3>3, CreatedAssumption DEF Unknown, Counts
  <2>5. \A m \in late : m.rec \in Records /\ m.part \in Parts /\ Accepts(m.to)
    BY <1>1 DEF Types, LateOK, LateType
  <2>6. seen \in [Consumers -> Seq(Records)]
    BY <1>1 DEF Types, PastOK
  <2> QED
    BY <2>1, <2>2, <2>3, <2>4, <2>5, <2>6 DEF TypeOK
<1> QED
  BY <1>1, TypesInvariant, PTL

-----------------------------------------------------------------------------
(* Records stay where they are in their log.                               *)

\* A record has come to the end of the log of p at b.
Lands(b, p, rec) ==
    /\ b \in Brokers /\ p \in Parts /\ rec \in Records
    /\ DiskOK' /\ Wider /\ Text' = [Text EXCEPT ![b][p] = Append(@, rec)]
    /\ p \in DOMAIN log'[b] /\ Owner(size, p) = b
    /\ meta'[b] = CountAt(b) /\ p < CountAt(b)
    /\ UNCHANGED cluster

LEMMA AppendedLands ==
    ASSUME Types, NEW b \in Brokers, NEW p \in Parts, NEW rec \in Records,
           Appended(b, p, rec), UNCHANGED cluster
    PROVE  Lands(b, p, rec)
<1>1. DiskOK /\ ClusterOK
  BY DEF Types
<1>2. /\ DiskOK' /\ Wider /\ Text' = [Text EXCEPT ![b][p] = Append(@, rec)]
      /\ p \in DOMAIN log'[b] /\ Owner(size, p) = b
      /\ meta'[b] = CountAt(b) /\ p < CountAt(b)
  BY <1>1, AppendedText
<1> QED
  BY <1>2 DEF Lands

LEMMA LandLands ==
    ASSUME Types, NEW c \in Producers, Land(c), NEW q, q = Current(c)
    PROVE  Lands(q.to, q.part, <<c, q.n>>)
<1>1. q \in Requests /\ <<c, q.n>> \in Records /\ q.to = call[c].to
  BY LandCalls DEF Types
<1>2. PICK b \in Brokers, p \in Parts, rec \in Records : b = q.to /\ p = q.part /\ rec = <<c, q.n>>
  BY <1>1 DEF Requests
<1>3. Appended(b, p, rec) /\ UNCHANGED cluster
  BY <1>1, <1>2 DEF Land
<1>4. Lands(b, p, rec)
  BY <1>3, AppendedLands
<1> QED
  BY <1>2, <1>4

LEMMA LateLands == ASSUME Types, NEW m \in late, LandLate(m) PROVE Lands(m.to, m.part, m.rec)
<1>1. PICK b \in Brokers, p \in Parts, rec \in Records : b = m.to /\ p = m.part /\ rec = m.rec
  BY DEF Types, LateOK, LateType
<1>2. Appended(b, p, rec) /\ UNCHANGED cluster
  BY <1>1 DEF LandLate
<1>3. Lands(b, p, rec)
  BY <1>2, AppendedLands
<1> QED
  BY <1>1, <1>3

\* Every step of the system is one of these, as far as records go.
LEMMA TextSteps ==
    ASSUME Types, [Next]_vars
    PROVE  \/ Untouched /\ UNCHANGED size
           \/ \E c \in Producers : Land(c)
           \/ \E m \in late : LandLate(m)
           \/ Resize
<1>0. SceneOK'
  BY SceneNext DEF Types
<1>1. ASSUME NEW c \in Clients, ClientStep(c), ~ (c \in Producers /\ Land(c))
      PROVE  Untouched /\ UNCHANGED size
  BY <1>1, ClientDisk, ClientCalls DEF Types, cluster
<1>2. CASE \/ \E c \in Producers : Send(c) \/ ReplyLost(c) \/ GivesUp(c)
           \/ \E c \in Consumers : Consume(c) \/ ReadFails(c)
  <2>1. UNCHANGED size
    BY <1>2 DEF Send, ReplyLost, GivesUp, Consume, ReadFails, cluster
  <2> QED
    BY <1>0, <1>2, <2>1, TypesOthers
<1>3. ASSUME NEW c \in Producers, Abandons(c) PROVE Untouched /\ UNCHANGED size
  BY <1>0, <1>3, TypesAbandons DEF cluster
<1>4. ASSUME NEW b \in Brokers, Start(b) \/ Recover(b) \/ Create(b) PROVE Untouched /\ UNCHANGED size
  BY <1>0, <1>4, TypesBroker
<1>5. CASE (\E b \in Brokers : Crash(b)) \/ StopAll
  BY <1>0, <1>5, TypesStop
<1>6. CASE UNCHANGED vars
  BY <1>6, DiskSame DEF vars, Types, cluster
<1> QED
  BY <1>1, <1>2, <1>3, <1>4, <1>5, <1>6 DEF Next, BrokerStep

Extends(s, t) == Len(s) <= Len(t) /\ \A i \in 1 .. Len(s) : t[i] = s[i]

LEMMA ExtendsTransitive ==
    ASSUME NEW R, NEW s \in Seq(R), NEW t \in Seq(R), NEW u \in Seq(R), Extends(s, t), Extends(t, u)
    PROVE  Extends(s, u)
<1>1. Len(s) \in Nat /\ Len(t) \in Nat /\ Len(u) \in Nat
  OBVIOUS
<1> QED
  BY <1>1 DEF Extends

\* What an append leaves of the logs.
LEMMA LandsText ==
    ASSUME Types, NEW b \in Brokers, NEW p \in Parts, NEW rec \in Records, Lands(b, p, rec)
    PROVE  /\ Text' \in [Brokers -> [Parts -> Seq(Records)]]
           /\ \A d \in Brokers, q \in Parts :
                /\ Extends(Text[d][q], Text'[d][q])
                /\ d # b \/ q # p => Text'[d][q] = Text[d][q]
           /\ Len(Text'[b][p]) = Len(Text[b][p]) + 1
           /\ Text'[b][p][Len(Text[b][p]) + 1] = rec
           /\ \A i \in 1 .. Len(Text[b][p]) : Text'[b][p][i] = Text[b][p][i]
<1>1. Text \in [Brokers -> [Parts -> Seq(Records)]] /\ Text' \in [Brokers -> [Parts -> Seq(Records)]]
  BY TextType DEF Types, Lands
<1>2. Text' = [Text EXCEPT ![b][p] = Append(@, rec)]
  BY DEF Lands
<1>3. \A d \in Brokers, q \in Parts :
        Text'[d][q] = IF d = b /\ q = p THEN Append(Text[b][p], rec) ELSE Text[d][q]
  BY <1>1, <1>2
<1>4. Text[b][p] \in Seq(Records)
  BY <1>1
<1>5. /\ Len(Append(Text[b][p], rec)) = Len(Text[b][p]) + 1
      /\ Append(Text[b][p], rec)[Len(Text[b][p]) + 1] = rec
      /\ \A i \in 1 .. Len(Text[b][p]) : Append(Text[b][p], rec)[i] = Text[b][p][i]
  BY <1>4
<1>6. Extends(Text[b][p], Append(Text[b][p], rec))
  BY <1>4, <1>5 DEF Extends
<1>7. \A d \in Brokers, q \in Parts : Extends(Text[d][q], Text[d][q])
  BY <1>1 DEF Extends
<1> QED
  BY <1>1, <1>3, <1>5, <1>6, <1>7

LEMMA TextIs ==
    ASSUME Types, NEW b \in Brokers, NEW p \in DOMAIN log[b]
    PROVE  p \in Parts /\ Text[b][p] = log[b][p] /\ Text[b][p] \in Seq(Records)
<1>1. p \in Parts
  BY DiskMembers DEF Types, DiskOK
<1> QED
  BY <1>1, TextType DEF Types, Text

\* Wherever a log goes, it keeps its records.
LEMMA Persist ==
    ASSUME Types, [Next]_vars, NEW b \in Brokers, NEW p \in DOMAIN log[b]
    PROVE  /\ \E d \in Brokers : p \in DOMAIN log'[d] /\ Extends(Text[b][p], Text'[d][p])
           /\ ~ Resize => p \in DOMAIN log'[b] /\ Extends(Text[b][p], Text'[b][p])
<1>1. p \in Parts /\ Text[b][p] \in Seq(Records)
  BY TextIs
<1>2. Extends(Text[b][p], Text[b][p])
  BY <1>1 DEF Extends
<1>3. CASE Untouched
  BY <1>2, <1>3 DEF Untouched, Wider
<1>4. ASSUME NEW a \in Brokers, NEW r \in Parts, NEW rec \in Records, Lands(a, r, rec)
      PROVE  p \in DOMAIN log'[b] /\ Extends(Text[b][p], Text'[b][p])
  BY <1>1, <1>4, LandsText DEF Lands, Wider
<1>5. ASSUME NEW c \in Producers, Land(c)
      PROVE  p \in DOMAIN log'[b] /\ Extends(Text[b][p], Text'[b][p])
  <2>1. PICK q : q = Current(c)
    OBVIOUS
  <2> QED
    BY <1>4, <1>5, <2>1, LandLands DEF Lands
<1>6. ASSUME NEW m \in late, LandLate(m)
      PROVE  p \in DOMAIN log'[b] /\ Extends(Text[b][p], Text'[b][p])
  BY <1>4, <1>6, LateLands DEF Lands
<1>7. CASE Resize
  <2>1. Moves /\ Types'
    BY <1>7, ResizeDisk, TypesNext DEF Types
  <2>2. PICK d \in Brokers : p \in DOMAIN log'[d] /\ log'[d][p] = log[b][p]
    BY <2>1 DEF Moves
  <2>3. Text'[d][p] = log'[d][p]
    BY <1>1, <2>2 DEF Text
  <2>4. Text[b][p] = log[b][p]
    BY TextIs
  <2> QED
    BY <1>2, <1>7, <2>2, <2>3, <2>4
<1> QED
  BY <1>3, <1>5, <1>6, <1>7, TextSteps

LEMMA FrozenNext ==
    ASSUME Types, [Next]_vars, ~ offline, NEW b \in Brokers, NEW p \in DOMAIN log[b], Owner(size, p) # b
    PROVE  p \in DOMAIN log'[b] /\ log'[b][p] = log[b][p]
<1>1. p \in Parts /\ Text[b][p] = log[b][p]
  BY TextIs
<1>2. ~ Resize
  BY DEF Resize
<1>3. p \in DOMAIN log'[b]
  BY <1>2, Persist
<1>4. Text'[b][p] = log'[b][p]
  BY <1>1, <1>3 DEF Text
<1>5. ASSUME NEW a \in Brokers, NEW r \in Parts, NEW rec \in Records, Lands(a, r, rec)
      PROVE  Text'[b][p] = Text[b][p]
  <2>1. a # b \/ r # p
    BY <1>5 DEF Lands
  <2> QED
    BY <1>1, <1>5, <2>1, LandsText
<1>6. ASSUME NEW c \in Producers, Land(c) PROVE Text'[b][p] = Text[b][p]
  <2>1. PICK q : q = Current(c)
    OBVIOUS
  <2> QED
    BY <1>5, <1>6, <2>1, LandLands DEF Lands
<1>7. ASSUME NEW m \in late, LandLate(m) PROVE Text'[b][p] = Text[b][p]
  BY <1>5, <1>7, LateLands DEF Lands
<1>8. Text'[b][p] = Text[b][p]
  BY <1>2, <1>6, <1>7, TextSteps DEF Untouched
<1> QED
  BY <1>1, <1>3, <1>4, <1>8

\* What lies on a disk that is not its owner's any more neither grows nor goes
\* before it is moved, with resizes that forget it too (Topic._check_partition
\* goes by what the broker owns, not by what it has).
THEOREM OrphansLeftAlone == Spec => OrphansFrozen
<1>1. Types /\ [Next]_vars =>
        (~ offline => \A b \in Brokers : \A p \in DOMAIN log[b] :
            Owner(size, p) # b => p \in DOMAIN log'[b] /\ log'[b][p] = log[b][p])
  BY FrozenNext
<1> QED
  BY <1>1, TypesInvariant, PTL DEF Spec, OrphansFrozen

-----------------------------------------------------------------------------
(* Consumers.                                                              *)

\* What a consumer was given is the beginning of the log of its partition.
Resumes ==
    \A c \in Consumers : seen[c] = <<>> \/
        \E b \in Brokers : Watch[c] \in DOMAIN log[b] /\ Extends(seen[c], Text[b][Watch[c]])

LEMMA ResumesNext == Types /\ AtHome /\ Resumes /\ [Next]_vars => Resumes'
<1> SUFFICES ASSUME Types, AtHome, Resumes, [Next]_vars, NEW c \in Consumers, seen'[c] # <<>>
             PROVE  \E b \in Brokers : Watch[c] \in DOMAIN log'[b] /\ Extends(seen'[c], Text'[b][Watch[c]])
  BY DEF Resumes
<1>1. Types' /\ Watch[c] \in Parts /\ seen[c] \in Seq(Records) /\ seen'[c] \in Seq(Records)
  BY TypesNext, ClientAssumption DEF Types, PastOK
<1>2. Text' \in [Brokers -> [Parts -> Seq(Records)]] /\ Text \in [Brokers -> [Parts -> Seq(Records)]]
  BY <1>1, TextType, TextTypeNext DEF Types
<1>3. CASE seen'[c] = seen[c]
  <2>1. PICK b \in Brokers : Watch[c] \in DOMAIN log[b] /\ Extends(seen[c], Text[b][Watch[c]])
    BY <1>3 DEF Resumes
  <2>2. PICK d \in Brokers : Watch[c] \in DOMAIN log'[d]
                             /\ Extends(Text[b][Watch[c]], Text'[d][Watch[c]])
    BY <2>1, Persist
  <2>3. Text[b][Watch[c]] \in Seq(Records) /\ Text'[d][Watch[c]] \in Seq(Records)
    BY <1>1, <1>2
  <2>4. Extends(seen[c], Text'[d][Watch[c]])
    BY <1>1, <2>1, <2>2, <2>3, ExtendsTransitive
  <2> QED
    BY <1>3, <2>2, <2>4
<1>4. CASE seen'[c] # seen[c]
  <2>1. PICK e \in Consumers : Read(e) /\ seen' # seen
    <3>1. UNCHANGED seen \/ \E e \in Consumers : Read(e)
      BY DEF Next, ClientStep, ProducerStep, ConsumerStep, Lookup, Fetched, FetchUnknown, FetchFails,
             Unavailable, Route, Land, Rejected, Redirected, NextStream, Returns, Locate,
             ReadRejected, ReadRedirected, Send, ReplyLost, Abandons, GivesUp, Consume, ReadFails,
             LandLate, BrokerStep, Start, Recover, Create, Crash, StopAll, Resize, vars
    <3> QED
      BY <1>4, <3>1
  <2>2. PICK b \in Brokers :
            /\ Watch[e] \in DOMAIN log'[b] /\ Owner(size, Watch[e]) = b
            /\ Len(seen[e]) < Len(Text[b][Watch[e]])
            /\ seen' = [seen EXCEPT ![e] = Append(@, Text[b][Watch[e]][Len(seen[e]) + 1])]
    BY <2>1, ReadIs
  <2>3. e = c
    BY <1>4, <2>2 DEF Types, PastOK
  <2>4. Untouched
    <3>1. c \in Clients /\ c \notin Producers /\ ClientStep(c)
      BY <2>1, <2>3, ClientAssumption DEF Clients, ClientStep, ConsumerStep
    <3> QED
      BY <3>1, ClientDisk DEF Types
  <2> DEFINE t == Text[b][Watch[c]]
             s == seen[c]
  <2>5. t \in Seq(Records) /\ s \in Seq(Records) /\ Len(s) < Len(t)
        /\ seen'[c] = Append(s, t[Len(s) + 1])
    BY <1>1, <1>2, <2>2, <2>3 DEF Types, PastOK
  <2>6. Extends(s, t)
    <3>1. CASE s = <<>>
      BY <2>5, <3>1 DEF Extends
    <3>2. CASE s # <<>>
      <4>1. PICK d \in Brokers : Watch[c] \in DOMAIN log[d] /\ Extends(s, Text[d][Watch[c]])
        BY <3>2 DEF Resumes
      <4>2. d = b
        BY <2>2, <2>3, <4>1 DEF AtHome
      <4> QED
        BY <4>1, <4>2
    <3> QED
      BY <3>1, <3>2
  <2> HIDE DEF s, t
  <2>7. Extends(Append(s, t[Len(s) + 1]), t)
    <3>1. PICK n \in Nat : n = Len(s)
      BY <2>5
    <3>2. t[n + 1] \in Records /\ Len(t) \in Nat
      BY <2>5, <3>1
    <3>3. Len(Append(s, t[n + 1])) = n + 1
          /\ \A i \in 1 .. n + 1 : Append(s, t[n + 1])[i] = IF i = n + 1 THEN t[n + 1] ELSE s[i]
      BY <2>5, <3>1, <3>2
    <3> QED
      BY <2>5, <2>6, <3>1, <3>2, <3>3 DEF Extends
  <2>8. Extends(seen'[c], Text'[b][Watch[c]])
    BY <2>4, <2>5, <2>7 DEF Untouched, t
  <2> QED
    BY <2>2, <2>3, <2>8
<1> QED
  BY <1>3, <1>4

\* With care, what a consumer was given over all its calls is the log of its
\* partition from the first record on, none skipped or repeated, over failures,
\* redirects and resizes (Consumer.consume from the offset after the last
\* record; BrokerServicer.Consume on the broker that has the log now).
THEOREM ConsumersResume == Spec => []ReadsResume
<1> DEFINE Inv == Types /\ (scene.careful => AtHome /\ Resumes)
<1>1. Init => Inv
  BY TypesInit, HomeInit DEF Init, Resumes
<1>2. Inv /\ [Next]_vars => Inv'
  BY TypesNext, HomeNext, SceneNext, ResumesNext DEF Types
<1>3. ASSUME Inv PROVE ReadsResume
  <2> SUFFICES ASSUME scene.careful, NEW c \in Consumers, seen[c] # <<>>
               PROVE  \E b \in Brokers :
                        /\ Watch[c] \in DOMAIN log[b] /\ Len(seen[c]) <= Len(log[b][Watch[c]])
                        /\ seen[c] = SubSeq(log[b][Watch[c]], 1, Len(seen[c]))
    BY DEF ReadsResume
  <2>1. PICK b \in Brokers : Watch[c] \in DOMAIN log[b] /\ Extends(seen[c], Text[b][Watch[c]])
    BY <1>3 DEF Resumes
  <2>2. PICK t \in Seq(Records) : t = Text[b][Watch[c]] /\ t = log[b][Watch[c]]
    BY <1>3, <2>1, TextIs
  <2>3. PICK s \in Seq(Records) : s = seen[c]
    BY <1>3 DEF Types, PastOK
  <2>4. Len(s) <= Len(t) /\ \A i \in 1 .. Len(s) : t[i] = s[i]
    BY <2>1, <2>2, <2>3 DEF Extends
  <2>5. s = SubSeq(t, 1, Len(s))
    <3>1. Len(s) \in Nat /\ Len(t) \in Nat
      OBVIOUS
    <3>2. /\ SubSeq(t, 1, Len(s)) \in Seq(Records)
          /\ Len(SubSeq(t, 1, Len(s))) = Len(s)
          /\ \A i \in 1 .. Len(s) : SubSeq(t, 1, Len(s))[i] = t[i]
      BY <2>4, <3>1
    <3> QED
      BY <2>4, <3>2, SeqEqual
  <2> QED
    BY <2>1, <2>2, <2>3, <2>4, <2>5
<1> QED
  BY <1>1, <1>2, <1>3, PTL DEF Spec

-----------------------------------------------------------------------------
(* What was answered can be found.                                         *)

\* A producer's call is over, starts again, or goes on without requests.
Resting(c) ==
    /\ call'[c].todo = {} /\ call'[c].done = {} /\ call'[c].n = call[c].n
    /\ call'[c].pc = "idle" \/ (call[c].pc # "idle" /\ call'[c].first = call[c].first)

LEMMA QuietRests == ASSUME NEW c \in Producers, Quiet(c) PROVE Resting(c)
BY ClientAssumption DEF Quiet, Resting

LEMMA CallSteps ==
    ASSUME Types, [Next]_vars, NEW c \in Producers
    PROVE  call'[c] = call[c] \/ Resting(c) \/ Send(c) \/ Route(c) \/ Land(c) \/ NextStream(c)
<1>0. c \in Clients
  BY DEF Clients
<1>1. ASSUME NEW d \in Clients, ClientStep(d)
      PROVE  call'[c] = call[c] \/ Resting(c) \/ Route(c) \/ Land(c) \/ NextStream(c)
  <2>1. CASE d = c
    BY <1>1, <2>1, ClientCalls, QuietRests DEF Types
  <2>2. CASE d # c
    <3>1. Only(d)
      BY <1>1, ClientCalls, RouteCalls, LandCalls, NextStreamCalls DEF Types, Quiet
    <3> QED
      BY <1>0, <2>2, <3>1 DEF Only
  <2> QED
    BY <2>1, <2>2
<1>2. ASSUME NEW d \in Producers, Send(d)
      PROVE  call'[c] = call[c] \/ Send(c)
  BY <1>0, <1>2, SendCalls DEF Types, Only
<1>3. ASSUME NEW d \in Clients, Quiet(d)
      PROVE  call'[c] = call[c] \/ Resting(c)
  BY <1>0, <1>3, QuietRests DEF Quiet, Only
<1>4. ASSUME NEW d \in Producers, ReplyLost(d) \/ Abandons(d) \/ GivesUp(d)
      PROVE  call'[c] = call[c] \/ Resting(c)
  <2>1. Quiet(d) /\ d \in Clients
    BY <1>4, NoAnswerCalls, EndStep DEF Types, ReplyLost, Abandons, GivesUp, Clients
  <2> QED
    BY <1>3, <2>1
<1>5. ASSUME NEW d \in Consumers, Consume(d) \/ ReadFails(d)
      PROVE  call'[c] = call[c] \/ Resting(c)
  <2>1. Quiet(d) /\ d \in Clients
    BY <1>5, ConsumeCalls, EndStep DEF Types, ReadFails, Clients
  <2> QED
    BY <1>3, <2>1
<1>6. CASE (\E b \in Brokers : Crash(b)) \/ StopAll
  <2>1. PICK stopped \in SUBSET Brokers : CutOff(stopped)
    BY <1>6, TypesStop, SceneNext DEF Types
  <2>2. call'[c] = call[c] \/ call'[c] = Ended(c)
    BY <1>0, <2>1, CutOffCalls DEF Types
  <2> QED
    BY <2>2 DEF Resting, Ended, Idle
<1>7. CASE \/ \E b \in Brokers : BrokerStep(b) \/ Create(b)
           \/ \E m \in late : LandLate(m)
           \/ Resize \/ UNCHANGED vars
  BY <1>7 DEF BrokerStep, Start, Recover, Create, LandLate, Resize, vars
<1> QED
  BY <1>1, <1>2, <1>4, <1>5, <1>6, <1>7 DEF Next

LEMMA DeliveredSteps ==
    ASSUME [Next]_vars
    PROVE  UNCHANGED delivered \/ \E c \in Producers : Returns(c)
BY DEF Next, ClientStep, ProducerStep, ConsumerStep, Lookup, Fetched, FetchUnknown, FetchFails,
       Unavailable, Route, Land, Rejected, Redirected, NextStream, Locate, Read, ReadRejected,
       ReadRedirected, Send, ReplyLost, Abandons, GivesUp, Consume, ReadFails, LandLate, BrokerStep,
       Start, Recover, Create, Crash, StopAll, Resize, vars, history

\* The responses that were returned, or that a call holds.
Answers == delivered \cup UNION {call[c].done : c \in Producers}

LEMMA AnswersNext ==
    ASSUME Types, [Next]_vars, NEW d \in Answers', d \notin Answers
    PROVE  \E c \in Producers : Land(c) /\ d = Response(c, Current(c))
<1>1. ASSUME d \in delivered' PROVE FALSE
  BY <1>1, DeliveredSteps DEF Answers, Returns
<1>2. PICK c \in Producers : d \in call'[c].done
  BY <1>1 DEF Answers
<1>3. d \notin call[c].done
  BY DEF Answers
<1>4. CASE Land(c)
  <2>1. PICK q : q = Current(c)
    OBVIOUS
  <2>2. call'[c].done = call[c].done \cup {Response(c, q)}
    BY <1>4, <2>1, LandCalls DEF Types
  <2>3. d = Response(c, q)
    BY <1>2, <1>3, <2>2
  <2> QED
    BY <1>4, <2>1, <2>3
<1>5. CASE ~ Land(c)
  BY <1>2, <1>3, <1>5, CallSteps, SendCalls, RouteCalls, NextStreamCalls DEF Types, Resting
<1> QED
  BY <1>4, <1>5

\* Directories are made by a broker that knows the topic, for partitions of its
\* own, and its count never changes.
Grows ==
    /\ UNCHANGED size
    /\ \A b \in Brokers : meta[b] # Absent => meta'[b] = meta[b]
    /\ \A b \in Brokers : \A p \in DOMAIN log'[b] :
        p \in DOMAIN log[b] \/ (Owner(size, p) = b /\ meta'[b] # Absent)

LEMMA GrowsOpened ==
    ASSUME Types, UNCHANGED size, NEW b \in Brokers, NEW n, n # Absent, meta[b] \in {Absent, n},
           meta' = [meta EXCEPT ![b] = n], NEW new, log' = [log EXCEPT ![b] = new],
           DOMAIN new \subseteq DOMAIN Opened(b, n)
    PROVE  Grows
<1>1. meta'[b] = n /\ log'[b] = new
      /\ \A d \in Brokers : d # b => meta'[d] = meta[d] /\ log'[d] = log[d]
  BY DEF Types, DiskOK
<1>2. \A p \in DOMAIN new : p \in DOMAIN log[b] \/ Owner(size, p) = b
  BY DEF Opened, Owns
<1> QED
  BY <1>1, <1>2 DEF Grows

LEMMA GrowsKnown ==
    ASSUME Types, UNCHANGED <<size, meta>>, NEW b \in Brokers, meta[b] # Absent,
           log' = [log EXCEPT ![b] = Opened(b, meta[b])]
    PROVE  Grows
<1>1. meta' = [meta EXCEPT ![b] = meta[b]]
  BY DEF Types, DiskOK
<1> QED
  BY <1>1, GrowsOpened

LEMMA GrowsSame == ASSUME UNCHANGED <<size, disk>> PROVE Grows
BY DEF Grows, disk

LEMMA CountKnown == ASSUME Types, NEW b \in Brokers PROVE CountAt(b) # Absent /\ meta[b] \in {Absent, CountAt(b)}
BY CreatedAssumption DEF Types, DiskOK, Counts, CountAt, Absent

LEMMA GrowsAsked ==
    ASSUME Types, UNCHANGED size, NEW b \in Brokers, Asked(b) PROVE Grows
BY CountKnown, GrowsOpened DEF Asked

LEMMA GrowsAppended ==
    ASSUME Types, UNCHANGED size, NEW b \in Brokers, NEW p, NEW rec, Appended(b, p, rec) PROVE Grows
<1> DEFINE new == [Opened(b, CountAt(b)) EXCEPT ![p] = Append(@, rec)]
<1>1. log' = [log EXCEPT ![b] = new] /\ meta' = [meta EXCEPT ![b] = CountAt(b)]
  BY DEF Appended
<1>2. DOMAIN new \subseteq DOMAIN Opened(b, CountAt(b))
  OBVIOUS
<1> HIDE DEF new
<1> QED
  BY <1>1, <1>2, CountKnown, GrowsOpened

LEMMA GrowsNext == ASSUME Types, [Next]_vars, ~ Resize PROVE Grows
<1>1. ASSUME NEW c \in Clients, ClientStep(c) PROVE Grows
  <2>1. CASE \/ Lookup(c) \/ FetchUnknown(c) \/ FetchFails(c) \/ Unavailable(c)
             \/ Route(c) \/ NextStream(c) \/ Returns(c) \/ Locate(c)
    BY <2>1, GrowsSame DEF Lookup, FetchUnknown, FetchFails, Unavailable, Route, NextStream,
                           Returns, Locate, cluster
  <2>2. CASE Fetched(c)
    BY <2>2, AskedIn, GrowsKnown DEF Fetched, Types, cluster
  <2>3. CASE Rejected(c) \/ Redirected(c)
    BY <2>3, ToIn, GrowsAsked DEF Rejected, Redirected, Types, cluster
  <2>4. CASE Land(c)
    BY <2>4, ToIn, GrowsAppended DEF Land, Types, cluster
  <2>5. CASE ReadRejected(c)
    <3>1. CASE meta[call[c].to] = Absent
      <4>1. log' = [log EXCEPT ![call[c].to] = @] /\ UNCHANGED <<size, meta>>
        BY <2>5, <3>1 DEF ReadRejected, cluster
      <4>2. UNCHANGED <<size, disk>>
        BY <4>1 DEF Types, DiskOK, disk
      <4> QED
        BY <4>2, GrowsSame
    <3>2. CASE meta[call[c].to] # Absent
      BY <2>5, <3>2, ToIn, GrowsKnown DEF ReadRejected, Types, cluster
    <3> QED
      BY <3>1, <3>2
  <2>6. CASE c \in Consumers /\ (Read(c) \/ ReadRedirected(c))
    <3>1. meta[call[c].to] # Absent
      BY <2>6, ClientAssumption, Numbers DEF Read, ReadRedirected, Absent, Parts
    <3> QED
      BY <2>6, <3>1, ToIn, GrowsKnown DEF Read, ReadRedirected, Types, cluster
  <2> QED
    BY <1>1, <2>1, <2>2, <2>3, <2>4, <2>5, <2>6 DEF ClientStep, ProducerStep, ConsumerStep
<1>2. ASSUME NEW c, \/ Send(c) \/ ReplyLost(c) \/ Abandons(c) \/ GivesUp(c)
                    \/ Consume(c) \/ ReadFails(c)
      PROVE  Grows
  BY <1>2, GrowsSame DEF Send, ReplyLost, Abandons, GivesUp, Consume, ReadFails, cluster
<1>3. ASSUME NEW m \in late, LandLate(m) PROVE Grows
  BY <1>3, GrowsAppended DEF LandLate, cluster, Types, LateOK, LateType
<1>4. ASSUME NEW b \in Brokers, BrokerStep(b) \/ Create(b) \/ Crash(b) PROVE Grows
  <2>1. CASE Start(b) \/ Crash(b)
    BY <2>1, GrowsSame DEF Start, Crash
  <2>2. CASE Recover(b)
    <3>1. CASE meta[b] = Absent
      <4>1. UNCHANGED <<size, disk>>
        BY <2>2, <3>1 DEF Recover, Types, DiskOK, disk
      <4> QED
        BY <4>1, GrowsSame
    <3>2. CASE meta[b] # Absent
      BY <2>2, <3>2, GrowsKnown DEF Recover
    <3> QED
      BY <3>1, <3>2
  <2>3. CASE Create(b)
    BY <2>3, CreatedAssumption, GrowsOpened DEF Create, Absent, cluster
  <2> QED
    BY <1>4, <2>1, <2>2, <2>3 DEF BrokerStep
<1>5. CASE StopAll \/ UNCHANGED vars
  BY <1>5, GrowsSame DEF StopAll, vars, cluster
<1> QED
  BY <1>1, <1>2, <1>3, <1>4, <1>5 DEF Next

\* Resizes happen while every broker is down.
LEMMA ResizeDown == ASSUME Types, Resize PROVE \A b \in Brokers : broker[b] = "down" /\ broker'[b] = "down"
BY DEF Resize, Types, ClusterOK

\* A broker with directories has the topic.
MetaOK == \A b \in Brokers : DOMAIN log[b] # {} => meta[b] # Absent

\* A broker that reports ready looked at its directories.
ReadyOK == \A b \in Brokers : broker[b] = "ready" => Foreign(b) = {}

\* A response can be found at its offset, and its partition is one the topic has.
Held(d, b) ==
    /\ d.part \in DOMAIN log[b] /\ d.off + 1 \in 1 .. Len(Text[b][d.part])
    /\ Text[b][d.part][d.off + 1] = <<d.from, d.n>>
Placed  == \A d \in Answers : \E b \in Brokers : Held(d, b)
Counted == \A d \in Answers : \E b \in Brokers : meta[b] # Absent /\ d.part < meta[b]

LEMMA MetaNext == ASSUME Types, CarriesMeta, MetaOK, [Next]_vars PROVE MetaOK'
<1>1. CASE Resize
  BY <1>1, ResizeDisk DEF Types, MetaOK
<1>2. CASE ~ Resize
  BY <1>2, GrowsNext DEF Grows, MetaOK
<1> QED
  BY <1>1, <1>2

\* Who reports ready did so before, or has just looked.
LEMMA ReadySteps ==
    ASSUME Types, [Next]_vars, NEW b \in Brokers, broker'[b] = "ready"
    PROVE  broker[b] = "ready" \/ Recover(b)
<1>1. ASSUME NEW c \in Clients, ClientStep(c) PROVE UNCHANGED broker
  BY <1>1, ClientCalls DEF cluster, Types
<1>2. ASSUME NEW c, \/ Send(c) \/ ReplyLost(c) \/ Abandons(c) \/ GivesUp(c)
                    \/ Consume(c) \/ ReadFails(c)
      PROVE  UNCHANGED broker
  BY <1>2 DEF Send, ReplyLost, Abandons, GivesUp, Consume, ReadFails, cluster
<1>3. CASE (\E m \in late : LandLate(m)) \/ Resize \/ UNCHANGED vars \/ (\E d \in Brokers : Create(d))
  BY <1>3 DEF LandLate, Resize, vars, Create, cluster
<1>4. ASSUME NEW d \in Brokers, Start(d) \/ Recover(d) \/ Crash(d)
      PROVE  broker[b] = "ready" \/ Recover(b)
  <2>1. CASE d = b
    BY <1>4, <2>1 DEF Start, Crash, Types, ClusterOK
  <2>2. CASE d # b
    BY <1>4, <2>2 DEF Start, Recover, Crash, Types, ClusterOK
  <2> QED
    BY <2>1, <2>2
<1>5. ~ StopAll
  BY DEF StopAll
<1> QED
  BY <1>1, <1>2, <1>3, <1>4, <1>5 DEF Next, BrokerStep

LEMMA ReadyNext == ASSUME Types, MetaOK, ReadyOK, [Next]_vars PROVE ReadyOK'
<1> SUFFICES ASSUME NEW b \in Brokers, broker'[b] = "ready", NEW p \in DOMAIN log'[b]
             PROVE  Owner(size', p) = b
  BY DEF ReadyOK, Foreign, Owns, Owner
<1>1. ~ Resize
  BY ResizeDown
<1>2. Grows
  BY <1>1, GrowsNext
<1>3. CASE p \in DOMAIN log[b]
  <2>1. CASE broker[b] = "ready"
    BY <1>2, <1>3, <2>1 DEF ReadyOK, Foreign, Owns, Grows
  <2>2. CASE Recover(b) /\ broker[b] # "ready"
    <3>1. Foreign(b) = {}
      <4>1. meta[b] # Absent
        BY <1>3 DEF MetaOK
      <4>2. broker'[b] = IF meta[b] # Absent /\ Foreign(b) # {} THEN "refused" ELSE "ready"
        BY <2>2 DEF Recover, Types, ClusterOK
      <4> QED
        BY <4>1, <4>2
    <3> QED
      BY <1>2, <1>3, <3>1 DEF Foreign, Owns, Grows
  <2> QED
    BY <2>1, <2>2, ReadySteps
<1>4. CASE p \notin DOMAIN log[b]
  BY <1>2, <1>4 DEF Grows
<1> QED
  BY <1>3, <1>4

LEMMA HeldNext ==
    ASSUME Types, [Next]_vars, NEW d, NEW b \in Brokers, Held(d, b), d.off \in Nat
    PROVE  \E e \in Brokers :
                /\ d.part \in DOMAIN log'[e] /\ d.off + 1 \in 1 .. Len(Text'[e][d.part])
                /\ Text'[e][d.part][d.off + 1] = <<d.from, d.n>>
<1>1. PICK p, i, rec : p = d.part /\ i = d.off + 1 /\ rec = <<d.from, d.n>>
  OBVIOUS
<1>2. p \in DOMAIN log[b] /\ i \in 1 .. Len(Text[b][p]) /\ Text[b][p][i] = rec
  BY <1>1 DEF Held
<1>3. PICK e \in Brokers : p \in DOMAIN log'[e] /\ Extends(Text[b][p], Text'[e][p])
  BY <1>2, Persist
<1>4. Types'
  BY TypesNext
<1>5. p \in Parts /\ Text[b][p] \in Seq(Records)
  BY <1>2, TextIs
<1>6. Text'[e][p] \in Seq(Records)
  BY <1>4, <1>5, TextTypeNext DEF Types
<1>7. i \in 1 .. Len(Text'[e][p]) /\ Text'[e][p][i] = rec
  BY <1>2, <1>3, <1>5, <1>6 DEF Extends
<1> QED
  BY <1>1, <1>3, <1>7

\* The response to an append tells where the record is, and the topic has the
\* partition.
LEMMA LandHeld ==
    ASSUME Types, NEW c \in Producers, Land(c), NEW q, q = Current(c), NEW d, d = Response(c, q)
    PROVE  /\ q.to \in Brokers /\ d \in Responses
           /\ d.part \in DOMAIN log'[q.to] /\ d.off + 1 \in 1 .. Len(Text'[q.to][d.part])
           /\ Text'[q.to][d.part][d.off + 1] = <<d.from, d.n>>
           /\ meta'[q.to] # Absent /\ d.part < meta'[q.to]
<1>1. Lands(q.to, q.part, <<c, q.n>>)
  BY LandLands
<1>2. PICK b \in Brokers, p \in Parts, rec \in Records : b = q.to /\ p = q.part /\ rec = <<c, q.n>>
  BY <1>1 DEF Lands
<1>3. Lands(b, p, rec)
  BY <1>1, <1>2
<1>4. PICK len \in Nat : len = Len(Text[b][p])
  BY <1>2, TextType DEF Types
<1>5. /\ d.from = c /\ d.n = q.n /\ d.part = p /\ d.off = len
  BY <1>2, <1>4 DEF Response
<1>6. Len(Text'[b][p]) = len + 1 /\ Text'[b][p][len + 1] = rec
  BY <1>3, <1>4, LandsText
<1>7. p \in DOMAIN log'[b] /\ meta'[b] # Absent /\ p < meta'[b]
  BY <1>3, CountKnown DEF Lands
<1>8. d \in Responses
  <2>1. d \in call'[c].done /\ CallsOK'
    BY LandCalls DEF Types
  <2> QED
    BY <2>1 DEF CallsOK, CallType, Clients
<1>9. rec = <<d.from, d.n>>
  BY <1>2, <1>5
<1>10. d.off + 1 = len + 1 /\ len + 1 \in 1 .. Len(Text'[b][p])
  BY <1>4, <1>5, <1>6
<1>11. Text'[b][p][d.off + 1] = rec
  BY <1>6, <1>10
<1>12. d.part \in DOMAIN log'[b] /\ d.part < meta'[b] /\ meta'[b] # Absent
  BY <1>5, <1>7
<1>13. d.off + 1 \in 1 .. Len(Text'[b][d.part]) /\ Text'[b][d.part][d.off + 1] = <<d.from, d.n>>
  BY <1>5, <1>9, <1>10, <1>11
<1> QED
  BY <1>2, <1>8, <1>12, <1>13

LEMMA AnswersType == ASSUME Types, NEW d \in Answers PROVE d \in Responses
BY DEF Types, PastOK, CallsOK, CallType, Clients, Answers

LEMMA PlacedNext == ASSUME Types, Placed, [Next]_vars PROVE Placed'
<1> SUFFICES ASSUME NEW d \in Answers'
             PROVE  \E e \in Brokers :
                        /\ d.part \in DOMAIN log'[e] /\ d.off + 1 \in 1 .. Len(Text'[e][d.part])
                        /\ Text'[e][d.part][d.off + 1] = <<d.from, d.n>>
  BY DEF Placed, Held
<1>1. CASE d \in Answers
  <2>1. d.off \in Nat
    BY <1>1, AnswersType DEF Responses
  <2>2. PICK b \in Brokers : Held(d, b)
    BY <1>1 DEF Placed
  <2> QED
    BY <2>1, <2>2, HeldNext
<1>2. CASE d \notin Answers
  <2>1. PICK c, q : c \in Producers /\ Land(c) /\ q = Current(c) /\ d = Response(c, q)
    BY <1>2, AnswersNext
  <2> QED
    BY <2>1, LandHeld
<1> QED
  BY <1>1, <1>2

LEMMA MetaKept ==
    ASSUME Types, [Next]_vars, NEW b \in Brokers, meta[b] # Absent PROVE meta'[b] = meta[b]
<1>1. CASE Resize
  BY <1>1, ResizeDisk DEF Types
<1>2. CASE ~ Resize
  BY <1>2, GrowsNext DEF Grows
<1> QED
  BY <1>1, <1>2

LEMMA CountedNext == ASSUME Types, Counted, [Next]_vars PROVE Counted'
<1> SUFFICES ASSUME NEW d \in Answers'
             PROVE  \E b \in Brokers : meta'[b] # Absent /\ d.part < meta'[b]
  BY DEF Counted
<1>1. CASE d \in Answers
  <2>1. PICK b \in Brokers : meta[b] # Absent /\ d.part < meta[b]
    BY <1>1 DEF Counted
  <2> QED
    BY <2>1, MetaKept
<1>2. CASE d \notin Answers
  <2>1. PICK c, q : c \in Producers /\ Land(c) /\ q = Current(c) /\ d = Response(c, q)
    BY <1>2, AnswersNext
  <2> QED
    BY <2>1, LandHeld
<1> QED
  BY <1>1, <1>2

\* When all brokers are ready and agree on the partition count, every record
\* that send or send_batch returned is read back from the broker that the
\* metadata names, at its partition and offset; without care, if not there then
\* on the disk of a broker that left.  For a migration that takes topic.json
\* along (docs/operations.md: "its partitions ... then return intact").
THEOREM AnswersReachable == Spec => [](CarriesMeta => Reachable)
<1> DEFINE Inv == /\ Types /\ (scene.careful => AtHome)
                  /\ Placed /\ Counted /\ (CarriesMeta => MetaOK /\ ReadyOK)
<1>1. Init => Inv
  <2> SUFFICES ASSUME Init PROVE Inv
    OBVIOUS
  <2>1. Answers = {}
    BY DEF Init, Answers, Idle, Clients
  <2>2. MetaOK /\ ReadyOK
    BY DEF Init, MetaOK, ReadyOK, Foreign
  <2> QED
    BY <2>1, <2>2, TypesInit, HomeInit DEF Placed, Counted
<1>2. Inv /\ [Next]_vars => Inv'
  BY TypesNext, HomeNext, SceneNext, PlacedNext, CountedNext, MetaNext, ReadyNext DEF Types
<1>3. ASSUME Inv PROVE CarriesMeta => Reachable
  <2> SUFFICES ASSUME CarriesMeta, Agreed, \A b \in 0 .. size - 1 : broker[b] = "ready",
                      NEW d \in delivered
               PROVE  \/ d.part < meta[Owner(size, d.part)] /\ Holds(Owner(size, d.part), d)
                      \/ ~ scene.careful /\ \E b \in Brokers : b >= size /\ Holds(b, d)
    BY DEF Reachable
  <2>1. d \in Answers /\ d \in Responses
    BY <1>3 DEF Answers, Types, PastOK
  <2>2. PICK p \in Parts, off \in Nat : p = d.part /\ off = d.off
    BY <2>1 DEF Responses
  <2>3. PICK b \in Brokers : Held(d, b)
    BY <1>3, <2>1 DEF Placed
  <2>4. p \in DOMAIN log[b] /\ Text[b][p] = log[b][p] /\ Text[b][p] \in Seq(Records)
    BY <1>3, <2>2, <2>3, TextIs DEF Held
  <2>5. Holds(b, d)
    <3>1. off + 1 \in 1 .. Len(log[b][p]) /\ log[b][p][off + 1] = <<d.from, d.n>>
      BY <2>2, <2>3, <2>4 DEF Held
    <3>2. off < Len(log[b][p])
      BY <2>4, <3>1
    <3> QED
      BY <2>2, <2>4, <3>1, <3>2 DEF Holds
  <2>6. size \in 1 .. MaxBrokers /\ b \in Nat
    BY <1>3, SizeAssumption DEF Types, ClusterOK, Brokers
  <2>7. CASE b < size
    <3>1. broker[b] = "ready"
      BY <2>6, <2>7
    <3>2. Owner(size, p) = b
      BY <1>3, <2>4, <3>1 DEF ReadyOK, Foreign, Owns
    <3>3. PICK a \in Brokers : meta[a] # Absent /\ p < meta[a]
      BY <1>3, <2>1, <2>2 DEF Counted
    <3>4. meta[b] # Absent
      BY <1>3, <2>4 DEF MetaOK
    <3>5. meta[a] = meta[b]
      BY <3>3, <3>4 DEF Agreed
    <3> QED
      BY <2>2, <2>5, <3>2, <3>3, <3>5
  <2>8. CASE b >= size
    <3>1. scene.careful => Owner(size, p) = b
      BY <1>3, <2>4 DEF AtHome
    <3>2. Owner(size, p) \in 0 .. size - 1
      BY <2>2, <2>6, OwnerIn
    <3>3. ~ scene.careful
      BY <2>6, <2>8, <3>1, <3>2
    <3> QED
      BY <2>5, <2>8, <3>3
  <2> QED
    BY <2>6, <2>7, <2>8
<1> QED
  BY <1>1, <1>2, <1>3, PTL DEF Spec

-----------------------------------------------------------------------------
(* Batches.                                                                *)

\* The records of a batch that go before record n of producer c.
Earlier(c, n) ==
    {m \in 1 .. n : SameBatch(c, m, n) /\ Sends[c][m] = Sends[c][n] /\ Sends[c][n] # NoKey}

Before(rec) == {<<rec[1], m>> : m \in Earlier(rec[1], rec[2])}

InText(b, p, rec) == \E j \in 1 .. Len(Text[b][p]) : Text[b][p][j] = rec

\* Wherever a record of a batch is, those before it are.
PrefixOK ==
    \A b \in Brokers, p \in Parts : \A i \in 1 .. Len(Text[b][p]) :
        \A e \in Before(Text[b][p][i]) : \E j \in 1 .. i - 1 : Text[b][p][j] = e

\* The records before one that waits go to the same broker, for the same
\* partition; they wait too, or are in the log of the stream that is open.
QueueOK ==
    \A c \in Producers : \A q \in call[c].todo : \A m \in Earlier(c, q.n) :
        \/ \E r \in call[c].todo : r.n = m /\ r.part = q.part /\ r.to = q.to
        \/ call[c].pc = "send" /\ q.to = call[c].to /\ Accepts(q.to) /\ InText(q.to, q.part, <<c, m>>)

\* So it is with a record whose client is gone.
LateFits == \A x \in late : \A e \in Before(x.rec) : InText(x.to, x.part, e)

LEMMA BeforeIs ==
    ASSUME NEW c, NEW n, NEW e \in Before(<<c, n>>)
    PROVE  \E m \in Earlier(c, n) : e = <<c, m>>
<1>1. <<c, n>>[1] = c /\ <<c, n>>[2] = n
  OBVIOUS
<1> QED
  BY <1>1 DEF Before

\* No log is overwritten, but by a resize.
LEMMA TextStays ==
    ASSUME Types, [Next]_vars, ~ Resize, NEW b \in Brokers, NEW p \in Parts,
           NEW i \in 1 .. Len(Text[b][p])
    PROVE  i \in 1 .. Len(Text'[b][p]) /\ Text'[b][p][i] = Text[b][p][i]
<1>1. Text[b][p] \in Seq(Records) /\ Text'[b][p] \in Seq(Records)
  BY TypesNext, TextType, TextTypeNext DEF Types
<1>2. p \in DOMAIN log[b]
  BY DEF Text
<1>3. Extends(Text[b][p], Text'[b][p])
  BY <1>2, Persist
<1> QED
  BY <1>1, <1>3 DEF Extends

LEMMA InTextStays ==
    ASSUME Types, [Next]_vars, ~ Resize, NEW b \in Brokers, NEW p \in Parts, NEW rec, InText(b, p, rec)
    PROVE  \E j \in 1 .. Len(Text'[b][p]) : Text'[b][p][j] = rec
BY TextStays DEF InText

\* A record of a batch, and those before it, are of the call that is on.
LEMMA EarlierInCall ==
    ASSUME Types, NEW c \in Producers, call[c].pc # "idle", NEW n \in call[c].first .. call[c].n,
           NEW m \in Earlier(c, n)
    PROVE  m \in call[c].first .. n - 1 /\ Batch(c) /\ Sends[c][m] = Sends[c][n] /\ Sends[c][n] # NoKey
<1>1. CallFits(c, call[c]) /\ call[c] \in CallType
  BY DEF Types, CallsOK, Clients
<1>2. PICK first \in Nat, last \in Nat : first = call[c].first /\ last = call[c].n
  BY <1>1 DEF CallType
<1>3. PICK len \in Nat : len = Len(Sends[c]) /\ DOMAIN Sends[c] = 1 .. len
  BY ClusterBounds
<1>4. /\ first \in 1 .. last /\ last \in 0 .. len
      /\ last = IF Upto[c][first] = 0 THEN first ELSE Upto[c][first]
      /\ \A g \in 1 .. first - 1 : Upto[c][g] < first
  BY <1>1, <1>2, <1>3 DEF CallFits, Between
<1>5. \A g \in 1 .. len : Upto[c][g] \in 0 .. len
  BY <1>3, CallsAssumption
<1>6. m \in 1 .. n /\ SameBatch(c, m, n) /\ Sends[c][m] = Sends[c][n] /\ Sends[c][n] # NoKey
  BY DEF Earlier
<1>7. PICK f \in 1 .. m : m < n /\ n <= Upto[c][f]
  BY <1>6 DEF SameBatch
<1>8. n \in first .. last
  BY <1>2
<1>9. f >= first
  <2>1. f \in 1 .. len
    BY <1>4, <1>6, <1>7, <1>8
  <2>2. PICK upto \in Nat : upto = Upto[c][f]
    BY <1>5, <2>1
  <2>3. f < first => upto < first
    BY <1>4, <2>1, <2>2
  <2> QED
    BY <1>7, <1>8, <2>1, <2>2, <2>3
<1>10. m \in first .. n - 1
  BY <1>2, <1>4, <1>6, <1>7, <1>8, <1>9
<1>11. Upto[c][first] > 0
  BY <1>4, <1>5, <1>8, <1>10
<1> QED
  BY <1>2, <1>4, <1>6, <1>10, <1>11 DEF Batch

\* A broker stops answering only when it is stopped, which ends its streams.
LEMMA StopsCutOff ==
    ASSUME Types, [Next]_vars, NEW b \in Brokers, Accepts(b), broker'[b] = "down"
    PROVE  \E stopped \in SUBSET Brokers : CutOff(stopped) /\ b \in stopped
<1>1. ASSUME NEW c \in Clients, ClientStep(c) PROVE UNCHANGED broker
  BY <1>1, ClientCalls DEF cluster, Types
<1>2. ASSUME NEW c, \/ Send(c) \/ ReplyLost(c) \/ Abandons(c) \/ GivesUp(c)
                    \/ Consume(c) \/ ReadFails(c)
      PROVE  UNCHANGED broker
  BY <1>2 DEF Send, ReplyLost, Abandons, GivesUp, Consume, ReadFails, cluster
<1>3. CASE (\E m \in late : LandLate(m)) \/ Resize \/ UNCHANGED vars \/ (\E d \in Brokers : Create(d))
  BY <1>3 DEF LandLate, Resize, vars, Create, cluster, Accepts
<1>4. ASSUME NEW d \in Brokers, Start(d) \/ Recover(d) PROVE FALSE
  BY <1>4 DEF Start, Recover, Types, ClusterOK, Accepts
<1>5. CASE (\E d \in Brokers : Crash(d)) \/ StopAll
  BY <1>5, TypesStop, SceneNext DEF Types, Accepts
<1>6. UNCHANGED broker => FALSE
  BY DEF Accepts
<1> QED
  BY <1>1, <1>2, <1>3, <1>4, <1>5, <1>6 DEF Next, BrokerStep

\* A request of an open stream has those before it in the log.
LEMMA CurrentPrefix ==
    ASSUME Types, QueueOK, NEW c \in Producers, call[c].pc = "send", NEW q \in call[c].todo,
           q.to = call[c].to, \A r \in call[c].todo : r.to = call[c].to => q.n <= r.n,
           NEW m \in Earlier(c, q.n)
    PROVE  InText(q.to, q.part, <<c, m>>)
<1>1. q.n \in call[c].first .. call[c].n
  BY DEF Types, CallsOK, CallFits, Clients
<1>2. m \in call[c].first .. q.n - 1 /\ q.n \in Nat /\ m \in Nat
  <2>1. m \in call[c].first .. q.n - 1 /\ call[c].first \in Nat /\ call[c].n \in Nat
    BY <1>1, EarlierInCall DEF Types, CallsOK, CallType, Clients
  <2> QED
    BY <1>1, <2>1
<1>3. ~ \E r \in call[c].todo : r.n = m /\ r.part = q.part /\ r.to = q.to
  BY <1>2
<1> QED
  BY <1>3 DEF QueueOK

\* A new plan has all records of a key in one partition.
LEMMA PlanQueues ==
    ASSUME Types, NEW c \in Producers, Route(c), NEW q \in call'[c].todo, NEW m \in Earlier(c, q.n)
    PROVE  \E r \in call'[c].todo : r.n = m /\ r.part = q.part /\ r.to = q.to
<1>1. PICK plan : Planned(c, plan)
  BY RouteCalls DEF Types
<1>2. PICK n \in call[c].first .. call[c].n : q = Request(c, n, plan[n])
  BY <1>1 DEF Planned
<1>3. q.n = n /\ q.part = plan[n] /\ q.to = Owner(routing[c].size, plan[n])
  BY <1>2 DEF Request
<1>4. m \in call[c].first .. n - 1 /\ Sends[c][m] = Sends[c][n] /\ Sends[c][n] # NoKey
  <2>1. call[c].pc # "idle"
    BY RouteCalls DEF Types
  <2> QED
    BY <1>2, <1>3, <2>1, EarlierInCall
<1>5. m \in call[c].first .. call[c].n
  <2>1. call[c].first \in Nat /\ call[c].n \in Nat
    BY DEF Types, CallsOK, CallType, Clients
  <2> QED
    BY <1>2, <1>4, <2>1
<1>6. plan[m] = plan[n]
  BY <1>1, <1>2, <1>4, <1>5 DEF Planned, PartitionFor
<1>7. Request(c, m, plan[m]) \in call'[c].todo
  BY <1>1, <1>5 DEF Planned
<1>8. Request(c, m, plan[m]).n = m /\ Request(c, m, plan[m]).part = q.part
      /\ Request(c, m, plan[m]).to = q.to
  BY <1>3, <1>6 DEF Request
<1> QED
  BY <1>7, <1>8

LEMMA QueueNext == ASSUME Types, QueueOK, [Next]_vars PROVE QueueOK'
<1> SUFFICES ASSUME NEW c \in Producers, NEW q \in call'[c].todo, NEW m \in Earlier(c, q.n)
             PROVE  \/ \E r \in call'[c].todo : r.n = m /\ r.part = q.part /\ r.to = q.to
                    \/ /\ call'[c].pc = "send" /\ q.to = call'[c].to /\ broker'[q.to] # "down"
                       /\ \E j \in 1 .. Len(Text'[q.to][q.part]) : Text'[q.to][q.part][j] = <<c, m>>
  BY DEF QueueOK, InText, Accepts, Earlier
<1>0. Types' /\ c \in Clients
  BY TypesNext DEF Clients
<1>1. ~ Resting(c) /\ ~ Send(c)
  BY SendCalls DEF Resting, Types
<1>2. CASE Route(c)
  BY <1>2, PlanQueues
<1> DEFINE waits == \E r \in call[c].todo : r.n = m /\ r.part = q.part /\ r.to = q.to
           lies  == /\ call[c].pc = "send" /\ q.to = call[c].to /\ Accepts(q.to)
                    /\ InText(q.to, q.part, <<c, m>>)
<1>3. CASE NextStream(c)
  <2>1. q \in call[c].todo /\ call'[c].todo = call[c].todo /\ call[c].pc = "landed"
    BY <1>3, NextStreamCalls DEF Types
  <2>2. waits \/ lies
    BY <2>1 DEF QueueOK
  <2>3. waits
    BY <2>1, <2>2
  <2> QED
    BY <2>1, <2>3
<1>4. CASE Land(c)
  <2>1. PICK z : z = Current(c)
    OBVIOUS
  <2>2. /\ z \in call[c].todo /\ call'[c].todo = call[c].todo \ {z} /\ z.to = call[c].to
        /\ call'[c].to = call[c].to /\ call'[c].pc = IF Group(c) = {z} THEN "landed" ELSE "send"
    BY <1>4, <2>1, LandCalls DEF Types
  <2>3. q \in call[c].todo /\ q # z /\ q \in Requests
    BY <1>0, <2>2 DEF Types, CallsOK, CallType
  <2>4. waits \/ lies
    BY <2>3 DEF QueueOK
  <2>5. ~ Resize /\ UNCHANGED broker /\ Accepts(call[c].to)
    BY <1>4 DEF Land, Resize, cluster, Types, ClusterOK
  <2>6. q.to = call[c].to => call'[c].pc = "send"
    BY <2>2, <2>3 DEF Group
  <2>7. CASE lies
    BY <2>2, <2>3, <2>5, <2>6, <2>7, InTextStays DEF Accepts, Requests
  <2>8. CASE waits
    <3>1. PICK r \in call[c].todo : r.n = m /\ r.part = q.part /\ r.to = q.to
      BY <2>8
    <3>2. CASE r # z
      BY <2>2, <3>1, <3>2
    <3>3. CASE r = z
      <4>1. Lands(z.to, z.part, <<c, z.n>>)
        BY <1>4, <2>1, LandLands
      <4>2. PICK b \in Brokers, p \in Parts, rec \in Records : b = q.to /\ p = q.part /\ rec = <<c, m>>
        BY <3>1, <3>3, <4>1 DEF Lands
      <4>3. Lands(b, p, rec)
        BY <3>1, <3>3, <4>1, <4>2
      <4>4. PICK len \in Nat : len = Len(Text[b][p])
        BY TextType DEF Types
      <4>5. Len(Text'[b][p]) = len + 1 /\ Text'[b][p][len + 1] = rec
        BY <4>3, <4>4, LandsText
      <4>6. \E j \in 1 .. Len(Text'[b][p]) : Text'[b][p][j] = rec
        BY <4>4, <4>5
      <4> QED
        BY <2>2, <2>5, <2>6, <3>1, <3>3, <4>2, <4>6 DEF Accepts
    <3> QED
      BY <3>2, <3>3
  <2> QED
    BY <2>4, <2>7, <2>8
<1>5. CASE call'[c] = call[c]
  <2>1. q \in call[c].todo /\ q \in Requests
    BY <1>0, <1>5 DEF Types, CallsOK, CallType
  <2>2. waits \/ lies
    BY <2>1 DEF QueueOK
  <2>3. CASE waits
    BY <1>5, <2>3
  <2>4. CASE lies
    <3>1. ~ Resize
      BY <2>1, <2>4, ResizeDown DEF Accepts, Requests
    <3>2. \E j \in 1 .. Len(Text'[q.to][q.part]) : Text'[q.to][q.part][j] = <<c, m>>
      BY <2>1, <2>4, <3>1, InTextStays DEF Requests
    <3>3. broker'[q.to] # "down"
      <4> SUFFICES ASSUME broker'[q.to] = "down" PROVE FALSE
        OBVIOUS
      <4>1. PICK stopped \in SUBSET Brokers : CutOff(stopped) /\ q.to \in stopped
        BY <2>1, <2>4, StopsCutOff DEF Requests
      <4>2. q.n \in call[c].first .. call[c].n
        BY <1>0, <2>1 DEF Types, CallsOK, CallFits
      <4>3. Batch(c)
        BY <2>4, <4>2, EarlierInCall
      <4>4. call'[c] = Ended(c)
        BY <1>0, <2>4, <4>1, <4>3, CutOffCalls DEF Types, Stream
      <4> QED
        BY <4>4 DEF Ended, Idle
    <3> QED
      BY <1>5, <2>4, <3>2, <3>3
  <2> QED
    BY <2>2, <2>3, <2>4
<1> QED
  BY <1>1, <1>2, <1>3, <1>4, <1>5, CallSteps

LEMMA LateFitsNext == ASSUME Types, QueueOK, LateFits, [Next]_vars PROVE LateFits'
<1> SUFFICES ASSUME NEW x \in late', NEW e \in Before(x.rec)
             PROVE  \E j \in 1 .. Len(Text'[x.to][x.part]) : Text'[x.to][x.part][j] = e
  BY DEF LateFits, InText
<1>1. Types' /\ x.to \in Brokers /\ x.part \in Parts /\ broker'[x.to] # "down"
  BY TypesNext DEF Types, LateOK, LateType, Accepts
<1>2. ~ Resize
  BY <1>1, ResizeDown
<1>3. InText(x.to, x.part, e)
  <2>1. CASE x \in late
    BY <2>1 DEF LateFits
  <2>2. CASE x \notin late
    <3>1. PICK d \in Producers : Abandons(d)
      BY <1>2, <2>2 DEF Next, ClientStep, ProducerStep, ConsumerStep, Lookup, Fetched, FetchUnknown,
         FetchFails, Unavailable, Route, Land, Rejected, Redirected, NextStream, Returns, Locate,
         Read, ReadRejected, ReadRedirected, Send, ReplyLost, GivesUp, Consume, ReadFails, LandLate,
         BrokerStep, Start, Recover, Create, Crash, StopAll, CutOff, vars
    <3>2. PICK q \in call[d].todo :
              /\ q = Current(d) /\ q \in Requests /\ <<d, q.n>> \in Records /\ q.to = call[d].to
              /\ \A r \in call[d].todo : r.to = call[d].to => q.n <= r.n
              /\ late' = late \cup {[rec |-> <<d, q.n>>, part |-> q.part, to |-> q.to]}
      BY <3>1, TypesAbandons, SceneNext DEF Types
    <3>3. x = [rec |-> <<d, q.n>>, part |-> q.part, to |-> q.to]
      BY <2>2, <3>2
    <3>4. PICK m \in Earlier(d, q.n) : e = <<d, m>>
      BY <3>3, BeforeIs
    <3>5. call[d].pc = "send"
      BY <3>1 DEF Abandons
    <3>6. InText(q.to, q.part, <<d, m>>)
      BY <3>2, <3>5, CurrentPrefix
    <3> QED
      BY <3>3, <3>4, <3>6
  <2> QED
    BY <2>1, <2>2
<1> QED
  BY <1>1, <1>2, <1>3, InTextStays

\* A record whose predecessors are there comes to the end of a log.
LEMMA PrefixLands ==
    ASSUME Types, PrefixOK, NEW b \in Brokers, NEW p \in Parts, NEW rec \in Records,
           Lands(b, p, rec), \A e \in Before(rec) : InText(b, p, e)
    PROVE  PrefixOK'
<1> SUFFICES ASSUME NEW d \in Brokers, NEW r \in Parts, NEW i \in 1 .. Len(Text'[d][r]),
                    NEW e \in Before(Text'[d][r][i])
             PROVE  \E j \in 1 .. i - 1 : Text'[d][r][j] = e
  BY DEF PrefixOK
<1>1. CASE d # b \/ r # p
  <2>1. Text'[d][r] = Text[d][r]
    BY <1>1, LandsText
  <2>2. i \in 1 .. Len(Text[d][r]) /\ e \in Before(Text[d][r][i])
    BY <2>1
  <2>3. \E j \in 1 .. i - 1 : Text[d][r][j] = e
    BY <2>2 DEF PrefixOK
  <2> QED
    BY <2>1, <2>3
<1>2. CASE d = b /\ r = p
  <2>1. PICK len \in Nat : len = Len(Text[b][p])
    BY TextType DEF Types
  <2>2. /\ Len(Text'[b][p]) = len + 1 /\ Text'[b][p][len + 1] = rec
        /\ \A j \in 1 .. len : Text'[b][p][j] = Text[b][p][j]
    BY <2>1, LandsText
  <2>3. CASE i = len + 1
    <3>1. PICK j \in 1 .. len : Text[b][p][j] = e
      BY <1>2, <2>1, <2>2, <2>3 DEF InText
    <3>2. j \in 1 .. i - 1 /\ Text'[b][p][j] = e
      BY <2>1, <2>2, <2>3, <3>1
    <3> QED
      BY <1>2, <3>2
  <2>4. CASE i \in 1 .. len
    <3>0. i \in 1 .. Len(Text[b][p]) /\ e \in Before(Text[b][p][i])
      BY <1>2, <2>1, <2>2, <2>4
    <3>1. PICK j \in 1 .. i - 1 : Text[b][p][j] = e
      BY <3>0 DEF PrefixOK
    <3>2. j \in 1 .. len
      BY <2>1, <2>4, <3>1
    <3> QED
      BY <1>2, <2>2, <3>1, <3>2
  <2>5. i \in 1 .. len + 1
    BY <1>2, <2>2
  <2> QED
    BY <2>1, <2>3, <2>4, <2>5
<1> QED
  BY <1>1, <1>2

LEMMA PrefixNext == ASSUME Types, QueueOK, LateFits, PrefixOK, [Next]_vars PROVE PrefixOK'
<1>1. CASE Untouched
  <2> SUFFICES ASSUME NEW d \in Brokers, NEW p \in Parts, NEW i \in 1 .. Len(Text'[d][p]),
                      NEW e \in Before(Text'[d][p][i])
               PROVE  \E j \in 1 .. i - 1 : Text'[d][p][j] = e
    BY DEF PrefixOK
  <2>1. Text' = Text
    BY <1>1 DEF Untouched
  <2> QED
    BY <2>1 DEF PrefixOK
<1>2. ASSUME NEW c \in Producers, Land(c) PROVE PrefixOK'
  <2>1. PICK q : q = Current(c)
    OBVIOUS
  <2>2. /\ q \in call[c].todo /\ q.to = call[c].to /\ call[c].pc = "send"
        /\ \A r \in call[c].todo : r.to = call[c].to => q.n <= r.n
    BY <1>2, <2>1, LandCalls DEF Types
  <2>3. Lands(q.to, q.part, <<c, q.n>>)
    BY <1>2, <2>1, LandLands
  <2>4. PICK b \in Brokers, p \in Parts, rec \in Records : b = q.to /\ p = q.part /\ rec = <<c, q.n>>
    BY <2>3 DEF Lands
  <2>5. ASSUME NEW e \in Before(rec) PROVE InText(b, p, e)
    <3>1. PICK m \in Earlier(c, q.n) : e = <<c, m>>
      BY <2>4, BeforeIs
    <3> QED
      BY <2>2, <2>4, <3>1, CurrentPrefix
  <2>6. Lands(b, p, rec)
    BY <2>3, <2>4
  <2> QED
    BY <2>5, <2>6, PrefixLands
<1>3. ASSUME NEW x \in late, LandLate(x) PROVE PrefixOK'
  <2>1. Lands(x.to, x.part, x.rec)
    BY <1>3, LateLands
  <2>2. PICK b \in Brokers, p \in Parts, rec \in Records : b = x.to /\ p = x.part /\ rec = x.rec
    BY <2>1 DEF Lands
  <2>3. \A e \in Before(rec) : InText(b, p, e)
    BY <2>2 DEF LateFits
  <2> QED
    BY <2>1, <2>2, <2>3, PrefixLands
<1>4. CASE Resize
  <2> SUFFICES ASSUME NEW d \in Brokers, NEW p \in Parts, NEW i \in 1 .. Len(Text'[d][p]),
                      NEW e \in Before(Text'[d][p][i])
               PROVE  \E j \in 1 .. i - 1 : Text'[d][p][j] = e
    BY DEF PrefixOK
  <2>1. p \in DOMAIN log'[d] /\ Text'[d][p] = log'[d][p]
    BY DEF Text
  <2>2. Moves
    BY <1>4, ResizeDisk DEF Types
  <2>3. PICK a \in Brokers : p \in DOMAIN log[a] /\ log'[d][p] = log[a][p]
    BY <2>1, <2>2 DEF Moves
  <2>4. PICK t : t = Text'[d][p] /\ t = Text[a][p]
    BY <2>1, <2>3, TextIs
  <2>5. i \in 1 .. Len(t) /\ e \in Before(t[i])
    BY <2>4
  <2>6. \A k \in 1 .. Len(Text[a][p]) : \A f \in Before(Text[a][p][k]) :
            \E j \in 1 .. k - 1 : Text[a][p][j] = f
    BY DEF PrefixOK
  <2> QED
    BY <2>4, <2>5, <2>6, ZenonT(40)
<1> QED
  BY <1>1, <1>2, <1>3, <1>4, TextSteps

\* If a record of a batch is in a log, so are those of the same key before it
\* and in that order, wherever the batch failed (Producer.send_batch: "records
\* for one key stay in order because they share a partition and a stream").
THEOREM BatchesInOrder == Spec => []BatchPrefix
<1> DEFINE Inv == Types /\ QueueOK /\ LateFits /\ PrefixOK
<1>1. Init => Inv
  <2> SUFFICES ASSUME Init PROVE Inv
    OBVIOUS
  <2>1. \A c \in Producers : call[c].todo = {}
    BY DEF Init, Idle, Clients
  <2>2. late = {} /\ \A b \in Brokers, p \in Parts : Text[b][p] = <<>>
    BY DEF Init, Text
  <2> QED
    BY <2>1, <2>2, TypesInit DEF QueueOK, LateFits, PrefixOK
<1>2. Inv /\ [Next]_vars => Inv'
  BY TypesNext, QueueNext, LateFitsNext, PrefixNext
<1>3. ASSUME Inv PROVE BatchPrefix
  <2>1. ASSUME NEW b \in Brokers, NEW p \in DOMAIN log[b], NEW i \in DOMAIN log[b][p]
        PROVE  LET c == log[b][p][i][1]
                   n == log[b][p][i][2]
               IN  \A m \in 1 .. n :
                        SameBatch(c, m, n) /\ Sends[c][m] = Sends[c][n] /\ Sends[c][n] # NoKey =>
                            \E j \in 1 .. i - 1 : log[b][p][j] = <<c, m>>
    <3>1. p \in Parts /\ Text[b][p] = log[b][p] /\ Text[b][p] \in Seq(Records)
      BY <1>3, TextIs
    <3>2. PICK rec : rec = log[b][p][i]
      OBVIOUS
    <3>3. i \in 1 .. Len(Text[b][p]) /\ Text[b][p][i] = rec
      BY <3>1, <3>2
    <3>4. ASSUME NEW m \in Earlier(rec[1], rec[2])
          PROVE  \E j \in 1 .. i - 1 : log[b][p][j] = <<rec[1], m>>
      <4>1. <<rec[1], m>> \in Before(Text[b][p][i])
        BY <3>3 DEF Before
      <4>2. PICK j \in 1 .. i - 1 : Text[b][p][j] = <<rec[1], m>>
        BY <1>3, <3>1, <3>3, <4>1 DEF PrefixOK
      <4> QED
        BY <3>1, <4>2
    <3> QED
      BY <3>2, <3>4 DEF Earlier
  <2> QED
    BY <2>1 DEF BatchPrefix
<1> QED
  BY <1>1, <1>2, <1>3, PTL DEF Spec

-----------------------------------------------------------------------------
(* Repeated records.                                                       *)

Waiting(r) == {x \in late : x.rec = r}

\* The number of times that a record is in the logs, or may come there without
\* its client.
Weight(r) == Cardinality(Copies(r)) + Cardinality(Waiting(r))

\* A record that is still to be sent: it is of a later call, or of the one that
\* is on, and there is no response to it.
Open(r) ==
    LET k == call[r[1]] IN
    \/ r[2] > k.n
    \/ /\ k.pc # "idle" /\ r[2] \in k.first .. k.n
       /\ k.pc \in {"send", "landed"} => \E q \in k.todo : q.n = r[2]

\* There is one request for a record.
OneEach == \A c \in Producers : \A q, r \in call[c].todo : q.n = r.n => q = r

Finite == \A r \in Records : IsFiniteSet(Copies(r)) /\ IsFiniteSet(Waiting(r))

Sparing == \A r \in Records : Weight(r) <= lost[r] + (IF Open(r) THEN 0 ELSE 1)

LEMMA CopiesText ==
    ASSUME Types, NEW r
    PROVE  Copies(r) = {x \in Brokers \X Parts \X Nat :
                            x[3] \in 1 .. Len(Text[x[1]][x[2]]) /\ Text[x[1]][x[2]][x[3]] = r}
<1> DEFINE T == {x \in Brokers \X Parts \X Nat :
                    x[3] \in 1 .. Len(Text[x[1]][x[2]]) /\ Text[x[1]][x[2]][x[3]] = r}
<1>1. ASSUME NEW x \in Copies(r) PROVE x \in T
  <2>1. PICK b, p, i :
            /\ b \in Brokers /\ p \in DOMAIN log[b] /\ i \in DOMAIN log[b][p]
            /\ x = <<b, p, i>> /\ log[b][p][i] = r
    BY DEF Copies
  <2>2. p \in Parts /\ Text[b][p] = log[b][p] /\ Text[b][p] \in Seq(Records)
    BY <2>1, TextIs
  <2>3. i \in Nat /\ i \in 1 .. Len(Text[b][p]) /\ Text[b][p][i] = r
    BY <2>1, <2>2
  <2>4. x[1] = b /\ x[2] = p /\ x[3] = i /\ x \in Brokers \X Parts \X Nat
    BY <2>1, <2>2, <2>3
  <2> QED
    BY <2>3, <2>4
<1>2. ASSUME NEW x \in T PROVE x \in Copies(r)
  <2>1. PICK b \in Brokers, p \in Parts, i \in Nat : x = <<b, p, i>>
    OBVIOUS
  <2>2. x[1] = b /\ x[2] = p /\ x[3] = i
    BY <2>1
  <2>3. i \in 1 .. Len(Text[b][p]) /\ Text[b][p][i] = r
    BY <2>2
  <2>4. p \in DOMAIN log[b]
    BY <2>3 DEF Text
  <2>5. Text[b][p] = log[b][p] /\ Text[b][p] \in Seq(Records)
    BY <2>4, TextIs
  <2>6. i \in DOMAIN log[b][p] /\ log[b][p][i] = r
    BY <2>3, <2>5
  <2> QED
    BY <2>1, <2>4, <2>6 DEF Copies
<1> QED
  BY <1>1, <1>2

LEMMA CopiesTextNext ==
    ASSUME Types', NEW r
    PROVE  Copies(r)' = {x \in Brokers \X Parts \X Nat :
                            x[3] \in 1 .. Len(Text'[x[1]][x[2]]) /\ Text'[x[1]][x[2]][x[3]] = r}
<1> DEFINE T == {x \in Brokers \X Parts \X Nat :
                    x[3] \in 1 .. Len(Text'[x[1]][x[2]]) /\ Text'[x[1]][x[2]][x[3]] = r}
<1>0. /\ Text' \in [Brokers -> [Parts -> Seq(Records)]]
      /\ \A b \in Brokers : \A p \in DOMAIN log'[b] : p \in Parts /\ Text'[b][p] = log'[b][p]
  <2>1. ASSUME NEW b \in Brokers, NEW p \in DOMAIN log'[b]
        PROVE  p \in Parts
    <3>1. PICK D \in SUBSET Parts : log'[b] \in [D -> Seq(Records)]
      BY DEF Types, DiskOK, Disk
    <3> QED
      BY <3>1
  <2> QED
    BY <2>1, TextTypeNext DEF Types, Text
<1>1. ASSUME NEW x \in Copies(r)' PROVE x \in T
  <2>1. PICK b, p, i :
            /\ b \in Brokers /\ p \in DOMAIN log'[b] /\ i \in DOMAIN log'[b][p]
            /\ x = <<b, p, i>> /\ log'[b][p][i] = r
    BY DEF Copies
  <2>2. p \in Parts /\ Text'[b][p] = log'[b][p] /\ Text'[b][p] \in Seq(Records)
    BY <1>0, <2>1
  <2>3. i \in Nat /\ i \in 1 .. Len(Text'[b][p]) /\ Text'[b][p][i] = r
    BY <2>1, <2>2
  <2>4. x[1] = b /\ x[2] = p /\ x[3] = i /\ x \in Brokers \X Parts \X Nat
    BY <2>1, <2>2, <2>3
  <2> QED
    BY <2>3, <2>4
<1>2. ASSUME NEW x \in T PROVE x \in Copies(r)'
  <2>1. PICK b \in Brokers, p \in Parts, i \in Nat : x = <<b, p, i>>
    OBVIOUS
  <2>2. x[1] = b /\ x[2] = p /\ x[3] = i
    BY <2>1
  <2>3. i \in 1 .. Len(Text'[b][p]) /\ Text'[b][p][i] = r
    BY <2>2
  <2>4. p \in DOMAIN log'[b]
    BY <2>3 DEF Text
  <2>5. Text'[b][p] = log'[b][p] /\ Text'[b][p] \in Seq(Records)
    BY <1>0, <2>4
  <2>6. i \in DOMAIN log'[b][p] /\ log'[b][p][i] = r
    BY <2>3, <2>5
  <2> QED
    BY <2>1, <2>4, <2>6 DEF Copies
<1> QED
  BY <1>1, <1>2

LEMMA CopiesUntouched == ASSUME Types, Types', Text' = Text, NEW r PROVE Copies(r)' = Copies(r)
<1>1. Copies(r)' = {x \in Brokers \X Parts \X Nat :
                        x[3] \in 1 .. Len(Text'[x[1]][x[2]]) /\ Text'[x[1]][x[2]][x[3]] = r}
  BY CopiesTextNext
<1>2. Copies(r) = {x \in Brokers \X Parts \X Nat :
                        x[3] \in 1 .. Len(Text[x[1]][x[2]]) /\ Text[x[1]][x[2]][x[3]] = r}
  BY CopiesText
<1> QED
  BY <1>1, <1>2

\* An append adds one copy, of its record.
LEMMA CopiesLand ==
    ASSUME Types, Types', NEW b \in Brokers, NEW p \in Parts, NEW rec \in Records, Lands(b, p, rec),
           NEW r
    PROVE  \E x : Copies(r)' = IF r = rec THEN Copies(r) \cup {x} ELSE Copies(r)
<1>1. Copies(r)' = {x \in Brokers \X Parts \X Nat :
                        x[3] \in 1 .. Len(Text'[x[1]][x[2]]) /\ Text'[x[1]][x[2]][x[3]] = r}
  BY CopiesTextNext
<1>2. Copies(r) = {x \in Brokers \X Parts \X Nat :
                        x[3] \in 1 .. Len(Text[x[1]][x[2]]) /\ Text[x[1]][x[2]][x[3]] = r}
  BY CopiesText
<1>3. PICK len \in Nat : len = Len(Text[b][p])
  BY TextType DEF Types
<1>4. /\ Len(Text'[b][p]) = len + 1 /\ Text'[b][p][len + 1] = rec
      /\ \A i \in 1 .. len : Text'[b][p][i] = Text[b][p][i]
      /\ \A d \in Brokers, q \in Parts : d # b \/ q # p => Text'[d][q] = Text[d][q]
  BY <1>3, LandsText
<1>5. ASSUME NEW d \in Brokers, NEW q \in Parts, NEW i \in Nat
      PROVE  (i \in 1 .. Len(Text'[d][q]) /\ Text'[d][q][i] = r) <=>
                \/ i \in 1 .. Len(Text[d][q]) /\ Text[d][q][i] = r
                \/ r = rec /\ d = b /\ q = p /\ i = len + 1
  <2>1. CASE d = b /\ q = p
    <3>1. i \in 1 .. len + 1 <=> i \in 1 .. len \/ i = len + 1
      BY <1>3
    <3>2. len + 1 \notin 1 .. len
      BY <1>3
    <3> QED
      BY <1>3, <1>4, <2>1, <3>1, <3>2
  <2>2. CASE d # b \/ q # p
    BY <1>4, <2>2
  <2> QED
    BY <2>1, <2>2
<1>6. PICK y : y = <<b, p, len + 1>>
  OBVIOUS
<1>7. y \in Brokers \X Parts \X Nat /\ y[1] = b /\ y[2] = p /\ y[3] = len + 1
  BY <1>3, <1>6
<1>8. ASSUME NEW x \in Brokers \X Parts \X Nat
      PROVE  x \in Copies(r)' <=> x \in Copies(r) \/ (r = rec /\ x = y)
  <2>1. PICK d \in Brokers, q \in Parts, i \in Nat : x = <<d, q, i>>
    OBVIOUS
  <2>2. x[1] = d /\ x[2] = q /\ x[3] = i
    BY <2>1
  <2>3. x = y <=> d = b /\ q = p /\ i = len + 1
    BY <1>6, <2>1
  <2>4. x \in Copies(r)' <=> i \in 1 .. Len(Text'[d][q]) /\ Text'[d][q][i] = r
    BY <1>1, <2>2
  <2>5. x \in Copies(r) <=> i \in 1 .. Len(Text[d][q]) /\ Text[d][q][i] = r
    BY <1>2, <2>2
  <2> QED
    BY <1>5, <2>3, <2>4, <2>5
<1>9. Copies(r)' \subseteq Brokers \X Parts \X Nat /\ Copies(r) \subseteq Brokers \X Parts \X Nat
  BY <1>1, <1>2
<1>10. Copies(r)' = IF r = rec THEN Copies(r) \cup {y} ELSE Copies(r)
  BY <1>7, <1>8, <1>9
<1> QED
  BY <1>10

\* A resize makes no copies.
LEMMA CopiesMoved ==
    ASSUME Types, Types', Moves, NEW r, IsFiniteSet(Copies(r))
    PROVE  IsFiniteSet(Copies(r)') /\ Cardinality(Copies(r)') <= Cardinality(Copies(r))
<1>1. Copies(r)' = {x \in Brokers \X Parts \X Nat :
                        x[3] \in 1 .. Len(Text'[x[1]][x[2]]) /\ Text'[x[1]][x[2]][x[3]] = r}
  BY CopiesTextNext
<1>2. Copies(r) = {x \in Brokers \X Parts \X Nat :
                        x[3] \in 1 .. Len(Text[x[1]][x[2]]) /\ Text[x[1]][x[2]][x[3]] = r}
  BY CopiesText
<1>3. PICK from \in [Brokers -> [Parts -> Brokers]] :
        /\ \A d \in Brokers : \A p \in DOMAIN log'[d] :
            p \in DOMAIN log[from[d][p]] /\ log'[d][p] = log[from[d][p]][p]
        /\ \A d, e \in Brokers : \A p \in DOMAIN log'[d] \cap DOMAIN log'[e] :
            from[d][p] = from[e][p] => d = e
  BY DEF Moves
<1>4. ASSUME NEW d \in Brokers, NEW p \in Parts, NEW i \in 1 .. Len(Text'[d][p])
      PROVE  p \in DOMAIN log'[d] /\ Text'[d][p] = Text[from[d][p]][p]
  <2>1. p \in DOMAIN log'[d] /\ Text'[d][p] = log'[d][p]
    BY DEF Text
  <2>2. PICK e \in Brokers : e = from[d][p] /\ p \in DOMAIN log[e] /\ log'[d][p] = log[e][p]
    BY <1>3, <2>1
  <2> QED
    BY <2>1, <2>2, TextIs
<1> DEFINE S == Copies(r)'
           f == [x \in S |-> <<from[x[1]][x[2]], x[2], x[3]>>]
<1>5. ASSUME NEW x \in S
      PROVE  /\ \E d \in Brokers, p \in Parts, i \in Nat :
                    x = <<d, p, i>> /\ p \in DOMAIN log'[d] /\ f[x] = <<from[d][p], p, i>>
             /\ f[x] \in Copies(r)
  <2>1. x \in Brokers \X Parts \X Nat /\ x[3] \in 1 .. Len(Text'[x[1]][x[2]])
        /\ Text'[x[1]][x[2]][x[3]] = r
    BY <1>1
  <2>2. PICK d \in Brokers, p \in Parts, i \in Nat : x = <<d, p, i>>
    BY <2>1
  <2>3. x[1] = d /\ x[2] = p /\ x[3] = i
    BY <2>2
  <2>4. PICK e \in Brokers : e = from[d][p]
    BY <1>3
  <2>5. f[x] = <<e, p, i>>
    BY <2>3, <2>4
  <2>6. p \in DOMAIN log'[d] /\ Text'[d][p] = Text[e][p]
    BY <1>4, <2>1, <2>3, <2>4
  <2>7. <<e, p, i>> \in Brokers \X Parts \X Nat
        /\ <<e, p, i>>[1] = e /\ <<e, p, i>>[2] = p /\ <<e, p, i>>[3] = i
    OBVIOUS
  <2>8. <<e, p, i>> \in Copies(r)
    BY <1>2, <2>1, <2>3, <2>6, <2>7
  <2> QED
    BY <2>2, <2>4, <2>5, <2>6, <2>8
<1>6. ASSUME NEW x \in S, NEW y \in S, f[x] = f[y] PROVE x = y
  <2>1. PICK d \in Brokers, p \in Parts, i \in Nat :
            x = <<d, p, i>> /\ p \in DOMAIN log'[d] /\ f[x] = <<from[d][p], p, i>>
    BY <1>5
  <2>2. PICK e \in Brokers, q \in Parts, j \in Nat :
            y = <<e, q, j>> /\ q \in DOMAIN log'[e] /\ f[y] = <<from[e][q], q, j>>
    BY <1>5
  <2>3. p = q /\ i = j /\ from[d][p] = from[e][p]
    BY <1>6, <2>1, <2>2
  <2>4. d = e
    BY <1>3, <2>1, <2>2, <2>3
  <2> QED
    BY <2>1, <2>2, <2>3, <2>4
<1>7. DOMAIN f = S /\ f \in [S -> Copies(r)]
  BY <1>5
<1> HIDE DEF f
<1>8. f \in Injection(S, Copies(r))
  BY <1>6, <1>7 DEF Injection, IsInjective
<1> HIDE DEF S
<1>9. IsFiniteSet(S) /\ Cardinality(S) <= Cardinality(Copies(r))
  BY <1>8, FS_Injection
<1> QED
  BY <1>9 DEF S

LEMMA LateSteps ==
    ASSUME [Next]_vars, \A c \in Producers : ~ Abandons(c) PROVE late' \subseteq late
BY DEF Next, ClientStep, ProducerStep, ConsumerStep, Lookup, Fetched, FetchUnknown, FetchFails,
       Unavailable, Route, Land, Rejected, Redirected, NextStream, Returns, Locate, Read, ReadRejected,
       ReadRedirected, Send, ReplyLost, GivesUp, Consume, ReadFails, LandLate, BrokerStep,
       Start, Recover, Create, Crash, StopAll, Resize, CutOff, vars

LEMMA FiniteMore ==
    ASSUME NEW A, IsFiniteSet(A), NEW x, NEW C, C \subseteq A \cup {x}
    PROVE  IsFiniteSet(C) /\ Cardinality(C) <= Cardinality(A) + 1
           /\ Cardinality(A) \in Nat /\ Cardinality(C) \in Nat
<1>1. IsFiniteSet(A \cup {x}) /\ Cardinality(A \cup {x}) <= Cardinality(A) + 1
  <2>1. Cardinality(A) \in Nat
    BY FS_CardinalityType
  <2>2. IsFiniteSet(A \cup {x})
        /\ Cardinality(A \cup {x}) = IF x \in A THEN Cardinality(A) ELSE Cardinality(A) + 1
    BY FS_AddElement
  <2> QED
    BY <2>1, <2>2
<1>2. IsFiniteSet(C) /\ Cardinality(C) <= Cardinality(A \cup {x})
  BY <1>1, FS_Subset
<1>3. Cardinality(A) \in Nat /\ Cardinality(C) \in Nat /\ Cardinality(A \cup {x}) \in Nat
  BY <1>1, <1>2, FS_CardinalityType
<1> QED
  BY <1>1, <1>2, <1>3

\* What a step may add to the weight of a record.
Heavier(r) ==
    \/ \E c \in Producers : Land(c) /\ r = <<c, Current(c).n>>
    \/ \E c \in Producers : Abandons(c) /\ r = <<c, Current(c).n>>

LEMMA WeightNext ==
    ASSUME Types, Finite, [Next]_vars, NEW r \in Records
    PROVE  /\ IsFiniteSet(Copies(r)') /\ IsFiniteSet(Waiting(r)')
           /\ Weight(r) \in Nat /\ Weight(r)' \in Nat
           /\ Weight(r)' <= Weight(r) + (IF Heavier(r) THEN 1 ELSE 0)
<1> DEFINE C  == Copies(r)
           D  == Copies(r)'
           W  == Waiting(r)
           V  == Waiting(r)'
<1>0. Types' /\ IsFiniteSet(C) /\ IsFiniteSet(W)
  BY TypesNext DEF Finite
<1>1. Weight(r) = Cardinality(C) + Cardinality(W) /\ Weight(r)' = Cardinality(D) + Cardinality(V)
  BY DEF Weight
<1>2. Cardinality(C) \in Nat /\ Cardinality(W) \in Nat
  BY <1>0, FS_CardinalityType
<1>3. V = {x \in late' : x.rec = r} /\ W = {x \in late : x.rec = r}
  BY DEF Waiting
<1> HIDE DEF C, D, W, V
<1>4. ASSUME late' \subseteq late PROVE V \subseteq W
  BY <1>3, <1>4
<1>5. ASSUME V \subseteq W
      PROVE  IsFiniteSet(V) /\ Cardinality(V) <= Cardinality(W) /\ Cardinality(V) \in Nat
  <2>1. IsFiniteSet(V) /\ Cardinality(V) <= Cardinality(W)
    BY <1>0, <1>5, FS_Subset
  <2> QED
    BY <2>1, FS_CardinalityType
<1>6. ASSUME NEW b \in Brokers, NEW p \in Parts, NEW rec \in Records, Lands(b, p, rec)
      PROVE  /\ IsFiniteSet(D) /\ Cardinality(D) \in Nat
             /\ Cardinality(D) <= Cardinality(C) + (IF r = rec THEN 1 ELSE 0)
  <2>1. PICK y : D = IF r = rec THEN C \cup {y} ELSE C
    BY <1>0, <1>6, CopiesLand DEF C, D
  <2>2. CASE r = rec
    BY <1>0, <2>1, <2>2, FiniteMore
  <2>3. CASE r # rec
    BY <1>0, <1>2, <2>1, <2>3
  <2> QED
    BY <2>2, <2>3
<1>7. ASSUME NEW c \in Producers, Land(c)
      PROVE  /\ IsFiniteSet(D) /\ IsFiniteSet(V) /\ Weight(r) \in Nat /\ Weight(r)' \in Nat
             /\ Weight(r)' <= Weight(r) + (IF Heavier(r) THEN 1 ELSE 0)
  <2>1. PICK q : q = Current(c)
    OBVIOUS
  <2>2. Lands(q.to, q.part, <<c, q.n>>)
    BY <1>7, <2>1, LandLands
  <2>3. PICK b \in Brokers, p \in Parts, rec \in Records : b = q.to /\ p = q.part /\ rec = <<c, q.n>>
    BY <2>2 DEF Lands
  <2>4. IsFiniteSet(D) /\ Cardinality(D) \in Nat
        /\ Cardinality(D) <= Cardinality(C) + (IF r = rec THEN 1 ELSE 0)
    BY <1>6, <2>2, <2>3
  <2>5. late' \subseteq late
    BY <1>7 DEF Land
  <2>6. r = rec => Heavier(r)
    BY <1>7, <2>1, <2>3 DEF Heavier
  <2> QED
    BY <1>1, <1>2, <1>4, <1>5, <2>4, <2>5, <2>6
<1>8. ASSUME NEW x \in late, LandLate(x)
      PROVE  /\ IsFiniteSet(D) /\ IsFiniteSet(V) /\ Weight(r) \in Nat /\ Weight(r)' \in Nat
             /\ Weight(r)' <= Weight(r)
  <2>1. Lands(x.to, x.part, x.rec)
    BY <1>8, LateLands
  <2>2. PICK b \in Brokers, p \in Parts, rec \in Records : b = x.to /\ p = x.part /\ rec = x.rec
    BY <2>1 DEF Lands
  <2>3. IsFiniteSet(D) /\ Cardinality(D) \in Nat
        /\ Cardinality(D) <= Cardinality(C) + (IF r = rec THEN 1 ELSE 0)
    BY <1>6, <2>1, <2>2
  <2>4. V = W \ {x} /\ (x \in W <=> r = rec)
    BY <1>3, <1>8, <2>2 DEF LandLate
  <2>5. IsFiniteSet(V) /\ Cardinality(V) = IF x \in W THEN Cardinality(W) - 1 ELSE Cardinality(W)
    BY <1>0, <2>4, FS_RemoveElement
  <2>6. Cardinality(V) \in Nat
    BY <2>5, FS_CardinalityType
  <2> QED
    BY <1>1, <1>2, <2>3, <2>4, <2>5, <2>6
<1>9. ASSUME NEW c \in Producers, Abandons(c)
      PROVE  /\ IsFiniteSet(D) /\ IsFiniteSet(V) /\ Weight(r) \in Nat /\ Weight(r)' \in Nat
             /\ Weight(r)' <= Weight(r) + (IF Heavier(r) THEN 1 ELSE 0)
  <2>1. Untouched
    BY <1>9, SceneNext, TypesAbandons DEF Types
  <2>2. D = C
    BY <1>0, <2>1, CopiesUntouched DEF Untouched, C, D
  <2>3. PICK q : q = Current(c)
    OBVIOUS
  <2>4. PICK x : x = [rec |-> <<c, q.n>>, part |-> q.part, to |-> call[c].to] /\ late' = late \cup {x}
    BY <1>9, <2>3 DEF Abandons
  <2>5. x.rec = <<c, q.n>>
    BY <2>4
  <2>6. CASE r = <<c, q.n>>
    <3>1. V \subseteq W \cup {x}
      BY <1>3, <2>4
    <3>2. IsFiniteSet(V) /\ Cardinality(V) <= Cardinality(W) + 1 /\ Cardinality(V) \in Nat
      BY <1>0, <3>1, FiniteMore
    <3>3. Heavier(r)
      BY <1>9, <2>3, <2>6 DEF Heavier
    <3> QED
      BY <1>0, <1>1, <1>2, <2>2, <3>2, <3>3
  <2>7. CASE r # <<c, q.n>>
    <3>1. V \subseteq W
      BY <1>3, <2>4, <2>5, <2>7
    <3> QED
      BY <1>0, <1>1, <1>2, <1>5, <2>2, <3>1
  <2> QED
    BY <2>6, <2>7
<1>10. CASE Resize
  <2>1. late' \subseteq late /\ Moves
    BY <1>10, ResizeDisk DEF Resize, Types
  <2>2. IsFiniteSet(D) /\ Cardinality(D) <= Cardinality(C)
    BY <1>0, <2>1, CopiesMoved DEF C, D
  <2>3. Cardinality(D) \in Nat
    BY <2>2, FS_CardinalityType
  <2>4. IsFiniteSet(V) /\ Cardinality(V) <= Cardinality(W) /\ Cardinality(V) \in Nat
    BY <1>4, <1>5, <2>1
  <2> QED
    BY <1>1, <1>2, <2>2, <2>3, <2>4 DEF D, V
<1>11. CASE Untouched /\ \A c \in Producers : ~ Abandons(c)
  <2>1. D = C
    BY <1>0, <1>11, CopiesUntouched DEF Untouched, C, D
  <2>2. IsFiniteSet(V) /\ Cardinality(V) <= Cardinality(W) /\ Cardinality(V) \in Nat
    BY <1>4, <1>5, <1>11, LateSteps
  <2> QED
    BY <1>0, <1>1, <1>2, <2>1, <2>2 DEF D, V
<1> QED
  BY <1>7, <1>8, <1>9, <1>10, <1>11, TextSteps DEF D, V

\* An attempt of a send without an answer is counted, and nothing else is.
LEMMA LostNext ==
    ASSUME Types, [Next]_vars
    PROVE  \/ UNCHANGED lost
           \/ \E c \in Producers :
                /\ ReplyLost(c) \/ Abandons(c)
                /\ lost' = [lost EXCEPT ![<<c, call[c].n>>] = @ + 1]
<1>1. ASSUME NEW c \in Clients, ClientStep(c) PROVE UNCHANGED lost
  BY <1>1, ClientCalls DEF Types
<1>2. ASSUME NEW c \in Producers, ReplyLost(c) \/ Abandons(c)
      PROVE  UNCHANGED lost \/ lost' = [lost EXCEPT ![<<c, call[c].n>>] = @ + 1]
  BY <1>2 DEF ReplyLost, Abandons, NoAnswer
<1>3. ASSUME NEW c, Send(c) \/ GivesUp(c) \/ Consume(c) \/ ReadFails(c) PROVE UNCHANGED lost
  BY <1>3 DEF Send, GivesUp, Consume, ReadFails, history
<1>4. ASSUME NEW b \in Brokers, BrokerStep(b) \/ Create(b) \/ Crash(b) PROVE UNCHANGED lost
  BY <1>4 DEF BrokerStep, Start, Recover, Create, Crash, history
<1>5. CASE StopAll \/ Resize \/ UNCHANGED vars \/ \E x \in late : LandLate(x)
  BY <1>5 DEF StopAll, Resize, vars, LandLate, history
<1> QED
  BY <1>1, <1>2, <1>3, <1>4, <1>5 DEF Next

LEMMA LostGrows ==
    ASSUME Types, [Next]_vars, NEW r \in Records
    PROVE  lost[r] \in Nat /\ lost'[r] \in Nat /\ lost'[r] >= lost[r]
<1>1. lost[r] \in Nat
  BY DEF Types, PastOK
<1>2. CASE UNCHANGED lost
  BY <1>1, <1>2
<1>3. CASE \E x : lost' = [lost EXCEPT ![x] = @ + 1]
  <2>1. PICK x : lost' = [lost EXCEPT ![x] = @ + 1]
    BY <1>3
  <2>2. lost'[r] = IF r = x THEN lost[r] + 1 ELSE lost[r]
    BY <2>1 DEF Types, PastOK
  <2> QED
    BY <1>1, <2>2
<1> QED
  BY <1>2, <1>3, LostNext

\* The lost response of a send.
LEMMA LostCounted ==
    ASSUME Types, NEW c \in Producers, call[c].pc \in {"send", "landed"}, NoAnswer(c), ~ Batch(c)
    PROVE  /\ <<c, call[c].n>> \in Records /\ call[c].first = call[c].n
           /\ lost'[<<c, call[c].n>>] = lost[<<c, call[c].n>>] + 1
<1>1. CallFits(c, call[c]) /\ call[c] \in CallType
  BY DEF Types, CallsOK, Clients
<1>2. PICK len \in Nat : len = Len(Sends[c]) /\ DOMAIN Sends[c] = 1 .. len
  BY ClusterBounds
<1>3. /\ call[c].n \in 0 .. len /\ call[c].first \in 1 .. call[c].n
      /\ call[c].n = IF Upto[c][call[c].first] = 0 THEN call[c].first ELSE Upto[c][call[c].first]
  BY <1>1, <1>2 DEF CallFits, Between
<1>4. Upto[c][call[c].first] \in 0 .. len
  BY <1>2, <1>3, CallsAssumption
<1>5. call[c].first = call[c].n
  BY <1>3, <1>4 DEF Batch
<1>6. <<c, call[c].n>> \in Records
  BY <1>2, <1>3, RecordsAre
<1>7. PICK r \in Records : r = <<c, call[c].n>>
  BY <1>6
<1>8. lost' = [lost EXCEPT ![r] = @ + 1] /\ lost \in [Records -> Nat]
  BY <1>7 DEF NoAnswer, Types, PastOK
<1>9. lost'[r] = lost[r] + 1
  BY <1>8
<1> QED
  BY <1>5, <1>7, <1>9

LEMMA OneEachNext == ASSUME Types, OneEach, [Next]_vars PROVE OneEach'
<1> SUFFICES ASSUME NEW c \in Producers, NEW q \in call'[c].todo, NEW r \in call'[c].todo, q.n = r.n
             PROVE  q = r
  BY DEF OneEach
<1>1. CASE Route(c)
  <2>1. PICK plan : Planned(c, plan)
    BY <1>1, RouteCalls DEF Types
  <2>2. PICK n : q = Request(c, n, plan[n])
    BY <2>1 DEF Planned
  <2>3. PICK m : r = Request(c, m, plan[m])
    BY <2>1 DEF Planned
  <2>4. q.n = n /\ r.n = m
    BY <2>2, <2>3 DEF Request
  <2> QED
    BY <2>2, <2>3, <2>4
<1>2. CASE Land(c)
  <2>1. PICK z : z = Current(c)
    OBVIOUS
  <2>2. call'[c].todo = call[c].todo \ {z}
    BY <1>2, <2>1, LandCalls DEF Types
  <2> QED
    BY <2>2 DEF OneEach
<1>3. CASE NextStream(c) \/ call'[c] = call[c]
  <2>1. call'[c].todo = call[c].todo
    BY <1>3, NextStreamCalls DEF Types
  <2> QED
    BY <2>1 DEF OneEach
<1>4. CASE Resting(c) \/ Send(c)
  BY <1>4, SendCalls DEF Resting, Types
<1> QED
  BY <1>1, <1>2, <1>3, <1>4, CallSteps

\* A call that was sending goes on without requests only to try the record of a
\* send again, which has no response, or has lost it.
LEMMA Retries ==
    ASSUME Types, [Next]_vars, NEW c \in Producers, call[c].pc \in {"send", "landed"},
           call'[c] # call[c], call'[c].pc # "idle", Resting(c)
    PROVE  /\ ~ Batch(c)
           /\ \/ call[c].pc = "send"
              \/ lost'[<<c, call[c].n>>] = lost[<<c, call[c].n>>] + 1
<1>0. c \in Clients /\ \A d \in Clients : Only(d) => d = c
  BY DEF Only, Clients
<1>1. ASSUME NEW d \in Clients, ClientStep(d) PROVE ~ Batch(c) /\ call[c].pc = "send"
  <2>1. Only(d)
    BY <1>1, ClientCalls, RouteCalls, LandCalls, NextStreamCalls DEF Types, Quiet
  <2>2. d = c
    BY <1>0, <2>1
  <2>3. ~ Land(c) /\ ~ NextStream(c)
    <3>1. CASE Land(c)
      <4>1. PICK q : q = Current(c)
        OBVIOUS
      <4>2. call'[c].done = call[c].done \cup {Response(c, q)}
        BY <3>1, <4>1, LandCalls DEF Types
      <4> QED
        BY <4>2 DEF Resting
    <3>2. CASE NextStream(c)
      <4>1. call'[c].todo = call[c].todo
        BY <3>2, NextStreamCalls DEF Types
      <4> QED
        BY <3>2, <4>1 DEF NextStream, Resting
    <3> QED
      BY <3>1, <3>2
  <2>4. ~ End(c)
    BY <1>0, EndStep DEF Types, Ended, Idle
  <2>5. c \notin Consumers
    BY ClientAssumption
  <2>6. Unavailable(c) \/ Redirected(c)
    BY <1>1, <2>2, <2>3, <2>4, <2>5 DEF ClientStep, ProducerStep, Lookup, Fetched, FetchUnknown,
       FetchFails, Fetching, Route, Rejected, Returns
  <2> QED
    BY <2>4, <2>6 DEF Unavailable, Redirected, WrongBroker, Stream
<1>2. ASSUME NEW d \in Producers, ReplyLost(d) \/ Abandons(d)
      PROVE  ~ Batch(c) /\ lost'[<<c, call[c].n>>] = lost[<<c, call[c].n>>] + 1
  <2>1. NoAnswer(d) /\ call[d].pc \in {"send", "landed"}
    BY <1>2 DEF ReplyLost, Abandons
  <2>2. d = c
    BY <1>0, <2>1, NoAnswerCalls DEF Types, Quiet, Clients
  <2>3. ~ End(c)
    BY <1>0, EndStep DEF Types, Ended, Idle
  <2>4. ~ Batch(c)
    BY <2>1, <2>2, <2>3 DEF NoAnswer
  <2> QED
    BY <2>1, <2>2, <2>4, LostCounted
<1>3. ASSUME NEW d \in Producers, Send(d) \/ GivesUp(d) PROVE FALSE
  <2>1. Only(d)
    BY <1>3, SendCalls, EndStep DEF GivesUp, Types, Quiet, Clients
  <2>2. d = c
    BY <1>0, <2>1 DEF Clients
  <2> QED
    BY <1>3, <2>2 DEF Send, GivesUp
<1>4. ASSUME NEW d \in Consumers, Consume(d) \/ ReadFails(d) PROVE FALSE
  <2>1. Only(d)
    BY <1>4, ConsumeCalls, EndStep DEF ReadFails, Types, Quiet, Clients
  <2>2. d = c
    BY <1>0, <2>1 DEF Clients
  <2> QED
    BY <2>2, ClientAssumption
<1>5. CASE (\E b \in Brokers : Crash(b)) \/ StopAll
  <2>1. PICK stopped \in SUBSET Brokers : CutOff(stopped)
    BY <1>5, TypesStop, SceneNext DEF Types
  <2>2. call'[c] = call[c] \/ call'[c] = Ended(c)
    BY <1>0, <2>1, CutOffCalls DEF Types
  <2> QED
    BY <2>2 DEF Ended, Idle
<1>6. CASE \/ \E b \in Brokers : BrokerStep(b) \/ Create(b)
           \/ \E m \in late : LandLate(m)
           \/ Resize \/ UNCHANGED vars
  BY <1>6 DEF BrokerStep, Start, Recover, Create, LandLate, Resize, vars
<1> QED
  BY <1>1, <1>2, <1>3, <1>4, <1>5, <1>6 DEF Next

\* What Open says, for a record of producer c.
LEMMA OpenIs ==
    ASSUME NEW c, NEW n
    PROVE  /\ Open(<<c, n>>) <=>
                \/ n > call[c].n
                \/ /\ call[c].pc # "idle" /\ n \in call[c].first .. call[c].n
                   /\ call[c].pc \in {"send", "landed"} => \E q \in call[c].todo : q.n = n
           /\ Open(<<c, n>>)' <=>
                \/ n > call'[c].n
                \/ /\ call'[c].pc # "idle" /\ n \in call'[c].first .. call'[c].n
                   /\ call'[c].pc \in {"send", "landed"} => \E q \in call'[c].todo : q.n = n
<1>1. <<c, n>>[1] = c /\ <<c, n>>[2] = n
  OBVIOUS
<1> QED
  BY <1>1 DEF Open

\* Only an attempt without an answer leaves a record to be sent that was sent.
LEMMA OpenNext ==
    ASSUME Types, [Next]_vars, NEW c \in Producers, NEW n \in Nat, Open(<<c, n>>)'
    PROVE  Open(<<c, n>>) \/ lost'[<<c, n>>] = lost[<<c, n>>] + 1
<1> SUFFICES ASSUME ~ Open(<<c, n>>) PROVE lost'[<<c, n>>] = lost[<<c, n>>] + 1
  OBVIOUS
<1> DEFINE k == call[c]
           l == call'[c]
<1>1. /\ ~ n > k.n
      /\ k.pc # "idle" /\ n \in k.first .. k.n =>
            k.pc \in {"send", "landed"} /\ \A q \in k.todo : q.n # n
  BY OpenIs
<1>2. \/ n > l.n
      \/ /\ l.pc # "idle" /\ n \in l.first .. l.n
         /\ l.pc \in {"send", "landed"} => \E q \in l.todo : q.n = n
  BY OpenIs
<1>3. CallFits(c, k) /\ k \in CallType /\ l \in CallType
  BY TypesNext DEF Types, CallsOK, Clients
<1>4. k.n \in Nat /\ l.n \in Nat /\ k.first \in Nat /\ l.first \in Nat
  BY <1>3 DEF CallType
<1>5. CASE l = k
  BY <1>1, <1>2, <1>5
<1>6. CASE l # k /\ Resting(c)
  <2>1. l.n = k.n /\ l.pc # "idle" /\ k.pc # "idle" /\ l.first = k.first /\ n \in k.first .. k.n
    BY <1>1, <1>2, <1>6 DEF Resting
  <2>2. k.pc \in {"send", "landed"} /\ \A q \in k.todo : q.n # n
    BY <1>1, <2>1
  <2>3. ~ Batch(c) /\ (k.pc = "send" \/ lost'[<<c, k.n>>] = lost[<<c, k.n>>] + 1)
    BY <1>6, <2>1, <2>2, Retries
  <2>4. k.first = k.n
    <3>1. PICK len \in Nat : len = Len(Sends[c]) /\ DOMAIN Sends[c] = 1 .. len
      BY ClusterBounds
    <3>2. /\ k.n \in 0 .. len /\ k.first \in 1 .. k.n
          /\ k.n = IF Upto[c][k.first] = 0 THEN k.first ELSE Upto[c][k.first]
      BY <1>3, <2>1, <3>1 DEF CallFits, Between
    <3>3. Upto[c][k.first] \in 0 .. len
      BY <3>1, <3>2, CallsAssumption
    <3> QED
      BY <2>3, <3>2, <3>3 DEF Batch
  <2>5. n = k.n
    BY <1>4, <2>1, <2>4
  <2>6. k.pc # "send"
    <3>1. k.pc = "send" => \E q \in k.todo : q.n \in k.first .. k.n
      BY <1>3 DEF CallFits
    <3> QED
      BY <1>4, <2>2, <2>4, <2>5, <3>1
  <2> QED
    BY <2>3, <2>5, <2>6
<1>7. CASE Send(c)
  <2>1. l.first = k.n + 1 /\ l.n > k.n
    BY <1>7, SendCalls DEF Types
  <2> QED
    BY <1>1, <1>2, <1>4, <2>1
<1>8. CASE Route(c)
  <2>1. l.first = k.first /\ l.n = k.n /\ k.pc \in {"route", "again"}
    BY <1>8, RouteCalls DEF Types
  <2> QED
    BY <1>1, <1>2, <2>1
<1>9. CASE Land(c)
  <2>1. PICK z : z = Current(c)
    OBVIOUS
  <2>2. l.first = k.first /\ l.n = k.n /\ k.pc = "send" /\ l.todo = k.todo \ {z}
        /\ l.pc \in {"send", "landed"}
    BY <1>9, <2>1, LandCalls DEF Types
  <2> QED
    BY <1>1, <1>2, <2>2
<1>10. CASE NextStream(c)
  <2>1. l.first = k.first /\ l.n = k.n /\ k.pc = "landed" /\ l.todo = k.todo /\ l.pc = "send"
    BY <1>10, NextStreamCalls DEF Types
  <2> QED
    BY <1>1, <1>2, <2>1
<1> QED
  BY <1>5, <1>6, <1>7, <1>8, <1>9, <1>10, CallSteps

\* What adds to the weight of a record serves it, or counts as lost.
LEMMA HeavyOpen ==
    ASSUME Types, OneEach, [Next]_vars, NEW c \in Producers, NEW n,
           Land(c) \/ Abandons(c), n = Current(c).n
    PROVE  Open(<<c, n>>) /\ (~ Open(<<c, n>>)' \/ lost'[<<c, n>>] = lost[<<c, n>>] + 1)
<1>1. PICK q : q = Current(c) /\ n = q.n
  OBVIOUS
<1>2. q \in call[c].todo /\ call[c].pc = "send"
  BY <1>1, LandCalls, TypesAbandons, SceneNext DEF Types, Abandons
<1>3. CallFits(c, call[c]) /\ call[c] \in CallType
  BY DEF Types, CallsOK, Clients
<1>4. n \in call[c].first .. call[c].n /\ call[c].first \in Nat /\ call[c].n \in Nat
  BY <1>1, <1>2, <1>3 DEF CallFits, CallType
<1>5. Open(<<c, n>>)
  BY <1>1, <1>2, <1>4, OpenIs
<1>6. CASE Land(c)
  <2>1. /\ call'[c].todo = call[c].todo \ {q} /\ call'[c].n = call[c].n
        /\ call'[c].pc \in {"send", "landed"}
    BY <1>1, <1>6, LandCalls DEF Types
  <2>2. ~ \E r \in call'[c].todo : r.n = n
    BY <1>1, <1>2, <2>1 DEF OneEach
  <2>3. ~ n > call'[c].n
    BY <1>4, <2>1
  <2> QED
    BY <1>5, <2>1, <2>2, <2>3, OpenIs
<1>7. CASE Abandons(c)
  <2>1. NoAnswer(c)
    BY <1>7 DEF Abandons
  <2>2. CASE Batch(c)
    <3>0. End(c) /\ c \in Clients /\ CallsOK
      BY <2>1, <2>2 DEF NoAnswer, Types, Clients
    <3>1. call'[c].pc = "idle" /\ call'[c].n = call[c].n
      BY <3>0, EndStep DEF Ended, Idle
    <3>2. ~ n > call'[c].n
      BY <1>4, <3>1
    <3> QED
      BY <1>5, <3>1, <3>2, OpenIs
  <2>3. CASE ~ Batch(c)
    <3>1. call[c].first = call[c].n /\ lost'[<<c, call[c].n>>] = lost[<<c, call[c].n>>] + 1
      BY <1>2, <2>1, <2>3, LostCounted
    <3>2. n = call[c].n
      BY <1>4, <3>1
    <3> QED
      BY <1>5, <3>1, <3>2
  <2> QED
    BY <2>2, <2>3
<1> QED
  BY <1>6, <1>7

LEMMA SparingNext == ASSUME Types, OneEach, Finite, Sparing, [Next]_vars PROVE Finite' /\ Sparing'
<1>1. Finite'
  BY WeightNext DEF Finite
<1>2. ASSUME NEW r \in Records
      PROVE  Weight(r)' <= lost'[r] + (IF Open(r)' THEN 0 ELSE 1)
  <2>1. PICK c \in Producers, n \in Nat : r = <<c, n>>
    BY ClusterBounds DEF Records
  <2>2. /\ Weight(r) \in Nat /\ Weight(r)' \in Nat
        /\ Weight(r)' <= Weight(r) + (IF Heavier(r) THEN 1 ELSE 0)
    BY WeightNext
  <2>3. Weight(r) <= lost[r] + (IF Open(r) THEN 0 ELSE 1)
    BY DEF Sparing
  <2>4. lost[r] \in Nat /\ lost'[r] \in Nat /\ lost'[r] >= lost[r]
    BY LostGrows
  <2>5. Open(r)' => Open(r) \/ lost'[r] = lost[r] + 1
    BY <2>1, OpenNext
  <2>6. Heavier(r) => Open(r) /\ (~ Open(r)' \/ lost'[r] = lost[r] + 1)
    <3> SUFFICES ASSUME Heavier(r) PROVE Open(r) /\ (~ Open(r)' \/ lost'[r] = lost[r] + 1)
      OBVIOUS
    <3>1. PICK d, m : d \in Producers /\ (Land(d) \/ Abandons(d)) /\ m = Current(d).n /\ r = <<d, m>>
      BY DEF Heavier
    <3> QED
      BY <3>1, HeavyOpen
  <2> QED
    BY <2>2, <2>3, <2>4, <2>5, <2>6
<1> QED
  BY <1>1, <1>2 DEF Sparing

\* A record is in the logs once more than it should at most for each attempt of
\* a send that got no answer, over redirects, crashes and resizes, and a batch
\* never leaves a second copy (Producer.send: "if a record is written but the
\* response is lost, the retry writes it again").
THEOREM FewRepeats == Spec => []OnlyLostRepeated
<1> DEFINE Inv == Types /\ OneEach /\ Finite /\ Sparing
<1>1. Init => Inv
  <2> SUFFICES ASSUME Init PROVE Inv
    OBVIOUS
  <2>1. Types /\ OneEach
    BY TypesInit DEF Init, Idle, Clients, OneEach
  <2>2. ASSUME NEW r \in Records
        PROVE  Copies(r) = {} /\ Waiting(r) = {}
    BY DEF Init, Copies, Waiting
  <2>3. Cardinality({}) = 0 /\ IsFiniteSet({})
    BY FS_EmptySet
  <2>4. \A r \in Records : lost[r] = 0
    BY DEF Init
  <2>5. Finite
    BY <2>2, <2>3 DEF Finite
  <2>6. \A r \in Records : Weight(r) = 0
    BY <2>2, <2>3 DEF Weight
  <2>7. Sparing
    BY <2>4, <2>6 DEF Sparing
  <2> QED
    BY <2>1, <2>5, <2>7
<1>2. Inv /\ [Next]_vars => Inv'
  BY TypesNext, OneEachNext, SparingNext
<1>3. ASSUME Inv PROVE OnlyLostRepeated
  <2> SUFFICES ASSUME NEW r \in Records PROVE Cardinality(Copies(r)) <= 1 + lost[r]
    BY DEF OnlyLostRepeated
  <2>1. Weight(r) <= lost[r] + (IF Open(r) THEN 0 ELSE 1)
    BY <1>3 DEF Sparing
  <2>2. Cardinality(Copies(r)) \in Nat /\ Cardinality(Waiting(r)) \in Nat
    BY <1>3, FS_CardinalityType DEF Finite
  <2>3. lost[r] \in Nat
    BY <1>3 DEF Types, PastOK
  <2> QED
    BY <2>1, <2>2, <2>3 DEF Weight
<1> QED
  BY <1>1, <1>2, <1>3, PTL DEF Spec

-----------------------------------------------------------------------------
(* The records of a key.                                                   *)

\* A partition that the key has with the count of some broker.
Keyed(key, part) == key # NoKey => \E b \in Brokers : meta[b] # Absent /\ part = Hash[key] % meta[b]

\* Tables, requests and responses come from the counts of the brokers.
TableFrom ==
    \A c \in Clients : routing[c] # Unknown =>
        \E b \in Brokers : meta[b] # Absent /\ meta[b] = routing[c].n
TodoKeyed    == \A c \in Producers : \A q \in call[c].todo : Keyed(Sends[c][q.n], q.part)
AnswersKeyed == \A d \in Answers : Keyed(d.key, d.part)

\* The requests for a key go one way, in turn, after those that were answered.
InTurn ==
    \A c \in Producers : \A q \in call[c].todo : Sends[c][q.n] # NoKey =>
        /\ \A r \in call[c].todo : Sends[c][r.n] = Sends[c][q.n] => r.to = q.to
        /\ \A e \in call[c].done : Sends[c][e.n] = Sends[c][q.n] => e.n < q.n

\* What was returned is of calls that are over.
Over ==
    \A d \in delivered :
        /\ d.n <= call[d.from].n
        /\ call[d.from].pc # "idle" => d.n < call[d.from].first

InOrder ==
    \A d, e \in Answers : d.from = e.from /\ d.key = e.key /\ d.key # NoKey /\ d.n < e.n => d.off < e.off

LEMMA KeyedNext ==
    ASSUME Types, [Next]_vars, NEW key, NEW part, Keyed(key, part)
    PROVE  key # NoKey => \E b \in Brokers : meta'[b] # Absent /\ part = Hash[key] % meta'[b]
BY MetaKept DEF Keyed

LEMMA AgreedBefore == ASSUME Types, [Next]_vars, Agreed' PROVE Agreed
<1> SUFFICES ASSUME NEW b \in Brokers, NEW d \in Brokers, meta[b] # Absent, meta[d] # Absent
             PROVE  meta[b] = meta[d]
  BY DEF Agreed
<1>1. meta'[b] = meta[b] /\ meta'[d] = meta[d]
  BY MetaKept
<1> QED
  BY <1>1 DEF Agreed

LEMMA KeyedOnce ==
    ASSUME Agreed, NEW key, key # NoKey, NEW p, NEW q, Keyed(key, p), Keyed(key, q) PROVE p = q
<1>1. PICK b \in Brokers : meta[b] # Absent /\ p = Hash[key] % meta[b]
  BY DEF Keyed
<1>2. PICK d \in Brokers : meta[d] # Absent /\ q = Hash[key] % meta[d]
  BY DEF Keyed
<1>3. meta[b] = meta[d]
  BY <1>1, <1>2 DEF Agreed
<1> QED
  BY <1>1, <1>2, <1>3

LEMMA TableSteps == ASSUME [Next]_vars PROVE UNCHANGED routing \/ \E c \in Clients : Fetched(c)
BY DEF Next, ClientStep, ProducerStep, ConsumerStep, Lookup, FetchUnknown, FetchFails,
       Unavailable, Route, Land, Rejected, Redirected, NextStream, Returns, Locate, Read, ReadRejected,
       ReadRedirected, Send, ReplyLost, Abandons, GivesUp, Consume, ReadFails, LandLate, BrokerStep,
       Start, Recover, Create, Crash, StopAll, Resize, vars

LEMMA TableFromNext == ASSUME Types, TableFrom, [Next]_vars PROVE TableFrom'
<1> SUFFICES ASSUME NEW c \in Clients, routing'[c] # Unknown
             PROVE  \E b \in Brokers : meta'[b] # Absent /\ meta'[b] = routing'[c].n
  BY DEF TableFrom, Unknown
<1>1. ASSUME routing[c] # Unknown, routing'[c] = routing[c]
      PROVE  \E b \in Brokers : meta'[b] # Absent /\ meta'[b] = routing'[c].n
  BY <1>1, MetaKept DEF TableFrom
<1>2. CASE UNCHANGED routing
  BY <1>1, <1>2
<1>3. ASSUME NEW d \in Clients, Fetched(d)
      PROVE  \E b \in Brokers : meta'[b] # Absent /\ meta'[b] = routing'[c].n
  <2>1. CASE d = c
    <3>1. PICK b \in Brokers : b = AskedBroker(c)
      BY AskedIn DEF Types
    <3>2. meta[b] # Absent /\ routing'[c] = [n |-> meta[b], size |-> size] /\ UNCHANGED meta
      BY <1>3, <2>1, <3>1 DEF Fetched, Types, TableOK
    <3> QED
      BY <3>2
  <2>2. CASE d # c
    <3>1. routing'[c] = routing[c]
      BY <1>3, <2>2 DEF Fetched, Types, TableOK
    <3> QED
      BY <1>1, <3>1
  <2> QED
    BY <2>1, <2>2
<1> QED
  BY <1>2, <1>3, TableSteps

LEMMA TodoKeyedNext == ASSUME Types, TableFrom, TodoKeyed, [Next]_vars PROVE TodoKeyed'
<1> SUFFICES ASSUME NEW c \in Producers, NEW q \in call'[c].todo, Sends[c][q.n] # NoKey
             PROVE  \E b \in Brokers : meta'[b] # Absent /\ q.part = Hash[Sends[c][q.n]] % meta'[b]
  BY DEF TodoKeyed, Keyed
<1>1. CASE q \in call[c].todo
  BY <1>1, KeyedNext DEF TodoKeyed
<1>2. CASE Route(c)
  <2>1. PICK plan : Planned(c, plan)
    BY <1>2, RouteCalls DEF Types
  <2>2. PICK n \in call[c].first .. call[c].n : q = Request(c, n, plan[n])
    BY <2>1 DEF Planned
  <2>3. q.n = n /\ q.part = plan[n]
    BY <2>2 DEF Request
  <2>4. plan[n] = Hash[Sends[c][n]] % routing[c].n
    BY <2>1, <2>2, <2>3 DEF Planned, PartitionFor
  <2>5. PICK b \in Brokers : meta[b] # Absent /\ meta[b] = routing[c].n
    BY <1>2 DEF Route, TableFrom, Clients
  <2>6. meta'[b] = meta[b]
    BY <2>5, MetaKept
  <2> QED
    BY <2>3, <2>4, <2>5, <2>6
<1>3. CASE Land(c)
  <2>1. PICK z : z = Current(c)
    OBVIOUS
  <2>2. call'[c].todo = call[c].todo \ {z}
    BY <1>3, <2>1, LandCalls DEF Types
  <2> QED
    BY <1>1, <2>2
<1>4. CASE Resting(c) \/ Send(c) \/ NextStream(c) \/ call'[c] = call[c]
  BY <1>1, <1>4, SendCalls, NextStreamCalls DEF Resting, Types
<1> QED
  BY <1>2, <1>3, <1>4, CallSteps

LEMMA AnswersKeyedNext == ASSUME Types, TodoKeyed, AnswersKeyed, [Next]_vars PROVE AnswersKeyed'
<1> SUFFICES ASSUME NEW d \in Answers', d.key # NoKey
             PROVE  \E b \in Brokers : meta'[b] # Absent /\ d.part = Hash[d.key] % meta'[b]
  BY DEF AnswersKeyed, Keyed
<1>1. Keyed(d.key, d.part)
  <2>1. CASE d \in Answers
    BY <2>1 DEF AnswersKeyed
  <2>2. CASE d \notin Answers
    <3>1. PICK c, q : c \in Producers /\ Land(c) /\ q = Current(c) /\ d = Response(c, q)
      BY <2>2, AnswersNext
    <3>2. q \in call[c].todo
      BY <3>1, LandCalls DEF Types
    <3>3. d.key = Sends[c][q.n] /\ d.part = q.part
      BY <3>1 DEF Response
    <3> QED
      BY <3>1, <3>2, <3>3 DEF TodoKeyed
  <2> QED
    BY <2>1, <2>2
<1> QED
  BY <1>1, KeyedNext

LEMMA InTurnNext == ASSUME Types, OneEach, InTurn, [Next]_vars PROVE InTurn'
<1> SUFFICES ASSUME NEW c \in Producers, NEW q \in call'[c].todo, Sends[c][q.n] # NoKey
             PROVE  /\ \A r \in call'[c].todo : Sends[c][r.n] = Sends[c][q.n] => r.to = q.to
                    /\ \A e \in call'[c].done : Sends[c][e.n] = Sends[c][q.n] => e.n < q.n
  BY DEF InTurn
<1>1. CASE Route(c)
  <2>1. call'[c].done = {}
    BY <1>1, RouteCalls DEF Types
  <2>2. PICK plan : Planned(c, plan)
    BY <1>1, RouteCalls DEF Types
  <2>3. PICK n \in call[c].first .. call[c].n : q = Request(c, n, plan[n])
    BY <2>2 DEF Planned
  <2>4. ASSUME NEW r \in call'[c].todo, Sends[c][r.n] = Sends[c][q.n] PROVE r.to = q.to
    <3>1. PICK m \in call[c].first .. call[c].n : r = Request(c, m, plan[m])
      BY <2>2 DEF Planned
    <3>2. /\ q.n = n /\ q.to = Owner(routing[c].size, plan[n])
          /\ r.n = m /\ r.to = Owner(routing[c].size, plan[m])
      BY <2>3, <3>1 DEF Request
    <3>3. plan[n] = plan[m]
      BY <2>2, <2>4, <3>2 DEF Planned, PartitionFor
    <3> QED
      BY <3>2, <3>3
  <2> QED
    BY <2>1, <2>4
<1>2. CASE Land(c)
  <2>1. PICK z : z = Current(c)
    OBVIOUS
  <2>2. /\ z \in call[c].todo /\ z \in Requests /\ z.to = call[c].to
        /\ call'[c].todo = call[c].todo \ {z}
        /\ call'[c].done = call[c].done \cup {Response(c, z)}
        /\ \A r \in call[c].todo : r.to = call[c].to => z.n <= r.n
    BY <1>2, <2>1, LandCalls DEF Types
  <2>3. q \in call[c].todo /\ q # z /\ q \in Requests
    BY <2>2 DEF Types, CallsOK, CallType, Clients
  <2>4. ASSUME Sends[c][z.n] = Sends[c][q.n] PROVE z.n < q.n
    <3>1. q.to = z.to
      BY <2>2, <2>3, <2>4 DEF InTurn
    <3>2. z.n <= q.n /\ z.n # q.n
      BY <2>2, <2>3, <3>1 DEF OneEach
    <3> QED
      BY <2>2, <2>3, <3>2 DEF Requests
  <2>5. Response(c, z).n = z.n
    BY DEF Response
  <2> QED
    BY <2>2, <2>3, <2>4, <2>5 DEF InTurn
<1>3. CASE NextStream(c) \/ call'[c] = call[c]
  <2>1. call'[c].todo = call[c].todo /\ call'[c].done = call[c].done
    BY <1>3, NextStreamCalls DEF Types
  <2> QED
    BY <2>1 DEF InTurn
<1>4. CASE Resting(c) \/ Send(c)
  BY <1>4, SendCalls DEF Resting, Types
<1> QED
  BY <1>1, <1>2, <1>3, <1>4, CallSteps

LEMMA OverNext == ASSUME Types, Over, [Next]_vars PROVE Over'
<1> SUFFICES ASSUME NEW d \in delivered'
             PROVE  /\ d.n <= call'[d.from].n
                    /\ call'[d.from].pc # "idle" => d.n < call'[d.from].first
  BY DEF Over
<1>0. Types'
  BY TypesNext
<1>1. d \in Responses /\ d.from \in Producers /\ d.from \in Clients
  BY <1>0 DEF Types, PastOK, Responses, Clients
<1>2. PICK c \in Producers : c = d.from
  BY <1>1
<1> DEFINE k == call[c]
           l == call'[c]
<1>3. /\ k.n \in Nat /\ k.first \in Nat /\ l.n \in Nat /\ l.first \in Nat /\ d.n \in Nat
      /\ CallFits(c, k)
  BY <1>0, <1>1 DEF Types, CallsOK, CallType, Responses, Clients
<1>4. CASE d \in delivered
  <2>1. d.n <= k.n /\ (k.pc # "idle" => d.n < k.first)
    BY <1>2, <1>4 DEF Over
  <2>2. CASE Send(c)
    <3>1. l.first = k.n + 1 /\ l.n > k.n
      BY <2>2, SendCalls DEF Types
    <3> QED
      BY <1>2, <1>3, <2>1, <3>1
  <2>3. CASE Route(c) \/ Land(c) \/ NextStream(c)
    <3>1. l.first = k.first /\ l.n = k.n /\ k.pc # "idle"
      BY <2>3, RouteCalls, LandCalls, NextStreamCalls DEF Types
    <3> QED
      BY <1>2, <2>1, <3>1
  <2>4. CASE Resting(c) \/ l = k
    BY <1>2, <2>1, <2>4 DEF Resting
  <2> QED
    BY <2>2, <2>3, <2>4, CallSteps
<1>5. CASE d \notin delivered
  <2>1. PICK e \in Producers : Returns(e)
    BY <1>5, DeliveredSteps
  <2>2. d \in call[e].done /\ e \in Clients /\ End(e)
    BY <1>5, <2>1 DEF Returns, Clients
  <2>3. CallFits(e, call[e])
    BY <2>2 DEF Types, CallsOK
  <2>4. d.from = e /\ d.n \in call[e].first .. call[e].n
    BY <2>2, <2>3 DEF CallFits
  <2>5. call'[e] = Ended(e)
    BY <2>2, EndStep DEF Types
  <2>6. call'[e].n = call[e].n /\ call'[e].pc = "idle"
    BY <2>5 DEF Ended, Idle
  <2> QED
    BY <1>2, <1>3, <2>4, <2>6
<1> QED
  BY <1>4, <1>5

\* A response names a place after all the places in that partition before it.
LEMMA LandsAfter ==
    ASSUME Types, AtHome, Placed, NEW c \in Producers, Land(c), NEW q, q = Current(c),
           NEW d \in Answers, d.part = q.part
    PROVE  d.off < Response(c, q).off
<1>1. Lands(q.to, q.part, <<c, q.n>>)
  BY LandLands
<1>2. PICK b \in Brokers, p \in Parts : b = q.to /\ p = q.part
  BY <1>1 DEF Lands
<1>3. Owner(size, p) = b
  BY <1>1, <1>2 DEF Lands
<1>4. PICK e \in Brokers : Held(d, e)
  BY DEF Placed
<1>5. e = b
  BY <1>2, <1>3, <1>4 DEF Held, AtHome
<1>6. PICK len \in Nat : len = Len(Text[b][p])
  BY TextType DEF Types
<1>7. d.off \in Nat
  BY AnswersType DEF Responses
<1>8. d.off + 1 \in 1 .. len
  BY <1>2, <1>4, <1>5, <1>6 DEF Held
<1>9. Response(c, q).off = len
  BY <1>2, <1>6 DEF Response
<1> QED
  BY <1>6, <1>7, <1>8, <1>9

LEMMA InOrderNext ==
    ASSUME Types, AtHome, Placed, Agreed, TodoKeyed, AnswersKeyed, InTurn, Over, InOrder, [Next]_vars
    PROVE  InOrder'
<1> SUFFICES ASSUME NEW d \in Answers', NEW e \in Answers', d.from = e.from, d.key = e.key,
                    d.key # NoKey, d.n < e.n
             PROVE  d.off < e.off
  BY DEF InOrder
<1>1. CASE d \in Answers /\ e \in Answers
  BY <1>1 DEF InOrder
<1>2. CASE d \in Answers /\ e \notin Answers
  <2>1. PICK c, q : c \in Producers /\ Land(c) /\ q = Current(c) /\ e = Response(c, q)
    BY <1>2, AnswersNext
  <2>2. q \in call[c].todo
    BY <2>1, LandCalls DEF Types
  <2>3. e.key = Sends[c][q.n] /\ e.part = q.part
    BY <2>1 DEF Response
  <2>4. Keyed(d.key, d.part) /\ Keyed(d.key, q.part)
    BY <1>2, <2>1, <2>2, <2>3 DEF AnswersKeyed, TodoKeyed
  <2>5. d.part = q.part
    BY <2>4, KeyedOnce
  <2> QED
    BY <1>2, <2>1, <2>5, LandsAfter
<1>3. CASE d \notin Answers
  <2>1. PICK c, q : c \in Producers /\ Land(c) /\ q = Current(c) /\ d = Response(c, q)
    BY <1>3, AnswersNext
  <2>2. d.from = c /\ d.key = Sends[c][q.n] /\ d.n = q.n
    BY <2>1 DEF Response
  <2>3. q \in call[c].todo /\ call[c].pc = "send" /\ q \in Requests
    BY <2>1, LandCalls DEF Types
  <2>4. CallFits(c, call[c]) /\ call[c] \in CallType
    BY <2>1 DEF Types, CallsOK, Clients
  <2>5. q.n \in call[c].first .. call[c].n /\ call[c].first \in Nat /\ call[c].n \in Nat
    BY <2>3, <2>4 DEF CallFits, CallType
  <2>6. CASE e \in delivered
    <3>1. e.n < call[c].first /\ e.n \in Nat
      BY <2>2, <2>3, <2>6 DEF Over, Types, PastOK, Responses
    <3> QED
      BY <2>2, <2>5, <3>1
  <2>7. ASSUME NEW a \in Producers, e \in call[a].done PROVE FALSE
    <3>1. CallFits(a, call[a]) /\ call[a] \in CallType
      BY DEF Types, CallsOK, Clients
    <3>2. e.from = a /\ e.key = Sends[a][e.n] /\ e \in Responses
      BY <2>7, <3>1 DEF CallFits, CallType
    <3>3. a = c
      BY <2>2, <3>2
    <3>4. e.n < q.n
      BY <2>2, <2>3, <2>7, <3>2, <3>3 DEF InTurn
    <3> QED
      BY <2>2, <2>3, <3>2, <3>4 DEF Responses, Requests
  <2>8. CASE e \notin Answers
    <3>1. PICK a, r : a \in Producers /\ Land(a) /\ r = Current(a) /\ e = Response(a, r)
      BY <2>8, AnswersNext
    <3>2. e.from = a /\ e.n = r.n
      BY <3>1 DEF Response
    <3>3. e.n = d.n /\ d.n \in Nat
      BY <2>1, <2>2, <2>3, <3>1, <3>2 DEF Requests
    <3> QED
      BY <3>3
  <2> QED
    BY <2>6, <2>7, <2>8 DEF Answers
<1> QED
  BY <1>1, <1>2, <1>3

\* With care, and with the same partition count on every broker that has the
\* topic, what send and send_batch returned for the records of one key is in one
\* partition and in the order they were sent, over retries, redirects, crashes
\* and resizes (Partitioner.partition_for on the count of the routing table;
\* Admin.create_topic: "must be called against EVERY broker").
THEOREM KeysInOrder == Spec => [](Agreed => KeyOrder)
<1> DEFINE Inv == /\ Types /\ (scene.careful => AtHome)
                  /\ Placed /\ TableFrom /\ TodoKeyed /\ AnswersKeyed /\ OneEach /\ InTurn /\ Over
                  /\ (scene.careful /\ Agreed => InOrder)
<1>1. Init => Inv
  <2> SUFFICES ASSUME Init PROVE Inv
    OBVIOUS
  <2>1. Answers = {} /\ delivered = {} /\ \A c \in Producers : call[c].todo = {}
    BY DEF Init, Answers, Idle, Clients
  <2>2. Types /\ AtHome /\ TableFrom
    BY TypesInit, HomeInit DEF Init, TableFrom
  <2> QED
    BY <2>1, <2>2 DEF Placed, TodoKeyed, AnswersKeyed, OneEach, InTurn, Over, InOrder
<1>2. Inv /\ [Next]_vars => Inv'
  <2> SUFFICES ASSUME Inv, [Next]_vars PROVE Inv'
    OBVIOUS
  <2>1. Types' /\ scene'.careful = scene.careful /\ (scene.careful => AtHome')
    BY TypesNext, SceneNext, HomeNext DEF Types
  <2>2. /\ Placed' /\ TableFrom' /\ TodoKeyed' /\ AnswersKeyed' /\ OneEach' /\ InTurn' /\ Over'
    BY PlacedNext, TableFromNext, TodoKeyedNext, AnswersKeyedNext, OneEachNext, InTurnNext, OverNext
  <2>3. scene.careful /\ Agreed' => InOrder'
    BY AgreedBefore, InOrderNext
  <2> QED
    BY <2>1, <2>2, <2>3
<1>3. ASSUME Inv PROVE Agreed => KeyOrder
  <2> SUFFICES ASSUME Agreed, scene.careful, NEW d \in delivered, NEW e \in delivered,
                      d.from = e.from, d.key = e.key, d.key # NoKey, d.n < e.n
               PROVE  d.part = e.part /\ d.off < e.off
    BY DEF KeyOrder
  <2>1. d \in Answers /\ e \in Answers
    BY DEF Answers
  <2>2. d.part = e.part
    BY <1>3, <2>1, KeyedOnce DEF AnswersKeyed
  <2> QED
    BY <1>3, <2>1, <2>2 DEF InOrder
<1> QED
  BY <1>1, <1>2, <1>3, PTL DEF Spec

=============================================================================
