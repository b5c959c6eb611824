--------------------------- MODULE HashRingProofs ---------------------------
(***************************************************************************)
(* For any digests, any number of virtual nodes and any size of cluster:   *)
(* bisecting the sorted circle finds the first point clockwise, and adding *)
(* or taking away a broker moves no partition but those it gains or held.  *)
(*                                                                         *)
(* The ranks of a finite circle are 0 .. its size - 1, each once (they are *)
(* an injection into that interval, RankOnto), which yields least points.  *)
(* IsFirst is Clockwise with ties broken all the way down, so that exactly *)
(* one point satisfies it; a point that is first on a circle is first on   *)
(* every part of it that contains it (FirstOfPart).                        *)
(***************************************************************************)
EXTENDS HashRing, FiniteSetTheorems, TLAPS

IsCircle(P) == IsFiniteSet(P) /\ P # {} /\ P \in SUBSET (Nat \X Nat \X Nat)

\* The part of the circle an owner is searched in, clockwise from d.
Beyond(P, d) == {q \in P : q[1] > d}
From(P, d) == IF Beyond(P, d) = {} THEN P ELSE Beyond(P, d)

IsFirst(P, d, p) == p \in From(P, d) /\ \A q \in From(P, d) : q = p \/ Less(p, q)

\* Points are ordered: of two different ones exactly one is the lesser.
LEMMA LessOrder ==
    ASSUME NEW p \in Nat \X Nat \X Nat, NEW q \in Nat \X Nat \X Nat
    PROVE  /\ p = q \/ Less(p, q) \/ Less(q, p)
           /\ ~ (Less(p, q) /\ Less(q, p))
           /\ ~ Less(p, p)
BY DEF Less

\* Less is transitive.
LEMMA LessTransitive ==
    ASSUME NEW p \in Nat \X Nat \X Nat, NEW q \in Nat \X Nat \X Nat, NEW r \in Nat \X Nat \X Nat,
           Less(p, q), Less(q, r)
    PROVE  Less(p, r)
BY DEF Less

\* The points below a point are a finite, proper part of the circle.
LEMMA RankRange ==
    ASSUME NEW P, IsCircle(P), NEW p \in P
    PROVE  /\ Rank(P, p) \in 0 .. Cardinality(P) - 1
           /\ IsFiniteSet({r \in P : Less(r, p)})
<1> DEFINE A == {r \in P : Less(r, p)}
<1>1. A \in SUBSET P /\ IsFiniteSet(P)
    BY DEF IsCircle
<1>2. IsFiniteSet(A) /\ Cardinality(A) <= Cardinality(P) /\ (Cardinality(P) = Cardinality(A) => P = A)
    BY <1>1, FS_Subset
<1>3. Cardinality(A) \in Nat /\ Cardinality(P) \in Nat
    BY <1>1, <1>2, FS_CardinalityType
<1>4. p \notin A
    BY LessOrder DEF IsCircle
<1>5. Cardinality(A) # Cardinality(P)
    BY <1>2, <1>4
<1>6. QED
    BY <1>2, <1>3, <1>5 DEF Rank

\* An index is a number.
LEMMA RankNat ==
    ASSUME NEW P, IsCircle(P), NEW p \in P
    PROVE  Rank(P, p) \in Nat
<1>1. IsFiniteSet({r \in P : Less(r, p)})
    BY RankRange
<1>2. QED
    BY <1>1, FS_CardinalityType DEF Rank

\* A lesser point has a lesser index.
LEMMA RankStrict ==
    ASSUME NEW P, IsCircle(P), NEW p \in P, NEW q \in P, Less(p, q)
    PROVE  Rank(P, p) < Rank(P, q)
<1> DEFINE A == {r \in P : Less(r, p)}
           B == {r \in P : Less(r, q)}
<1>1. A \in SUBSET B
    BY LessTransitive DEF IsCircle
<1>2. p \in B /\ p \notin A
    BY LessOrder DEF IsCircle
<1>3. IsFiniteSet(B)
    BY RankRange
<1>4. Cardinality(A) <= Cardinality(B) /\ (Cardinality(B) = Cardinality(A) => B = A)
    BY <1>1, <1>3, FS_Subset
<1>5. Cardinality(A) # Cardinality(B)
    BY <1>2, <1>4
<1>6. Rank(P, p) = Cardinality(A) /\ Rank(P, q) = Cardinality(B)
    BY DEF Rank
<1>7. Rank(P, p) \in Int /\ Rank(P, q) \in Int
    BY RankNat
<1> HIDE DEF A, B
<1>8. QED
    BY <1>4, <1>5, <1>6, <1>7

\* No two points have one index.
LEMMA RankInjective ==
    ASSUME NEW P, IsCircle(P), NEW p \in P, NEW q \in P, Rank(P, p) = Rank(P, q)
    PROVE  p = q
<1>1. Rank(P, p) \in Int /\ Rank(P, q) \in Int
    BY RankNat
<1>2. ~ Less(p, q) /\ ~ Less(q, p)
    BY <1>1, RankStrict
<1>3. QED
    BY <1>2, LessOrder DEF IsCircle

\* Every index below the length of the list has its point.
LEMMA RankOnto ==
    ASSUME NEW P, IsCircle(P), NEW i \in 0 .. Cardinality(P) - 1
    PROVE  \E p \in P : Rank(P, p) = i
<1> DEFINE T == 0 .. Cardinality(P) - 1
           f == [p \in P |-> Rank(P, p)]
<1>1. Cardinality(P) \in Nat
    BY FS_CardinalityType DEF IsCircle
<1>2. IsFiniteSet(T) /\ Cardinality(T) = Cardinality(P)
    <2>1. 0 \in Int /\ Cardinality(P) - 1 \in Int
        BY <1>1
    <2>2. IsFiniteSet(T) /\ Cardinality(T) =
            IF 0 > Cardinality(P) - 1 THEN 0 ELSE (Cardinality(P) - 1) - 0 + 1
        BY <2>1, FS_Interval
    <2>3. QED
        BY <2>2, <1>1
<1>3. f \in Injection(P, T)
    <2>1. f \in [P -> T]
        BY RankRange
    <2>2. \A p, q \in P : f[p] = f[q] => p = q
        BY RankInjective
    <2>3. QED
        BY <2>1, <2>2 DEF Injection, IsInjective
<1>4. f \in Surjection(P, T)
    BY <1>2, <1>3, FS_Injection
<1>5. PICK p \in P : f[p] = i
    BY <1>4 DEF Surjection
<1>6. QED
    BY <1>5

\* A circle has a least point.
LEMMA LeastPoint ==
    ASSUME NEW P, IsCircle(P)
    PROVE  \E p \in P : \A q \in P : q = p \/ Less(p, q)
<1>1. Cardinality(P) \in Nat /\ Cardinality(P) # 0
    BY FS_CardinalityType, FS_EmptySet DEF IsCircle
<1>2. PICK p \in P : Rank(P, p) = 0
    BY <1>1, RankOnto
<1>3. {r \in P : Less(r, p)} = {}
    BY <1>2, RankRange, FS_EmptySet DEF Rank
<1>4. QED
    BY <1>3, LessOrder DEF IsCircle

-----------------------------------------------------------------------------
(* What the bisection finds.                                               *)

\* A point that no other precedes is the only such.
LEMMA FirstUnique ==
    ASSUME NEW P, IsCircle(P), NEW d, NEW p, NEW q, IsFirst(P, d, p), IsFirst(P, d, q)
    PROVE  p = q
<1>1. From(P, d) \in SUBSET P
    BY DEF From, Beyond
<1>2. p \in From(P, d) /\ q \in From(P, d)
    BY DEF IsFirst
<1>3. p \in Nat \X Nat \X Nat /\ q \in Nat \X Nat \X Nat
    BY <1>1, <1>2 DEF IsCircle
<1>4. ~ (Less(p, q) /\ Less(q, p))
    BY <1>3, LessOrder
<1>5. QED
    BY <1>2, <1>4 DEF IsFirst

\* The owner's point: bisect_right, the wrap, and the lookup by index find the
\* first point clockwise.
LEMMA AtIsFirst ==
    ASSUME NEW P, IsCircle(P), NEW d \in Nat
    PROVE  IsFirst(P, d, At(P, d))
<1> DEFINE S == {q \in P : q[1] <= d}
           i == Bisect(P, d) % Cardinality(P)
<1>1. Cardinality(P) \in Nat /\ Cardinality(P) > 0
    BY FS_CardinalityType, FS_EmptySet DEF IsCircle
<1>2. S \in SUBSET P /\ IsFiniteSet(P)
    BY DEF IsCircle
<1>3. /\ IsFiniteSet(S) /\ Cardinality(S) \in Nat /\ Cardinality(S) <= Cardinality(P)
      /\ Cardinality(P) = Cardinality(S) => P = S
    BY <1>2, FS_Subset, FS_CardinalityType
<1>4. Bisect(P, d) = Cardinality(S)
    BY DEF Bisect
<1>5. P \subseteq Nat \X Nat \X Nat
    BY DEF IsCircle
<1>6. Beyond(P, d) = P \ S
    BY <1>5 DEF Beyond
<1>7. CASE P = S
    <2>1. i = 0
        BY <1>1, <1>4, <1>7
    <2>2. PICK p \in P : Rank(P, p) = 0
        BY <1>1, RankOnto
    <2>3. At(P, d) \in P /\ Rank(P, At(P, d)) = 0
        BY <2>1, <2>2 DEF At
    <2>4. {r \in P : Less(r, At(P, d))} = {}
        BY <2>3, RankRange, FS_EmptySet DEF Rank
    <2>5. From(P, d) = P
        BY <1>6, <1>7 DEF From
    <2>6. QED
        BY <2>3, <2>4, <2>5, <1>5, LessOrder DEF IsFirst
<1>8. CASE P # S
    <2> DEFINE X == P \ S
    <2>1. IsCircle(X)
        <3>1. X \in SUBSET P /\ X # {}
            BY <1>2, <1>8
        <3>2. IsFiniteSet(X)
            BY <3>1, <1>2, FS_Subset
        <3>3. QED
            BY <3>1, <3>2, <1>5 DEF IsCircle
    <2>2. PICK m \in X : \A q \in X : q = m \/ Less(m, q)
        BY <2>1, LeastPoint
    <2>3. {r \in P : Less(r, m)} = S
        <3>1. \A r \in S : Less(r, m)
            BY <1>5 DEF Less
        <3>2. \A r \in X : ~ Less(r, m)
            BY <2>2, <1>5, LessOrder
        <3>3. QED
            BY <3>1, <3>2, <1>2
    <2>4. Rank(P, m) = Cardinality(S)
        BY <2>3 DEF Rank
    <2>5. Cardinality(S) < Cardinality(P)
        BY <1>1, <1>3, <1>8
    <2>6. i = Cardinality(S)
        BY <1>1, <1>3, <1>4, <2>5
    <2>7. At(P, d) \in P /\ Rank(P, At(P, d)) = i
        BY <2>4, <2>6 DEF At
    <2>8. At(P, d) = m
        BY <2>4, <2>6, <2>7, RankInjective
    <2>9. From(P, d) = X
        BY <1>6, <2>2 DEF From
    <2>10. QED
        BY <2>2, <2>8, <2>9 DEF IsFirst
<1>9. QED
    BY <1>7, <1>8

\* What is first on a circle is first on any part of it that it is in.
LEMMA FirstOfPart ==
    ASSUME NEW P, NEW Q, P \subseteq Q, NEW d, NEW p \in P, IsFirst(Q, d, p)
    PROVE  IsFirst(P, d, p)
<1>1. Beyond(P, d) = Beyond(Q, d) \cap P
    BY DEF Beyond
<1>2. From(P, d) \subseteq From(Q, d) /\ p \in From(P, d)
    BY <1>1 DEF From, IsFirst
<1>3. QED
    BY <1>2 DEF IsFirst

\* An owner's point that is in a part of the circle is the owner's point there.
LEMMA AtOfPart ==
    ASSUME NEW P, IsCircle(P), NEW Q, IsCircle(Q), P \subseteq Q, NEW d \in Nat, At(Q, d) \in P
    PROVE  At(P, d) = At(Q, d)
<1>1. IsFirst(P, d, At(Q, d))
    BY AtIsFirst, FirstOfPart
<1>2. QED
    BY <1>1, AtIsFirst, FirstUnique

-----------------------------------------------------------------------------
(* The specification.                                                      *)

\* What never changes: the digests are digests, and there is a broker.
Chosen ==
    /\ point \in [Names -> Digests]
    /\ place \in [Partitions -> Digests]
    /\ brokers \in 1 .. MaxBrokers

\* What Points is, element by element.
LEMMA PointsMembers ==
    ASSUME NEW n, NEW p
    PROVE  p \in Points(n) <=> \E b \in 0 .. n - 1, v \in VNodes : p = <<point[<<b, v>>], b, v>>
<1> DEFINE B == 0 .. n - 1
           F(b, v) == <<point[<<b, v>>], b, v>>
<1> HIDE DEF B, F
<1>1. p \in {F(b, v) : b \in B, v \in VNodes} <=> \E b \in B, v \in VNodes : p = F(b, v)
    OBVIOUS
<1>2. QED
    BY <1>1 DEF Points, B, F

\* The points of a cluster make a circle.
LEMMA PointsCircle ==
    ASSUME Chosen, NEW n \in 1 .. MaxBrokers
    PROVE  IsCircle(Points(n))
<1> USE VNodesAssumption, DigestsAssumption, BrokersAssumption
<1> DEFINE D == (0 .. n - 1) \X VNodes
           f == [x \in D |-> <<point[x], x[1], x[2]>>]
<1>1. IsFiniteSet(D)
    <2>1. IsFiniteSet(0 .. n - 1)
        BY FS_Interval
    <2>2. QED
        BY <2>1, FS_Product
<1>2. \A x \in D : x \in Names /\ x = <<x[1], x[2]>> /\ x[1] \in 0 .. n - 1 /\ x[2] \in VNodes
    BY DEF Names
<1>3. \A b \in 0 .. n - 1, v \in VNodes : <<b, v>> \in D /\ point[<<b, v>>] \in Nat
    <2>1. \A b \in 0 .. n - 1, v \in VNodes : <<b, v>> \in Names
        BY DEF Names
    <2>2. QED
        BY <2>1 DEF Chosen
<1>4. f \in Surjection(D, Points(n))
    <2>1. \A x \in D : f[x] \in Points(n)
        <3> TAKE x \in D
        <3>1. f[x] = <<point[<<x[1], x[2]>>], x[1], x[2]>>
            BY <1>2
        <3>2. QED
            BY <3>1, <1>2, PointsMembers
    <2>2. \A p \in Points(n) : \E x \in D : f[x] = p
        <3> TAKE p \in Points(n)
        <3>1. PICK b \in 0 .. n - 1, v \in VNodes : p = <<point[<<b, v>>], b, v>>
            BY PointsMembers
        <3>2. f[<<b, v>>] = p
            BY <3>1, <1>3
        <3>3. QED
            BY <3>2, <1>3
    <2>3. QED
        BY <2>1, <2>2 DEF Surjection
<1>5. IsFiniteSet(Points(n))
    BY <1>1, <1>4, FS_Surjection
<1>6. Points(n) \in SUBSET (Nat \X Nat \X Nat)
    <2>1. ASSUME NEW p \in Points(n)
          PROVE  p \in Nat \X Nat \X Nat
        <3>1. PICK b \in 0 .. n - 1, v \in VNodes : p = <<point[<<b, v>>], b, v>>
            BY PointsMembers
        <3>2. point[<<b, v>>] \in Nat /\ b \in Nat /\ v \in Nat
            BY <1>3
        <3>3. QED
            BY <3>1, <3>2
    <2>2. QED
        BY <2>1
<1>7. Points(n) # {}
    <2>1. PICK v \in VNodes : TRUE
        OBVIOUS
    <2>2. 0 \in 0 .. n - 1
        OBVIOUS
    <2>3. <<point[<<0, v>>], 0, v>> \in Points(n)
        BY <2>2, PointsMembers
    <2>4. QED
        BY <2>3
<1>8. QED
    BY <1>5, <1>6, <1>7 DEF IsCircle

\* The points of the smaller of two clusters are the larger's, less those of the
\* brokers it lacks.
LEMMA PointsGrow ==
    ASSUME Chosen, NEW n \in 1 .. MaxBrokers - 1
    PROVE  /\ Points(n) \subseteq Points(n + 1)
           /\ \A p \in Points(n + 1) : p[2] = n \/ p \in Points(n)
<1>1. 0 .. n - 1 \subseteq 0 .. n + 1 - 1 /\ \A b \in 0 .. n + 1 - 1 : b = n \/ b \in 0 .. n - 1
    BY BrokersAssumption
<1>2. \A p \in Points(n) : p \in Points(n + 1)
    BY <1>1, PointsMembers
<1>3. \A p \in Points(n + 1) : p[2] = n \/ p \in Points(n)
    <2> TAKE p \in Points(n + 1)
    <2>1. PICK b \in 0 .. n + 1 - 1, v \in VNodes : p = <<point[<<b, v>>], b, v>>
        BY PointsMembers
    <2>2. CASE b = n
        BY <2>1, <2>2
    <2>3. CASE b \in 0 .. n - 1
        BY <2>1, <2>3, PointsMembers
    <2>4. QED
        BY <1>1, <2>2, <2>3
<1>4. QED
    BY <1>2, <1>3

\* The owner of any digest is a broker of the cluster.
LEMMA OwnerInCluster ==
    ASSUME Chosen, NEW n \in 1 .. MaxBrokers, NEW d \in Nat
    PROVE  broker_for(n, d) \in 0 .. n - 1
<1>1. At(Points(n), d) \in Points(n)
  BY PointsCircle, AtIsFirst DEF IsFirst, From, Beyond
<1>2. PICK b \in 0 .. n - 1, v \in VNodes : At(Points(n), d) = <<point[<<b, v>>], b, v>>
  BY <1>1, PointsMembers
<1> QED
  BY <1>2 DEF broker_for

\* The digests stay, and the cluster keeps at least one broker.
LEMMA ChosenInvariant == Spec => []Chosen
<1>1. Init => Chosen
    BY DEF Init, Chosen
<1>2. Chosen /\ [Next]_vars => Chosen'
    BY BrokersAssumption DEF Chosen, Next, Grow, Shrink, vars
<1>3. QED
    BY <1>1, <1>2, PTL DEF Spec

\* HashRing.broker_for is right about what it is for, whatever the digests:
\* the point it finds is the first one clockwise.
THEOREM BisectFindsFirst == Spec => []FirstClockwise
<1>1. Chosen => FirstClockwise
    <2> SUFFICES ASSUME Chosen, NEW t \in Partitions
                 PROVE  Clockwise(Points(brokers), place[t], At(Points(brokers), place[t]))
        BY DEF FirstClockwise
    <2> DEFINE P == Points(brokers)
               d == place[t]
               p == At(P, d)
    <2>1. IsCircle(P) /\ d \in Nat
        BY PointsCircle, DigestsAssumption DEF Chosen
    <2>2. IsFirst(P, d, p)
        BY <2>1, AtIsFirst
    <2>3. From(P, d) \subseteq P /\ P \subseteq Nat \X Nat \X Nat
        BY <2>1 DEF From, Beyond, IsCircle
    <2> HIDE DEF P, d, p
    <2>4. \A q \in From(P, d) : p[1] < q[1] \/ (p[1] = q[1] /\ p[2] <= q[2])
        BY <2>2, <2>3 DEF IsFirst, Less
    <2>5. QED
        BY <2>2, <2>4 DEF Clockwise, IsFirst, From, Beyond, P, d, p
<1>2. QED
    BY <1>1, ChosenInvariant, PTL

\* Consistent hashing: growing the cluster moves partitions to the new broker
\* only, shrinking it moves only those of the broker that left.
THEOREM ResizeMovesLittle == Spec => MovesLittle
<1> DEFINE Moves(t) ==
        LET was == broker_for(brokers, place[t])
            now == broker_for(brokers', place[t])
        IN  was = now \/ IF brokers' > brokers THEN now = brokers ELSE was = brokers'
<1>1. ASSUME Chosen, NEW t \in Partitions, NEW n \in 1 .. MaxBrokers - 1
      PROVE  \/ broker_for(n + 1, place[t]) = n
             \/ broker_for(n + 1, place[t]) = broker_for(n, place[t])
    <2> DEFINE P == Points(n)
               Q == Points(n + 1)
               d == place[t]
    <2>1. n \in 1 .. MaxBrokers /\ n + 1 \in 1 .. MaxBrokers
        BY BrokersAssumption
    <2>2. IsCircle(P) /\ IsCircle(Q) /\ d \in Nat
        BY <1>1, <2>1, PointsCircle, DigestsAssumption DEF Chosen
    <2>3. P \subseteq Q /\ \A p \in Q : p[2] = n \/ p \in P
        BY <1>1, PointsGrow
    <2>4. At(Q, d) \in Q
        BY <2>2, AtIsFirst DEF IsFirst, From, Beyond
    <2>5. At(Q, d)[2] = n \/ At(P, d) = At(Q, d)
        BY <2>2, <2>3, <2>4, AtOfPart
    <2>6. QED
        BY <2>5 DEF broker_for
<1>2. Chosen /\ [Next]_vars => [\A t \in Partitions : Moves(t)]_vars
    <2> SUFFICES ASSUME Chosen, Next, NEW t \in Partitions
                 PROVE  Moves(t)
        BY DEF vars
    <2>1. CASE Grow
        <3>1. brokers \in 1 .. MaxBrokers - 1 /\ brokers' = brokers + 1 /\ brokers' > brokers
            BY <2>1, BrokersAssumption DEF Grow, Chosen
        <3>2. QED
            BY <1>1, <3>1
    <2>2. CASE Shrink
        <3>1. /\ brokers' \in 1 .. MaxBrokers - 1 /\ brokers = brokers' + 1
              /\ ~ (brokers' > brokers)
            BY <2>2, BrokersAssumption DEF Shrink, Chosen
        <3> DEFINE n == brokers'
        <3> HIDE DEF n
        <3>2. \/ broker_for(n + 1, place[t]) = n
              \/ broker_for(n + 1, place[t]) = broker_for(n, place[t])
            BY <1>1, <3>1 DEF n
        <3>3. QED
            BY <3>1, <3>2 DEF n
    <2>3. QED
        BY <2>1, <2>2 DEF Next
<1>3. QED
    BY <1>2, ChosenInvariant, PTL DEF Spec, MovesLittle
=============================================================================
