--------------------------- MODULE RecorderProofs ---------------------------
(***************************************************************************)
(* Machine-checked proofs about Recorder: the table and the queues agree,  *)
(* required records stay until they are acknowledged, a consumer that      *)
(* follows its cursor is told of every loss, and identities are dense.     *)
(* The sums of sizes stay opaque: which entries an eviction picks does not *)
(* matter to these results, only that it never picks a required one.       *)
(***************************************************************************)
EXTENDS Recorder, TLAPS, FiniteSetTheorems, SequenceTheorems

RecordType == [flow : Flows, bytes : Nat, required : BOOLEAN,
               claims : SUBSET Consumers]

Typing ==
    /\ next \in [Consumers -> Nat \ {0}]
    /\ queue \in [Consumers -> SUBSET (Nat \X Nat)]
    /\ DOMAIN records \subseteq Nat
    /\ \A s \in DOMAIN records : records[s] \in RecordType

\* Identities in use lie below the counters.
Spent ==
    /\ \A c \in Consumers : \A q \in queue[c] : q[1] < next[c] /\ q[2] < next[Owner]
    /\ \A s \in DOMAIN records : s < next[Owner]

\* A queue names a source once.
SingleEntry ==
    \A c \in Consumers : \A q, r \in queue[c] : q[2] = r[2] => q = r

Retention == Typing /\ Spent /\ SingleEntry /\ ClaimsCoherent

-----------------------------------------------------------------------------
(* Identities of an update *)

\* A position's rank among the selected ones is below their number.
LEMMA SelectedRanks ==
    ASSUME NEW f \in Flows, NEW u \in Updates, NEW c \in Consumers
    PROVE  /\ Selected(c, f, u) \subseteq 1..Len(u)
           /\ Len(u) \in Nat
           /\ Cardinality(Selected(c, f, u)) \in Nat
           /\ \A k \in Selected(c, f, u) :
                /\ Cardinality({j \in Selected(c, f, u) : j < k}) \in Nat
                /\ Cardinality({j \in Selected(c, f, u) : j < k})
                     < Cardinality(Selected(c, f, u))
<1> DEFINE S == Selected(c, f, u)
<1>1. Len(u) \in Nat
  BY RecorderAssumption
<1>2. S \subseteq 1..Len(u)
  BY DEF Selected, Positions
<1>3. IsFiniteSet(1..Len(u))
  BY <1>1, FS_Interval
<1>4. IsFiniteSet(S)
  BY <1>2, <1>3, FS_Subset
<1>5. Cardinality(S) \in Nat
  BY <1>4, FS_CardinalityType
<1>6. ASSUME NEW k \in S
      PROVE  /\ Cardinality({j \in S : j < k}) \in Nat
             /\ Cardinality({j \in S : j < k}) < Cardinality(S)
  <2> DEFINE T == {j \in S : j < k}
  <2>1. T \in SUBSET S
    OBVIOUS
  <2>2. k \notin T /\ k \in S
    BY <1>1, <1>2
  <2>3. T # S
    BY <2>2
  <2>4. IsFiniteSet(T) /\ Cardinality(T) <= Cardinality(S)
        /\ (Cardinality(S) = Cardinality(T) => S = T)
    BY <2>1, <1>4, FS_Subset
  <2>5. Cardinality(T) \in Nat
    BY <2>4, FS_CardinalityType
  <2> HIDE DEF T, S
  <2>6. Cardinality(T) < Cardinality(S)
    BY <2>3, <2>4, <2>5, <1>5
  <2> QED BY <2>5, <2>6 DEF T
<1> QED BY <1>1, <1>2, <1>5, <1>6

\* The deliveries of an update carry identities nobody has used.
LEMMA NewDeliveries ==
    ASSUME Typing, NEW f \in Flows, NEW u \in Updates, NEW c \in Consumers
    PROVE  /\ Deliveries(c, f, u) \subseteq Nat \X Nat
           /\ \A q \in Deliveries(c, f, u) :
                /\ next[c] <= q[1] /\ q[1] < next[c] + Cardinality(Selected(c, f, u))
                /\ next[Owner] <= q[2] /\ q[2] < next[Owner] + Len(u)
           /\ \A q, r \in Deliveries(c, f, u) : q[2] = r[2] => q = r
<1> DEFINE S == Selected(c, f, u)
           D(k) == Cardinality({j \in S : j < k})
<1>0. Owner \in Consumers
  BY DEF Consumers
<1>1. next[c] \in Nat /\ next[Owner] \in Nat
  BY <1>0 DEF Typing
<1>2. /\ S \subseteq 1..Len(u) /\ Len(u) \in Nat
      /\ \A k \in S : D(k) \in Nat /\ D(k) < Cardinality(S)
      /\ Cardinality(S) \in Nat
  BY SelectedRanks
<1>3. Deliveries(c, f, u) = {<<next[c] + D(k), next[Owner] + k - 1>> : k \in S}
  BY DEF Deliveries, Delivery, Source
<1> HIDE DEF D, S
<1>4. \A k \in S : /\ next[c] + D(k) \in Nat
                   /\ next[c] + D(k) < next[c] + Cardinality(S)
                   /\ next[c] <= next[c] + D(k)
                   /\ next[Owner] + k - 1 \in Nat
                   /\ next[Owner] <= next[Owner] + k - 1
                   /\ next[Owner] + k - 1 < next[Owner] + Len(u)
  BY <1>1, <1>2
<1>5. \A j, k \in S : next[Owner] + j - 1 = next[Owner] + k - 1 => j = k
  BY <1>1, <1>2
<1>6. \A q \in Deliveries(c, f, u) : \E k \in S :
        q = <<next[c] + D(k), next[Owner] + k - 1>>
  BY <1>3
<1>7. \A q \in Deliveries(c, f, u) :
        /\ q \in Nat \X Nat
        /\ next[c] <= q[1] /\ q[1] < next[c] + Cardinality(S)
        /\ next[Owner] <= q[2] /\ q[2] < next[Owner] + Len(u)
  BY <1>4, <1>6
<1>8. \A q, r \in Deliveries(c, f, u) : q[2] = r[2] => q = r
  BY <1>5, <1>6
<1> QED BY <1>7, <1>8 DEF S

\* What the plan of an update guarantees, whichever sizes made it.
LEMMA PlanFacts ==
    ASSUME NEW f \in Flows, NEW u \in Updates, NEW plan, plan = Plan(f, u)
    PROVE  /\ Owner \in plan.takers /\ plan.takers \subseteq Consumers
           /\ plan.drop[Owner] = {}
           /\ \A c \in Consumers : plan.drop[c] \subseteq queue[c]
           /\ \A c \in Consumers : \A q \in plan.drop[c] : ~records[q[2]].required
           /\ plan.evicted \subseteq DOMAIN records
           /\ \A s \in DOMAIN records :
                (\A c \in records[s].claims : s \in Sources(plan.drop[c]))
                   => s \in plan.evicted
           /\ ~plan.unavailable =>
                \A s \in plan.evicted :
                   \/ \A c \in records[s].claims : s \in Sources(plan.drop[c])
                   \/ ~records[s].required
           /\ ~plan.unavailable /\ f \in RequiredFlows => Live \subseteq plan.takers
<1> DEFINE takers == {Owner} \cup {i \in Live : Accepts(i, f, u)}
           drop == [c \in Consumers |->
                      IF c \in takers \ {Owner} THEN LocalDrop(c, f, u) ELSE {}]
           orphans == {s \in DOMAIN records :
                         \A c \in records[s].claims : s \in Sources(drop[c])}
           cuts == {cut \in 0..next[Owner] : Fits(f, u, orphans, cut)}
           forced == {s \in DOMAIN records \ orphans : \A cut \in cuts : s < cut}
           unavailable ==
              \/ ~available
              \/ Len(u) > MaxEvents \/ Weight(u, Positions(u)) > MaxBytes
              \/ f \in RequiredFlows /\ Live \ takers # {}
              \/ \E s \in forced : f \in RequiredFlows \/ records[s].required
              \/ cuts = {}
<1>1. plan = [takers |-> takers, drop |-> drop, evicted |-> orphans \cup forced,
              unavailable |-> unavailable]
  BY DEF Plan
<1>2. /\ plan.takers = takers /\ plan.drop = drop
      /\ plan.evicted = orphans \cup forced /\ plan.unavailable = unavailable
  BY <1>1
<1>3. Owner \in takers /\ takers \subseteq Consumers
  BY DEF Live, Consumers
<1>4. drop[Owner] = {}
  BY DEF Consumers
<1>5. ASSUME NEW c \in Consumers
      PROVE  /\ drop[c] \subseteq queue[c]
             /\ \A q \in drop[c] : ~records[q[2]].required
  <2>1. CASE c \in takers \ {Owner}
    <3>1. drop[c] = LocalDrop(c, f, u) /\ Accepts(c, f, u)
      BY <2>1
    <3> QED BY <3>1 DEF LocalDrop, Accepts
  <2>2. CASE c \notin takers \ {Owner}
    BY <2>2
  <2> QED BY <2>1, <2>2
<1>6. orphans \cup forced \subseteq DOMAIN records
  OBVIOUS
<1>7. ~unavailable => \A s \in forced : ~records[s].required
  OBVIOUS
<1>8. ~unavailable /\ f \in RequiredFlows => Live \subseteq takers
  OBVIOUS
<1> HIDE DEF takers, drop, forced, unavailable, cuts
<1> QED BY <1>2, <1>3, <1>4, <1>5, <1>6, <1>7, <1>8

-----------------------------------------------------------------------------
(* The table and the queues *)

\* A published update leaves the table and the queues in agreement.
LEMMA PublishRetains ==
    ASSUME Retention, NEW f \in Flows, NEW u \in Updates,
           NEW plan, plan = Plan(f, u), Publish(f, u, plan)
    PROVE  Retention'
<1> USE DEF Retention
<1> DEFINE kept == DOMAIN records \ plan.evicted
           new == {Source(k) : k \in Positions(u)}
<1>0. Owner \in Consumers
  BY DEF Consumers
<1>1. Owner \in plan.takers /\ plan.takers \subseteq Consumers
  BY PlanFacts
<1>2. \A c \in Consumers : plan.drop[c] \subseteq queue[c]
  BY PlanFacts
<1>3. \A s \in kept : \E c \in records[s].claims : s \notin Sources(plan.drop[c])
  BY PlanFacts
<1>4. plan.evicted \subseteq DOMAIN records
  BY PlanFacts
<1>5. Selected(Owner, f, u) = 1..Len(u) /\ Len(u) \in Nat
  BY SelectedRanks, <1>0 DEF Selected, Positions
<1>6. \A c \in Consumers :
        /\ next'[c] = next[c] + Cardinality(Selected(c, f, u))
        /\ Cardinality(Selected(c, f, u)) \in Nat
        /\ next[c] \in Nat \ {0}
  BY SelectedRanks DEF Publish, Advance, Typing
<1>7. next'[Owner] = next[Owner] + Len(u)
  <2>1. Cardinality(1..Len(u)) = IF 1 > Len(u) THEN 0 ELSE Len(u) - 1 + 1
    BY <1>5, FS_Interval
  <2>2. Cardinality(1..Len(u)) = Len(u)
    BY <2>1, <1>5
  <2> QED BY <2>2, <1>0, <1>5, <1>6
<1>8. next' \in [Consumers -> Nat \ {0}]
  BY <1>6 DEF Publish, Advance
<1>9. \A c \in Consumers :
        queue'[c] = Kept(c, plan) \cup (IF c \in plan.takers THEN Deliveries(c, f, u) ELSE {})
  BY DEF Publish
<1>10. \A c \in Consumers : \A q \in queue'[c] :
         \/ /\ q \in queue[c] /\ q \notin plan.drop[c] /\ q[2] \notin plan.evicted
         \/ c \in plan.takers /\ q \in Deliveries(c, f, u)
  BY <1>9 DEF Kept
<1>11. \A c \in Consumers : \A q \in Deliveries(c, f, u) :
         /\ q \in Nat \X Nat
         /\ next[c] <= q[1] /\ q[1] < next'[c]
         /\ next[Owner] <= q[2] /\ q[2] < next'[Owner]
  BY NewDeliveries, <1>6, <1>7
<1>12. \A c \in Consumers : \A q \in queue[c] :
         /\ q \in Nat \X Nat /\ q[1] < next[c] /\ q[2] < next[Owner]
  BY DEF Typing, Spent
<1>13. queue' \in [Consumers -> SUBSET (Nat \X Nat)]
  <2>1. \A c \in Consumers : queue'[c] \in SUBSET (Nat \X Nat)
    BY <1>10, <1>11, <1>12
  <2> QED BY <2>1 DEF Publish
<1>14. DOMAIN records' = kept \cup new
  BY DEF Publish, Table
<1>15. new = next[Owner]..(next'[Owner] - 1)
  <2>1. next[Owner] \in Nat
    BY <1>0, <1>6
  <2>2. \A s \in next[Owner]..(next[Owner] + Len(u) - 1) :
          /\ s - next[Owner] + 1 \in 1..Len(u)
          /\ s = next[Owner] + (s - next[Owner] + 1) - 1
    BY <2>1, <1>5
  <2>3. \A k \in 1..Len(u) : next[Owner] + k - 1 \in next[Owner]..(next[Owner] + Len(u) - 1)
    BY <2>1, <1>5
  <2>4. new = {next[Owner] + k - 1 : k \in 1..Len(u)}
    BY DEF Source, Positions
  <2> HIDE DEF new
  <2>5. \A s \in next[Owner]..(next[Owner] + Len(u) - 1) : s \in new
    BY <2>2, <2>4
  <2>6. \A s \in new : s \in next[Owner]..(next[Owner] + Len(u) - 1)
    BY <2>3, <2>4
  <2>7. new = next[Owner]..(next[Owner] + Len(u) - 1)
    BY <2>5, <2>6
  <2>8. next'[Owner] - 1 = next[Owner] + Len(u) - 1
    BY <1>7, <2>1, <1>5
  <2> QED BY <2>7, <2>8
<1>16. kept \subseteq Nat /\ \A s \in kept : s < next[Owner]
  BY DEF Typing, Spent
<1>17. DOMAIN records' \subseteq Nat /\ \A s \in DOMAIN records' : s < next'[Owner]
  <2>1. next[Owner] \in Nat /\ next'[Owner] \in Nat /\ next[Owner] <= next'[Owner]
    BY <1>0, <1>5, <1>6, <1>7
  <2>2. \A s \in next[Owner]..(next'[Owner] - 1) : s \in Nat /\ s < next'[Owner]
    BY <2>1
  <2> HIDE DEF kept, new
  <2>3. \A s \in kept : s \in Nat /\ s < next'[Owner]
    BY <2>1, <1>16
  <2>4. \A s \in new : s \in Nat /\ s < next'[Owner]
    BY <2>2, <1>15
  <2> QED BY <2>3, <2>4, <1>14
<1>18. ASSUME NEW s \in kept
       PROVE  /\ records'[s] \in RecordType
              /\ records'[s].claims =
                   {c \in records[s].claims : s \notin Sources(plan.drop[c])}
  <2>1. records'[s] = [records[s] EXCEPT !.claims =
                         {c \in @ : s \notin Sources(plan.drop[c])}]
    BY DEF Publish, Table
  <2>2. records[s] \in RecordType
    BY DEF Typing
  <2> QED BY <2>1, <2>2 DEF RecordType
<1>19. ASSUME NEW k \in 1..Len(u)
       PROVE  /\ records'[Source(k)] \in RecordType
              /\ records'[Source(k)].claims = {c \in plan.takers : k \in Selected(c, f, u)}
  <2>1. Source(k) \in new /\ Source(k) \notin kept
    BY <1>0, <1>6, <1>15, <1>16, <1>5 DEF Positions, Source
  <2>2. Source(k) - next[Owner] + 1 = k
    BY <1>0, <1>5, <1>6 DEF Source
  <2>3. records'[Source(k)] = Stored(f, u, plan, k)
    BY <2>1, <2>2 DEF Publish, Table
  <2>4. Size[u[k].class] \in Nat
    <3>1. u \in Seq(Emissions) /\ Size \in [Classes -> Nat \ {0}]
      BY RecorderAssumption
    <3>2. u[k] \in Emissions
      BY <3>1, <1>5
    <3> QED BY <3>1, <3>2 DEF Emissions
  <2> QED BY <2>3, <2>4, <1>1 DEF Stored, RecordType
<1>20. \A s \in DOMAIN records' : records'[s] \in RecordType
  BY <1>14, <1>18, <1>19 DEF Positions
<1>21. SingleEntry'
  <2> SUFFICES ASSUME NEW c \in Consumers, NEW q \in queue'[c], NEW r \in queue'[c],
                      q[2] = r[2]
               PROVE  q = r
    BY DEF SingleEntry
  <2>1. CASE q \in queue[c] /\ r \in queue[c]
    BY <2>1 DEF SingleEntry
  <2>2. CASE q \in Deliveries(c, f, u) /\ r \in Deliveries(c, f, u)
    BY <2>2, NewDeliveries
  <2>3. CASE q \in queue[c] /\ r \in Deliveries(c, f, u)
    BY <2>3, <1>0, <1>6, <1>11, <1>12
  <2>4. CASE r \in queue[c] /\ q \in Deliveries(c, f, u)
    BY <2>4, <1>0, <1>6, <1>11, <1>12
  <2> QED BY <2>1, <2>2, <2>3, <2>4, <1>10
<1>22. Spent'
  <2>1. \A c \in Consumers : \A q \in queue'[c] : q[1] < next'[c] /\ q[2] < next'[Owner]
    BY <1>0, <1>5, <1>6, <1>7, <1>10, <1>11, <1>12
  <2> QED BY <2>1, <1>17 DEF Spent
<1>23. ASSUME NEW s \in kept, NEW c \in Consumers
       PROVE  c \in records'[s].claims <=> s \in Sources(queue'[c])
  <2>1. ASSUME c \in records'[s].claims PROVE s \in Sources(queue'[c])
    <3>1. c \in records[s].claims /\ s \notin Sources(plan.drop[c])
      BY <2>1, <1>18
    <3>2. PICK q \in queue[c] : q[2] = s
      BY <3>1 DEF ClaimsCoherent, Sources
    <3>3. q \in Kept(c, plan)
      BY <3>1, <3>2 DEF Kept, Sources
    <3> QED BY <3>2, <3>3, <1>9 DEF Sources
  <2>2. ASSUME s \in Sources(queue'[c]) PROVE c \in records'[s].claims
    <3>1. PICK q \in queue'[c] : q[2] = s
      BY <2>2 DEF Sources
    <3>2. q \in queue[c] /\ q \notin plan.drop[c]
      BY <3>1, <1>0, <1>6, <1>10, <1>11, <1>16
    <3>3. c \in records[s].claims
      BY <3>1, <3>2 DEF ClaimsCoherent, Sources
    <3>4. s \notin Sources(plan.drop[c])
      BY <3>1, <3>2, <1>2 DEF SingleEntry, Sources
    <3> QED BY <3>3, <3>4, <1>18
  <2> QED BY <2>1, <2>2
<1>24. ASSUME NEW k \in 1..Len(u), NEW c \in Consumers
       PROVE  c \in records'[Source(k)].claims <=> Source(k) \in Sources(queue'[c])
  <2>1. next[Owner] <= Source(k)
    BY <1>0, <1>6, <1>5 DEF Source
  <2>2. ASSUME c \in records'[Source(k)].claims PROVE Source(k) \in Sources(queue'[c])
    <3>1. c \in plan.takers /\ k \in Selected(c, f, u)
      BY <2>2, <1>19
    <3>2. <<Delivery(c, f, u, k), Source(k)>> \in queue'[c]
      BY <3>1, <1>9 DEF Deliveries
    <3> QED BY <3>2 DEF Sources
  <2>3. ASSUME Source(k) \in Sources(queue'[c]) PROVE c \in records'[Source(k)].claims
    <3>1. PICK q \in queue'[c] : q[2] = Source(k)
      BY <2>3 DEF Sources
    <3>2. c \in plan.takers /\ q \in Deliveries(c, f, u)
      BY <3>1, <2>1, <1>0, <1>6, <1>10, <1>12
    <3>3. PICK j \in Selected(c, f, u) : q = <<Delivery(c, f, u, j), Source(j)>>
      BY <3>2 DEF Deliveries
    <3>4. j \in 1..Len(u)
      BY <3>3, SelectedRanks
    <3>5. j = k
      BY <3>1, <3>3, <3>4, <1>0, <1>5, <1>6 DEF Source
    <3> QED BY <3>2, <3>3, <3>5, <1>19
  <2> QED BY <2>2, <2>3
<1>25. ClaimsCoherent'
  <2>1. \A s \in kept : records'[s].claims # {}
    BY <1>3, <1>18
  <2>2. \A k \in 1..Len(u) : Owner \in records'[Source(k)].claims
    BY <1>1, <1>5, <1>19
  <2>3. ASSUME NEW s \in DOMAIN records'
        PROVE  /\ records'[s].claims # {}
               /\ \A c \in Consumers : c \in records'[s].claims <=> s \in Sources(queue'[c])
    BY <1>14, <1>23, <1>24, <2>1, <2>2 DEF Positions
  <2>4. \A c \in Consumers : Sources(queue'[c]) \subseteq DOMAIN records'
    <3> SUFFICES ASSUME NEW c \in Consumers, NEW q \in queue'[c]
                 PROVE  q[2] \in kept \cup new
      BY <1>14 DEF Sources
    <3>1. CASE q \in queue[c] /\ q[2] \notin plan.evicted
      BY <3>1 DEF ClaimsCoherent, Sources
    <3>2. CASE q \in Deliveries(c, f, u)
      BY <3>2, <1>0, <1>5, <1>6, <1>7, <1>11, <1>15
    <3> QED BY <3>1, <3>2, <1>10
  <2> QED BY <2>3, <2>4 DEF ClaimsCoherent, Sources
<1> QED BY <1>8, <1>13, <1>17, <1>20, <1>21, <1>22, <1>25 DEF Typing

\* Releasing some of a consumer's entries discards exactly the records that
\* nobody else claims.
LEMMA ReleaseRetains ==
    ASSUME Retention, NEW c \in Consumers, NEW Q \in SUBSET queue[c], Release(c, Q)
    PROVE  /\ queue' \in [Consumers -> SUBSET (Nat \X Nat)]
           /\ DOMAIN records' \subseteq DOMAIN records
           /\ \A s \in DOMAIN records' :
                /\ records'[s] \in RecordType
                /\ records'[s].required = records[s].required
           /\ \A b \in Consumers : queue'[b] = IF b = c THEN queue[c] \ Q ELSE queue[b]
           /\ SingleEntry' /\ ClaimsCoherent'
<1> USE DEF Retention
<1> DEFINE gone == {s \in Sources(Q) : records[s].claims \subseteq {c}}
<1>1. queue' = [queue EXCEPT ![c] = @ \ Q]
  BY DEF Release
<1>2. \A b \in Consumers : queue'[b] = IF b = c THEN queue[c] \ Q ELSE queue[b]
  BY <1>1 DEF Typing
<1>3. queue' \in [Consumers -> SUBSET (Nat \X Nat)]
  BY <1>1 DEF Typing
<1>4. DOMAIN records' = DOMAIN records \ gone
  BY DEF Release
<1>5. ASSUME NEW s \in DOMAIN records \ gone
      PROVE  /\ records'[s] \in RecordType
             /\ records'[s].required = records[s].required
             /\ records'[s].claims =
                  IF s \in Sources(Q) THEN records[s].claims \ {c} ELSE records[s].claims
  <2>1. records'[s] = [records[s] EXCEPT !.claims =
                         IF s \in Sources(Q) THEN @ \ {c} ELSE @]
    BY DEF Release
  <2>2. records[s] \in RecordType
    BY DEF Typing
  <2> QED BY <2>1, <2>2 DEF RecordType
<1>6. SingleEntry'
  BY <1>2 DEF SingleEntry
<1>7. ASSUME NEW s \in DOMAIN records \ gone
      PROVE  /\ records'[s].claims # {}
             /\ \A b \in Consumers : b \in records'[s].claims <=> s \in Sources(queue'[b])
  <2>1. /\ records[s].claims # {}
        /\ \A b \in Consumers : b \in records[s].claims <=> s \in Sources(queue[b])
    BY DEF ClaimsCoherent
  <2>2. records'[s].claims # {}
    BY <2>1, <1>5
  <2>3. ASSUME NEW b \in Consumers, b # c
        PROVE  b \in records'[s].claims <=> s \in Sources(queue'[b])
    BY <2>1, <2>3, <1>2, <1>5
  <2>4. CASE s \in Sources(Q)
    <3>1. s \notin Sources(queue'[c])
      BY <2>4, <1>2 DEF SingleEntry, Sources
    <3>2. c \notin records'[s].claims
      BY <2>4, <1>5
    <3> QED BY <3>1, <3>2, <2>2, <2>3
  <2>5. CASE s \notin Sources(Q)
    <3>1. s \in Sources(queue'[c]) <=> s \in Sources(queue[c])
      BY <2>5, <1>2 DEF Sources
    <3> QED BY <3>1, <2>1, <2>2, <2>3, <2>5, <1>5
  <2> QED BY <2>4, <2>5
<1>8. ASSUME NEW b \in Consumers
      PROVE  Sources(queue'[b]) \subseteq DOMAIN records \ gone
  <2> SUFFICES ASSUME NEW q \in queue'[b] PROVE q[2] \in DOMAIN records \ gone
    BY DEF Sources
  <2>1. q \in queue[b] /\ (b = c => q \notin Q)
    BY <1>2
  <2>2. q[2] \in DOMAIN records /\ b \in records[q[2]].claims
    BY <2>1 DEF ClaimsCoherent, Sources
  <2>3. CASE b = c
    BY <2>1, <2>2, <2>3 DEF SingleEntry, Sources
  <2>4. CASE b # c
    BY <2>2, <2>4
  <2> QED BY <2>2, <2>3, <2>4
<1>9. ClaimsCoherent'
  BY <1>4, <1>7, <1>8 DEF ClaimsCoherent, Sources
<1> QED BY <1>2, <1>3, <1>4, <1>5, <1>6, <1>9

\* The counters, the queues and the table agree after every step.
LEMMA RetentionStep ==
    ASSUME Retention, [Next]_vars
    PROVE  Retention'
<1> USE DEF Retention
<1>1. ASSUME NEW f \in Flows, NEW u \in Updates, Record(f, u)
      PROVE  Retention'
  <2>1. CASE Lose(f, u, Plan(f, u))
    <3>1. \A c \in Consumers : /\ next'[c] = next[c] + Cardinality(Selected(c, f, u))
                               /\ Cardinality(Selected(c, f, u)) \in Nat
                               /\ next[c] \in Nat \ {0}
      BY <2>1, SelectedRanks DEF Lose, Advance, Typing
    <3>2. next' \in [Consumers -> Nat \ {0}]
      BY <2>1, <3>1 DEF Lose, Advance
    <3>3. Owner \in Consumers /\ queue' = queue /\ records' = records
      BY <2>1 DEF Lose, Consumers
    <3>4. Typing'
      BY <3>2, <3>3 DEF Typing
    <3>5. Spent'
      BY <3>1, <3>3 DEF Spent, Typing
    <3> QED BY <3>3, <3>4, <3>5 DEF SingleEntry, ClaimsCoherent
  <2>2. CASE Reject(f, u, Plan(f, u))
    BY <2>2 DEF Reject, vars, Typing, Spent, SingleEntry, ClaimsCoherent
  <2>3. CASE Publish(f, u, Plan(f, u))
    BY <2>3, PublishRetains
  <2> QED BY <1>1, <2>1, <2>2, <2>3 DEF Record
<1>2. ASSUME NEW c \in Consumers, NEW Q \in SUBSET queue[c], Release(c, Q),
             next' \in [Consumers -> Nat \ {0}], next'[Owner] = next[Owner],
             \A b \in Consumers : next'[b] = next[b] \/ queue'[b] = {}
      PROVE  Retention'
  <2> HIDE DEF Retention
  <2>1. /\ queue' \in [Consumers -> SUBSET (Nat \X Nat)]
        /\ DOMAIN records' \subseteq DOMAIN records
        /\ \A s \in DOMAIN records' : records'[s] \in RecordType
        /\ \A b \in Consumers : queue'[b] = IF b = c THEN queue[c] \ Q ELSE queue[b]
        /\ SingleEntry' /\ ClaimsCoherent'
    BY <1>2, ReleaseRetains
  <2>2. Typing'
    BY <1>2, <2>1 DEF Typing, Retention
  <2>3. Spent'
    BY <1>2, <2>1 DEF Spent, Retention
  <2> QED BY <2>1, <2>2, <2>3 DEF Retention
<1>3. ASSUME NEW c \in Consumers, NEW after \in 0..MaxIds, Acknowledge(c, after)
      PROVE  Retention'
  <2>1. Release(c, {q \in queue[c] : q[1] <= after}) /\ next' = next
    BY <1>3 DEF Acknowledge
  <2> QED BY <2>1, <1>2 DEF Typing
<1>4. ASSUME NEW i \in Slots, Close(i)
      PROVE  Retention'
  <2>1. Release(i, queue[i]) /\ next' = [next EXCEPT ![i] = 1]
    BY <1>4 DEF Close, Vacate
  <2>2. i \in Consumers /\ i # Owner
    BY RecorderAssumption DEF Consumers
  <2>3. next' \in [Consumers -> Nat \ {0}] /\ next'[Owner] = next[Owner]
        /\ \A b \in Consumers : b # i => next'[b] = next[b]
    BY <2>1, <2>2 DEF Typing
  <2>4. queue'[i] = {}
    BY <2>1, <2>2 DEF Release, Typing
  <2> QED BY <2>1, <2>2, <2>3, <2>4, <1>2
<1>5. CASE Restart
  <2>1. /\ next' = [c \in Consumers |-> 1] /\ queue' = [c \in Consumers |-> {}]
        /\ records' = [s \in {} |-> 0]
    BY <1>5 DEF Restart
  <2> QED BY <2>1 DEF Typing, Spent, SingleEntry, ClaimsCoherent, Sources
<1>6. CASE UNCHANGED <<next, queue, records>>
  BY <1>6 DEF Typing, Spent, SingleEntry, ClaimsCoherent
<1>7. ASSUME NEW c \in Readers, NEW first, NEW last, NEW arrives, Read(c, first, last, arrives)
      PROVE  Retention'
  BY <1>7, <1>6 DEF Read
<1>8. ASSUME NEW i \in Slots, NEW grant \in Grants, Subscribe(i, grant)
      PROVE  Retention'
  BY <1>8, <1>6 DEF Subscribe
<1>9. ASSUME NEW i \in Slots, CloseAdmission(i)
      PROVE  Retention'
  BY <1>9, <1>6 DEF CloseAdmission
<1>10. CASE SetAvailable
  BY <1>10, <1>6 DEF SetAvailable
<1>11. CASE UNCHANGED vars
  BY <1>11, <1>6 DEF vars
<1> HIDE DEF Retention
<1> QED BY <1>1, <1>3, <1>4, <1>5, <1>7, <1>8, <1>9, <1>10, <1>11 DEF Next

LEMMA RetentionInit == Init => Retention
<1> SUFFICES ASSUME Init PROVE Retention
  OBVIOUS
<1>1. /\ next = [c \in Consumers |-> 1] /\ queue = [c \in Consumers |-> {}]
      /\ records = [s \in {} |-> 0]
  BY DEF Init
<1> QED BY <1>1 DEF Retention, Typing, Spent, SingleEntry, ClaimsCoherent, Sources

LEMMA RetentionAlways == Spec => []Retention
BY RetentionInit, RetentionStep, PTL DEF Spec

\* Claims and queues agree in every reachable state, for any number of
\* subscribers, any budgets and any sizes (State::release, remove, discard
\* and the publication of record_batch_with).
THEOREM ClaimsAgree == Spec => []ClaimsCoherent
<1>1. Retention => ClaimsCoherent
  BY DEF Retention
<1> QED BY <1>1, RetentionAlways, PTL

-----------------------------------------------------------------------------
(* Required records *)

\* An owed delivery is queued, and its record is marked required: that mark
\* is what keeps evictions away from it.
Owed ==
    /\ owed \in [Consumers -> SUBSET Nat]
    /\ \A c \in Consumers : \A d \in owed[c] :
         \E q \in queue[c] : q[1] = d /\ records[q[2]].required

LEMMA PublishOwes ==
    ASSUME Retention, Owed, NEW f \in Flows, NEW u \in Updates,
           NEW plan, plan = Plan(f, u), Publish(f, u, plan)
    PROVE  Owed'
<1> USE DEF Retention
<1> DEFINE kept == DOMAIN records \ plan.evicted
<1>0. Owner \in Consumers
  BY DEF Consumers
<1>1. owed' = [c \in Consumers |->
         owed[c] \cup (IF f \in RequiredFlows THEN Ids(Deliveries(c, f, u)) ELSE {})]
  BY DEF Publish
<1>2. \A c \in Consumers : Ids(Deliveries(c, f, u)) \subseteq Nat
  BY NewDeliveries DEF Ids
<1>3. owed' \in [Consumers -> SUBSET Nat]
  BY <1>1, <1>2 DEF Owed
<1>4. ASSUME NEW c \in Consumers, NEW d \in owed[c]
      PROVE  \E q \in queue'[c] : q[1] = d /\ records'[q[2]].required
  <2>1. PICK q \in queue[c] : q[1] = d /\ records[q[2]].required
    BY DEF Owed
  <2>2. \A r \in plan.drop[c] : ~records[r[2]].required
    BY PlanFacts
  <2>3. q \notin plan.drop[c] /\ q[2] \notin Sources(plan.drop[c])
    BY <2>1, <2>2 DEF Sources
  <2>4. q[2] \in DOMAIN records /\ c \in records[q[2]].claims
    BY DEF ClaimsCoherent, Sources
  <2>5. ~plan.unavailable
    BY DEF Publish
  <2>6. q[2] \notin plan.evicted
    BY <2>1, <2>3, <2>4, <2>5, PlanFacts
  <2>7. q \in queue'[c]
    BY <2>3, <2>6 DEF Publish, Kept
  <2>8. records'[q[2]] = [records[q[2]] EXCEPT !.claims =
                            {b \in @ : q[2] \notin Sources(plan.drop[b])}]
    BY <2>4, <2>6 DEF Publish, Table
  <2>9. records[q[2]] \in RecordType
    BY <2>4 DEF Typing
  <2>10. records'[q[2]].required
    BY <2>1, <2>8, <2>9 DEF RecordType
  <2> QED BY <2>1, <2>7, <2>10
<1>5. ASSUME NEW c \in Consumers, f \in RequiredFlows, NEW d \in Ids(Deliveries(c, f, u))
      PROVE  \E q \in queue'[c] : q[1] = d /\ records'[q[2]].required
  <2>1. PICK q \in Deliveries(c, f, u) : q[1] = d
    BY DEF Ids
  <2>2. PICK k \in Selected(c, f, u) : q = <<Delivery(c, f, u, k), Source(k)>>
    BY DEF Deliveries
  <2>3. c = Owner \/ c \in Live
    BY <2>2 DEF Selected
  <2>4. ~plan.unavailable
    BY DEF Publish
  <2>5. c \in plan.takers
    BY <2>3, <2>4, <1>5, PlanFacts
  <2>6. q \in queue'[c]
    BY <2>5 DEF Publish
  <2>7. k \in 1..Len(u) /\ Len(u) \in Nat /\ next[Owner] \in Nat
    BY <2>2, <1>0, SelectedRanks DEF Typing
  <2>8. Source(k) \notin kept /\ Source(k) - next[Owner] + 1 = k
    <3>1. \A s \in kept : s \in Nat /\ s < next[Owner]
      BY DEF Typing, Spent
    <3>2. Source(k) = next[Owner] + k - 1
      BY DEF Source
    <3> HIDE DEF kept
    <3> QED BY <3>1, <3>2, <2>7
  <2>9. records'[Source(k)] = Stored(f, u, plan, k)
    BY <2>7, <2>8 DEF Publish, Table, Positions
  <2>10. records'[q[2]].required
    <3>1. q[2] = Source(k)
      BY <2>2
    <3>2. Stored(f, u, plan, k).required = (f \in RequiredFlows)
      BY DEF Stored
    <3> QED BY <3>1, <3>2, <2>9, <1>5
  <2> QED BY <2>1, <2>6, <2>10
<1> QED BY <1>1, <1>3, <1>4, <1>5 DEF Owed

LEMMA OwedStep ==
    ASSUME Retention, Owed, [Next]_vars
    PROVE  Owed'
<1>1. ASSUME UNCHANGED <<owed, queue, records>> PROVE Owed'
  BY <1>1 DEF Owed
<1>2. ASSUME NEW f \in Flows, NEW u \in Updates, Record(f, u)
      PROVE  Owed'
  <2>1. CASE Lose(f, u, Plan(f, u))
    BY <2>1, <1>1 DEF Lose
  <2>2. CASE Reject(f, u, Plan(f, u))
    BY <2>2, <1>1 DEF Reject, vars
  <2>3. CASE Publish(f, u, Plan(f, u))
    BY <2>3, PublishOwes
  <2> QED BY <1>2, <2>1, <2>2, <2>3 DEF Record
<1>3. ASSUME NEW c \in Consumers, NEW Q \in SUBSET queue[c], Release(c, Q),
             owed' \in [Consumers -> SUBSET Nat],
             \A b \in Consumers : owed'[b] \subseteq owed[b],
             \A d \in owed'[c] : \A q \in Q : q[1] # d
      PROVE  Owed'
  <2>1. /\ \A s \in DOMAIN records' : records'[s].required = records[s].required
        /\ \A b \in Consumers : queue'[b] = IF b = c THEN queue[c] \ Q ELSE queue[b]
        /\ ClaimsCoherent'
    BY <1>3, ReleaseRetains
  <2>2. \A b \in Consumers : \A q \in queue'[b] : q[2] \in DOMAIN records'
    BY <2>1 DEF ClaimsCoherent, Sources
  <2> SUFFICES ASSUME NEW b \in Consumers, NEW d \in owed'[b]
               PROVE  \E q \in queue'[b] : q[1] = d /\ records'[q[2]].required
    BY <1>3 DEF Owed
  <2>3. PICK q \in queue[b] : q[1] = d /\ records[q[2]].required
    BY <1>3 DEF Owed
  <2>4. q \in queue'[b]
    BY <1>3, <2>1, <2>3
  <2> QED BY <2>1, <2>2, <2>3, <2>4
<1>4. ASSUME NEW c \in Consumers, NEW after \in 0..MaxIds, Acknowledge(c, after)
      PROVE  Owed'
  <2>1. /\ Release(c, {q \in queue[c] : q[1] <= after})
        /\ owed' = [owed EXCEPT ![c] = {d \in @ : d > after}]
    BY <1>4 DEF Acknowledge
  <2>2. owed' \in [Consumers -> SUBSET Nat]
    BY <2>1 DEF Owed
  <2>3. \A b \in Consumers : owed'[b] \subseteq owed[b]
    BY <2>1 DEF Owed
  <2>4. after \in Int /\ \A d \in owed'[c] : d \in Nat /\ d > after
    BY <2>1, RecorderAssumption DEF Owed
  <2>5. \A d \in owed'[c] : \A q \in {q \in queue[c] : q[1] <= after} : q[1] # d
    BY <2>4
  <2> QED BY <2>1, <2>2, <2>3, <2>5, <1>3
<1>5. ASSUME NEW i \in Slots, Close(i)
      PROVE  Owed'
  <2>1. Release(i, queue[i]) /\ owed' = [owed EXCEPT ![i] = {}]
    BY <1>5 DEF Close, Vacate
  <2>2. i \in Consumers
    BY DEF Consumers
  <2> QED BY <2>1, <2>2, <1>3 DEF Owed
<1>6. CASE Restart
  BY <1>6 DEF Restart, Owed
<1>7. ASSUME NEW c \in Readers, NEW first, NEW last, NEW arrives, Read(c, first, last, arrives)
      PROVE  Owed'
  BY <1>7, <1>1 DEF Read
<1>8. ASSUME NEW i \in Slots, NEW grant \in Grants, Subscribe(i, grant)
      PROVE  Owed'
  BY <1>8, <1>1 DEF Subscribe
<1>9. ASSUME NEW i \in Slots, CloseAdmission(i)
      PROVE  Owed'
  BY <1>9, <1>1 DEF CloseAdmission
<1>10. CASE SetAvailable
  BY <1>10, <1>1 DEF SetAvailable
<1>11. CASE UNCHANGED vars
  BY <1>11, <1>1 DEF vars
<1> QED BY <1>2, <1>4, <1>5, <1>6, <1>7, <1>8, <1>9, <1>10, <1>11 DEF Next

\* An update recorded as required is still queued for every consumer it was
\* selected for until that consumer acknowledges or closes: neither eviction,
\* other consumers, nor a later required update takes it away.
THEOREM RequiredStays == Spec => []RequiredKept
<1>1. Init => Owed
  BY DEF Init, Owed
<1>2. Owed => RequiredKept
  BY DEF Owed, RequiredKept, Ids
<1> QED BY <1>1, <1>2, OwedStep, RetentionAlways, PTL DEF Spec

-----------------------------------------------------------------------------
(* Readers *)

ReaderTypes ==
    /\ cursor \in [Consumers -> Nat]
    /\ got \in [Consumers -> SUBSET (Nat \X Nat)]
    /\ gaps \in [Consumers -> SUBSET Nat]
    /\ epoch \in Nat /\ held \in Nat /\ held <= epoch

\* A cursor lies below the consumer's counter, so no identity issued later
\* falls into a gap already reported; a cursor of an earlier daemon has no
\* history in this one.
Told ==
    /\ ReaderTypes
    /\ held # epoch => got[Owner] = {} /\ gaps[Owner] = {}
    /\ \A c \in Consumers : Following(c) => cursor[c] < next[c]
    /\ NoSilentLoss

\* Whatever only removes queue entries, or adds ones above the counters, and
\* lets no counter fall leaves a reader's account as it was.
LEMMA AccountKept ==
    ASSUME Retention, Told,
           UNCHANGED <<cursor, got, gaps, epoch, held>>,
           \A c \in Consumers : next[c] \in Nat /\ next'[c] \in Nat /\ next[c] <= next'[c],
           \A c \in Consumers : \A q \in queue'[c] : q \in queue[c] \/ next[c] <= q[1],
           queue' \in [Consumers -> SUBSET (Nat \X Nat)]
    PROVE  Told'
<1>1. ReaderTypes'
  BY DEF Told, ReaderTypes
<1>2. \A c \in Consumers : Following(c)' <=> Following(c)
  BY DEF Following
<1>3. \A c \in Consumers : Following(c) => cursor'[c] < next'[c]
  BY DEF Told, ReaderTypes
<1>4. ASSUME NEW c \in Consumers, Following(c)
      PROVE  gaps[c] \cap Ids(queue'[c]) = {}
  <2> SUFFICES ASSUME NEW q \in queue'[c], q[1] \in gaps[c] PROVE FALSE
    BY DEF Ids
  <2>1. q[1] \in 1..cursor[c] /\ cursor[c] < next[c] /\ cursor[c] \in Nat
    BY <1>4 DEF Told, ReaderTypes, NoSilentLoss
  <2>2. q \notin queue[c]
    BY <1>4 DEF Told, NoSilentLoss, Ids
  <2>3. next[c] <= q[1] /\ next[c] \in Nat
    BY <2>2
  <2> QED BY <2>1, <2>3
<1>5. NoSilentLoss'
  BY <1>2, <1>4 DEF Told, NoSilentLoss
<1> QED BY <1>1, <1>2, <1>3, <1>5 DEF Told

\* A page and its gap extend the account by exactly the identities between
\* the two cursors.
LEMMA ReadAccounts ==
    ASSUME Retention, Told, NEW c \in Consumers,
           NEW first \in Ids(queue[c]) \cup {next[c]},
           NEW last \in (first - 1)..(next[c] - 1),
           Read(c, first, last, TRUE)
    PROVE  Told'
<1> DEFINE page == {q \in queue[c] : q[1] \in first..last}
           gap == (After(c) + 1)..(first - 1)
<1>0. Owner \in Consumers
  BY DEF Consumers
<1>1. next[c] \in Nat \ {0} /\ queue[c] \subseteq Nat \X Nat
  BY DEF Retention, Typing
<1>2. first \in Nat /\ last \in Int /\ first - 1 <= last /\ last <= next[c] - 1
      /\ first <= next[c]
  BY <1>1 DEF Ids, Retention, Spent
<1>3. After(c) \in Nat
  BY DEF After, Told, ReaderTypes
<1>4. After(c) < next[c]
  BY <1>1 DEF After, Told, Following
<1>5. IsFirst(c, first) /\ first..last \subseteq Ids(queue[c])
  BY DEF Read, IsPage
<1>6. After(c) < first
  BY <1>1, <1>3, <1>4, <1>5, <1>2 DEF IsFirst
<1>7. last \in Nat /\ After(c) <= last
  BY <1>2, <1>3, <1>6
<1>8. /\ cursor' = [cursor EXCEPT ![c] = last]
      /\ held' = IF c = Owner THEN epoch ELSE held
      /\ got' = [got EXCEPT ![c] = @ \cup page]
      /\ gaps' = [gaps EXCEPT ![c] = @ \cup gap]
      /\ UNCHANGED <<epoch, next, queue>>
  BY DEF Read
<1>9. page \subseteq Nat \X Nat /\ gap \subseteq Nat
  BY <1>1, <1>2, <1>3
<1>10. Ids(page) = first..last
  <2>1. \A d \in first..last : \E q \in queue[c] : q[1] = d
    BY <1>5 DEF Ids
  <2> QED BY <2>1 DEF Ids
<1> HIDE DEF page, gap
<1>11. ReaderTypes'
  <2>1. cursor' \in [Consumers -> Nat]
    BY <1>7, <1>8 DEF Told, ReaderTypes
  <2>2. got' \in [Consumers -> SUBSET (Nat \X Nat)]
    BY <1>8, <1>9 DEF Told, ReaderTypes
  <2>3. gaps' \in [Consumers -> SUBSET Nat]
    BY <1>8, <1>9 DEF Told, ReaderTypes
  <2>4. epoch' \in Nat /\ held' \in Nat /\ held' <= epoch'
    BY <1>8 DEF Told, ReaderTypes
  <2> QED BY <2>1, <2>2, <2>3, <2>4 DEF ReaderTypes
<1>12. /\ cursor'[c] = last /\ got'[c] = got[c] \cup page
       /\ gaps'[c] = gaps[c] \cup gap
  BY <1>8 DEF Told, ReaderTypes
<1>13. \A b \in Consumers : b # c =>
         /\ cursor'[b] = cursor[b] /\ got'[b] = got[b] /\ gaps'[b] = gaps[b]
         /\ (Following(b)' <=> Following(b))
  BY <1>8 DEF Told, ReaderTypes, Following
<1>14. held' # epoch' => got'[Owner] = {} /\ gaps'[Owner] = {}
  <2>1. CASE c = Owner
    BY <2>1, <1>8
  <2>2. CASE c # Owner
    BY <2>2, <1>0, <1>8, <1>13 DEF Told
  <2> QED BY <2>1, <2>2
<1>15. Following(c)'
       /\ Ids(got[c]) \cup gaps[c] = 1..After(c)
       /\ Ids(got[c]) \cap gaps[c] = {}
       /\ gaps[c] \cap Ids(queue[c]) = {}
  <2>1. CASE c = Owner /\ held # epoch
    <3>1. got[c] = {} /\ gaps[c] = {} /\ After(c) = 0
      BY <2>1 DEF Told, After
    <3>2. Ids(got[c]) = {} /\ 1..After(c) = {}
      BY <3>1 DEF Ids
    <3>3. Following(c)'
      BY <2>1, <1>8 DEF Following
    <3> QED BY <3>1, <3>2, <3>3
  <2>2. CASE ~(c = Owner /\ held # epoch)
    <3>1. Following(c) /\ After(c) = cursor[c]
      BY <2>2 DEF Following, After
    <3>2. Following(c)'
      BY <3>1, <1>8 DEF Following
    <3> QED BY <3>1, <3>2 DEF Told, NoSilentLoss
  <2> QED BY <2>1, <2>2
<1>16. Ids(got'[c]) = Ids(got[c]) \cup first..last
  BY <1>10, <1>12 DEF Ids
<1>17. /\ 1..last = 1..After(c) \cup gap \cup first..last
       /\ gap \cap first..last = {}
       /\ 1..After(c) \cap first..last = {}
       /\ 1..After(c) \cap gap = {}
  BY <1>2, <1>3, <1>6, <1>7 DEF gap
<1>18. gap \cap Ids(queue[c]) = {}
  <2> SUFFICES ASSUME NEW d \in gap, d \in Ids(queue[c]) PROVE FALSE
    OBVIOUS
  <2>1. d \in Nat /\ d > After(c) /\ d < first
    BY <1>2, <1>3 DEF gap
  <2>2. d \in {e \in Ids(queue[c]) : e > After(c)}
    BY <2>1
  <2>3. first <= d
    BY <2>2, <1>5 DEF IsFirst
  <2> QED BY <2>1, <2>3, <1>2
<1>19. /\ Ids(got'[c]) \cup gaps'[c] = 1..cursor'[c]
       /\ Ids(got'[c]) \cap gaps'[c] = {}
       /\ gaps'[c] \cap Ids(queue'[c]) = {}
  <2>1. Ids(got'[c]) \cup gaps'[c] = 1..cursor'[c]
    BY <1>12, <1>15, <1>16, <1>17
  <2>2. Ids(got'[c]) \cap gaps'[c] = {}
    BY <1>12, <1>15, <1>16, <1>17
  <2>3. gaps'[c] \cap Ids(queue'[c]) = {}
    BY <1>8, <1>12, <1>15, <1>18
  <2> QED BY <2>1, <2>2, <2>3
<1>20. NoSilentLoss'
  BY <1>8, <1>13, <1>19 DEF Told, NoSilentLoss, Ids
<1>21. \A b \in Consumers : Following(b)' => cursor'[b] < next'[b]
  BY <1>1, <1>2, <1>8, <1>12, <1>13 DEF Told
<1> QED BY <1>11, <1>14, <1>20, <1>21 DEF Told

LEMMA ToldStep ==
    ASSUME Retention, Retention', Told, [Next]_vars
    PROVE  Told'
<1>0. /\ next \in [Consumers -> Nat \ {0}] /\ next' \in [Consumers -> Nat \ {0}]
      /\ queue' \in [Consumers -> SUBSET (Nat \X Nat)]
  BY DEF Retention, Typing
<1>1. ASSUME UNCHANGED <<readerVars, epoch, next, queue>> PROVE Told'
  BY <1>0, <1>1, AccountKept DEF readerVars
<1>2. ASSUME NEW f \in Flows, NEW u \in Updates, Record(f, u)
      PROVE  Told'
  <2>1. CASE Reject(f, u, Plan(f, u))
    BY <2>1, <1>1 DEF Reject, vars
  <2>2. ASSUME NEW plan, plan = Plan(f, u), Lose(f, u, plan) \/ Publish(f, u, plan)
        PROVE  Told'
    <3>1. /\ UNCHANGED <<cursor, got, gaps, epoch, held>>
          /\ \A c \in Consumers : next'[c] = next[c] + Cardinality(Selected(c, f, u))
      BY <2>2 DEF Lose, Publish, readerVars, Advance
    <3>2. \A c \in Consumers : Cardinality(Selected(c, f, u)) \in Nat
      BY SelectedRanks
    <3>3. \A c \in Consumers : next[c] \in Nat /\ next'[c] \in Nat /\ next[c] <= next'[c]
      BY <3>1, <3>2, <1>0
    <3>4. \A c \in Consumers : \A q \in queue'[c] : q \in queue[c] \/ q \in Deliveries(c, f, u)
      <4>1. CASE Lose(f, u, plan)
        BY <4>1 DEF Lose
      <4>2. CASE Publish(f, u, plan)
        BY <4>2 DEF Publish, Kept
      <4> QED BY <2>2, <4>1, <4>2
    <3>5. \A c \in Consumers : \A q \in Deliveries(c, f, u) : next[c] <= q[1]
      BY NewDeliveries DEF Retention
    <3>6. \A c \in Consumers : \A q \in queue'[c] : q \in queue[c] \/ next[c] <= q[1]
      BY <3>4, <3>5
    <3> QED BY <3>1, <3>3, <3>6, <1>0, AccountKept
  <2> QED BY <1>2, <2>1, <2>2 DEF Record
<1>3. ASSUME NEW c \in Readers,
             NEW first \in Ids(queue[c]) \cup {next[c]},
             NEW last \in (first - 1)..(next[c] - 1),
             NEW arrives \in BOOLEAN, Read(c, first, last, arrives)
      PROVE  Told'
  <2>1. c \in Consumers
    BY RecorderAssumption
  <2>2. CASE arrives = TRUE
    BY <1>3, <2>1, <2>2, ReadAccounts
  <2>3. CASE arrives = FALSE
    BY <1>3, <2>3, <1>1 DEF Read
  <2> QED BY <2>2, <2>3
<1>4. ASSUME NEW c \in Consumers, NEW after \in 0..MaxIds, Acknowledge(c, after)
      PROVE  Told'
  <2>1. /\ queue' = [queue EXCEPT ![c] = @ \ {q \in queue[c] : q[1] <= after}]
        /\ next' = next /\ UNCHANGED <<cursor, got, gaps, epoch, held>>
    BY <1>4 DEF Acknowledge, Release, readerVars
  <2>2. \A b \in Consumers : queue'[b] \subseteq queue[b]
    BY <2>1 DEF Retention, Typing
  <2> QED BY <2>1, <2>2, <1>0, AccountKept
<1>5. ASSUME NEW i \in Slots, Close(i)
      PROVE  Told'
  <2>0. i \in Consumers /\ i # Owner /\ Owner \in Consumers
    BY RecorderAssumption DEF Consumers
  <2>1. /\ queue' = [queue EXCEPT ![i] = @ \ queue[i]]
        /\ next' = [next EXCEPT ![i] = 1]
        /\ cursor' = [cursor EXCEPT ![i] = 0]
        /\ got' = [got EXCEPT ![i] = {}]
        /\ gaps' = [gaps EXCEPT ![i] = {}]
        /\ epoch' = epoch /\ held' = held
    BY <1>5 DEF Close, Vacate, Release
  <2>2. /\ cursor'[i] = 0 /\ got'[i] = {} /\ gaps'[i] = {} /\ next'[i] = 1
        /\ Ids(got'[i]) = {}
    BY <2>0, <2>1, <1>0 DEF Told, ReaderTypes, Ids
  <2>3. \A b \in Consumers : b # i =>
          /\ cursor'[b] = cursor[b] /\ got'[b] = got[b] /\ gaps'[b] = gaps[b]
          /\ next'[b] = next[b] /\ queue'[b] = queue[b]
    BY <2>0, <2>1, <1>0 DEF Told, ReaderTypes, Retention, Typing
  <2>4. ReaderTypes'
    BY <2>1 DEF Told, ReaderTypes
  <2>5. \A b \in Consumers : Following(b)' <=> Following(b)
    BY <2>1 DEF Following
  <2>6. held' # epoch' => got'[Owner] = {} /\ gaps'[Owner] = {}
    BY <2>0, <2>1, <2>3 DEF Told
  <2>7. \A b \in Consumers : Following(b)' => cursor'[b] < next'[b]
    BY <2>2, <2>3, <2>5 DEF Told
  <2>8. NoSilentLoss'
    BY <2>2, <2>3, <2>5 DEF Told, NoSilentLoss, Ids
  <2> QED BY <2>4, <2>6, <2>7, <2>8 DEF Told
<1>6. CASE Restart
  <2>1. /\ next' = [c \in Consumers |-> 1]
        /\ got' = [c \in Consumers |-> {}] /\ gaps' = [c \in Consumers |-> {}]
        /\ cursor' = [c \in Consumers |-> IF c = Owner THEN cursor[c] ELSE 0]
        /\ epoch' = epoch + 1 /\ held' = held
    BY <1>6 DEF Restart
  <2>2. epoch \in Nat /\ held \in Nat /\ held <= epoch /\ cursor \in [Consumers -> Nat]
    BY DEF Told, ReaderTypes
  <2>3. held' # epoch'
    BY <2>1, <2>2
  <2>4. ReaderTypes'
    BY <2>1, <2>2 DEF ReaderTypes
  <2>5. \A c \in Consumers : Following(c)' => c # Owner
    BY <2>3 DEF Following
  <2>6. NoSilentLoss'
    BY <2>1, <2>5 DEF NoSilentLoss, Ids
  <2>7. \A c \in Consumers : Following(c)' => cursor'[c] < next'[c]
    BY <2>1, <2>5
  <2>8. got'[Owner] = {} /\ gaps'[Owner] = {}
    BY <2>1 DEF Consumers
  <2> QED BY <2>4, <2>6, <2>7, <2>8 DEF Told
<1>7. ASSUME NEW i \in Slots, NEW grant \in Grants, Subscribe(i, grant)
      PROVE  Told'
  BY <1>7, <1>1 DEF Subscribe
<1>8. ASSUME NEW i \in Slots, CloseAdmission(i)
      PROVE  Told'
  BY <1>8, <1>1 DEF CloseAdmission
<1>9. CASE SetAvailable
  BY <1>9, <1>1 DEF SetAvailable
<1>10. CASE UNCHANGED vars
  BY <1>10, <1>1 DEF vars
<1> QED BY <1>2, <1>3, <1>4, <1>5, <1>6, <1>7, <1>8, <1>9, <1>10 DEF Next

\* A consumer that follows its cursor has received, or been told it lost,
\* every identity up to it, each once, across evictions, lost replies,
\* acknowledgements and restarts (Recorder::read_bounded, Subscription::read).
THEOREM LossIsReported == Spec => []NoSilentLoss
<1>1. Init => Told
  BY DEF Init, Told, ReaderTypes, NoSilentLoss, Ids, Following, Consumers
<1>2. Told => NoSilentLoss
  BY DEF Told
<1> QED BY <1>1, <1>2, ToldStep, RetentionAlways, PTL DEF Spec

-----------------------------------------------------------------------------
(* Identities *)

EventType == [flow : Flows, stream : Streams, class : Classes, seq : Nat]

SlotTypes ==
    /\ sub \in [Slots -> {"free", "open", "closing"}]
    /\ scope \in [Slots -> Scopes]
    /\ since \in [Slots -> Nat \ {0}]
    /\ got \in [Consumers -> SUBSET (Nat \X Nat)]

\* Where the events of stream x of flow f stand in a log.
Places(l, f, x, top) == {t \in 1..top : l[t].flow = f /\ l[t].stream = x}

\* A flow's counter is the number of its events, and an event carries the
\* number of those before it.
Sequenced ==
    /\ log \in Seq(EventType)
    /\ sequences \in [Flows -> [Streams -> Nat]]
    /\ \A f \in Flows, x \in Streams :
         sequences[f][x] = Cardinality(Places(log, f, x, Len(log)))
    /\ \A t \in 1..Len(log) :
         log[t].seq = Cardinality(Places(log, log[t].flow, log[t].stream, t - 1))

\* The owner sees every event under its source id.
OwnerNumbered ==
    /\ next[Owner] = Len(log) + 1
    /\ \A q \in queue[Owner] \cup got[Owner] : q[1] = q[2]

\* Does scope sc permit the event at place t of a log, and where in the log
\* do the events stand that it permits?
Allowed(l, sc, t) ==
    /\ SessionOf[l[t].flow] \in sc.sessions
    /\ l[t].stream \in sc.streams /\ l[t].class \in sc.classes

Picked(l, sc, from, to) == {t \in from..to : Allowed(l, sc, t)}

\* A free slot has used no identity; an enrolled one those of the events its
\* scope permits, counted from its enrolment.
Ranked(i) ==
    /\ since[i] <= Len(log) + 1
    /\ next[i] = Cardinality(Picked(log, scope[i], since[i], Len(log))) + 1
    /\ \A q \in queue[i] \cup got[i] :
         /\ q[2] \in 1..Len(log)
         /\ q[1] = Cardinality(Picked(log, scope[i], since[i], q[2]))
         /\ Allowed(log, scope[i], q[2])

SlotsNumbered ==
    \A i \in Slots :
        IF sub[i] = "free" THEN next[i] = 1 /\ queue[i] = {} /\ got[i] = {}
                           ELSE Ranked(i)

Numbered == SlotTypes /\ Sequenced /\ OwnerNumbered /\ SlotsNumbered

-----------------------------------------------------------------------------
(* Counting over an extended log *)

Within(S, n) == S \in SUBSET (1..n)
Behind(L, S) == {L + j : j \in S}

\* Subsets of an interval are finite, and as many as when shifted.
LEMMA Shifted ==
    ASSUME NEW L \in Nat, NEW n \in Nat, NEW S, Within(S, n)
    PROVE  /\ IsFiniteSet(S) /\ Cardinality(S) \in Nat
           /\ IsFiniteSet(Behind(L, S))
           /\ Cardinality(Behind(L, S)) = Cardinality(S)
<1> DEFINE T == {L + j : j \in S}
           g == [j \in S |-> L + j]
<1>1. IsFiniteSet(1..n)
  BY FS_Interval
<1>2. IsFiniteSet(S)
  BY <1>1, FS_Subset DEF Within
<1>3. Cardinality(S) \in Nat
  BY <1>2, FS_CardinalityType
<1>4. g \in [S -> T]
  OBVIOUS
<1>5. ASSUME NEW a \in S, NEW b \in S, g[a] = g[b]
      PROVE  a = b
  <2>1. a \in Int /\ b \in Int
    BY DEF Within
  <2>2. L + a = L + b
    BY <1>5
  <2> QED BY <2>1, <2>2
<1>6. \A t \in T : \E j \in S : g[j] = t
  OBVIOUS
<1> HIDE DEF T, g
<1>7. g \in Bijection(S, T)
  BY <1>4, <1>5, <1>6 DEF Bijection, Injection, Surjection, IsInjective
<1>8. ExistsBijection(S, T)
  BY <1>7 DEF ExistsBijection
<1>9. IsFiniteSet(T) /\ Cardinality(T) = Cardinality(S)
  BY <1>2, <1>8, FS_Bijection
<1> QED BY <1>2, <1>3, <1>9 DEF T, Behind

\* Places behind the old end add their number.
LEMMA CountExtended ==
    ASSUME NEW L \in Nat, NEW n \in Nat,
           NEW A, NEW S, Within(A, L), Within(S, n)
    PROVE  /\ Cardinality(A) \in Nat /\ Cardinality(S) \in Nat
           /\ Cardinality(A \cup Behind(L, S)) = Cardinality(A) + Cardinality(S)
<1> DEFINE T == Behind(L, S)
<1>1. /\ IsFiniteSet(S) /\ Cardinality(S) \in Nat
      /\ IsFiniteSet(T) /\ Cardinality(T) = Cardinality(S)
  BY Shifted
<1>2. IsFiniteSet(A) /\ Cardinality(A) \in Nat
  BY Shifted
<1>3. A \cap T = {}
  <2>1. \A a \in A : a \in Int /\ a <= L
    BY DEF Within
  <2>2. \A t \in T : t \in Int /\ t > L
    BY DEF Behind, Within
  <2> HIDE DEF T
  <2> QED BY <2>1, <2>2
<1> HIDE DEF T
<1>4. Cardinality(A \cup T) = Cardinality(A) + Cardinality(T) - Cardinality(A \cap T)
  BY <1>1, <1>2, FS_Union
<1>5. Cardinality(A \cap T) = 0
  BY <1>3, FS_EmptySet
<1>6. Cardinality(A \cup T) = Cardinality(A) + Cardinality(S)
  BY <1>1, <1>2, <1>4, <1>5
<1> QED BY <1>1, <1>2, <1>6 DEF T

\* The log after an update: the old events where they were, then the update's.
LEMMA LogExtended ==
    ASSUME Sequenced, NEW f \in Flows, NEW u \in Updates, Advance(f, u)
    PROVE  /\ Len(log) \in Nat /\ Len(u) \in Nat
           /\ log' \in Seq(EventType) /\ Len(log') = Len(log) + Len(u)
           /\ \A t \in 1..Len(log) : log'[t] = log[t]
           /\ \A k \in 1..Len(u) : log'[Len(log) + k] = Event(f, u, k)
<1> DEFINE new == [k \in Positions(u) |-> Event(f, u, k)]
<1>1. u \in Seq(Emissions) /\ Len(u) \in Nat
  BY RecorderAssumption
<1>2. ASSUME NEW k \in 1..Len(u)
      PROVE  Event(f, u, k) \in EventType
  <2>1. u[k] \in Emissions
    BY <1>1
  <2>2. u[k].stream \in Streams /\ u[k].class \in Classes
    BY <2>1 DEF Emissions
  <2>3. sequences[f][u[k].stream] \in Nat
    BY <2>2 DEF Sequenced
  <2>4. Cardinality({j \in 1..(k - 1) : u[j].stream = u[k].stream}) \in Nat
    <3> DEFINE n == k - 1
               E == {j \in 1..n : u[j].stream = u[k].stream}
    <3>1. n \in Nat /\ 0 \in Nat
      BY <1>1
    <3>2. Within(E, n)
      BY DEF Within
    <3>3. SUFFICES Cardinality(E) \in Nat
      OBVIOUS
    <3> HIDE DEF n, E
    <3> QED BY <3>1, <3>2, Shifted
  <2> QED BY <2>2, <2>3, <2>4 DEF Event, EventType
<1>3. new \in Seq(EventType) /\ Len(new) = Len(u)
  BY <1>1, <1>2 DEF Positions
<1>4. \A k \in 1..Len(u) : new[k] = Event(f, u, k)
  BY DEF Positions
<1>5. log' = log \o new
  BY DEF Advance
<1>6. log \in Seq(EventType) /\ Len(log) \in Nat
  BY DEF Sequenced
<1> HIDE DEF new
<1>7. log' \in Seq(EventType) /\ Len(log') = Len(log) + Len(u)
  <2>1. /\ log \o new \in Seq(EventType)
        /\ Len(log \o new) = Len(log) + Len(new)
    BY <1>3, <1>6, ConcatProperties
  <2> QED BY <2>1, <1>3, <1>5
<1>8. \A t \in 1..Len(log) : log'[t] = log[t]
  BY <1>1, <1>3, <1>5, <1>6
<1>9. \A k \in 1..Len(u) : log'[Len(log) + k] = new[k]
  BY <1>1, <1>3, <1>5, <1>6
<1> QED BY <1>1, <1>4, <1>6, <1>7, <1>8, <1>9

\* The identities of events and flows stay dense when an update is numbered,
\* whether it is then stored or lost (Flow::record_batch_with).
LEMMA AdvanceSequences ==
    ASSUME Sequenced, NEW f \in Flows, NEW u \in Updates, Advance(f, u)
    PROVE  Sequenced'
<1> DEFINE L == Len(log)
           Here(g, x, k) == {j \in 1..k : g = f /\ u[j].stream = x}
<1>1. /\ L \in Nat /\ Len(u) \in Nat
      /\ log' \in Seq(EventType) /\ Len(log') = L + Len(u)
      /\ \A t \in 1..L : log'[t] = log[t]
      /\ \A k \in 1..Len(u) : log'[L + k] = Event(f, u, k)
  BY LogExtended
<1>2. \A k \in 1..Len(u) :
        /\ log'[L + k].flow = f /\ log'[L + k].stream = u[k].stream
        /\ log'[L + k].seq = sequences[f][u[k].stream]
             + Cardinality({j \in 1..(k - 1) : u[j].stream = u[k].stream})
  <2> SUFFICES ASSUME NEW k \in 1..Len(u)
               PROVE  /\ log'[L + k].flow = f /\ log'[L + k].stream = u[k].stream
                      /\ log'[L + k].seq = sequences[f][u[k].stream]
                           + Cardinality({j \in 1..(k - 1) : u[j].stream = u[k].stream})
    OBVIOUS
  <2>1. /\ Event(f, u, k).flow = f /\ Event(f, u, k).stream = u[k].stream
        /\ Event(f, u, k).seq = sequences[f][u[k].stream]
             + Cardinality({j \in 1..(k - 1) : u[j].stream = u[k].stream})
    BY DEF Event
  <2>2. log'[L + k] = Event(f, u, k)
    BY <1>1
  <2> QED BY <2>1, <2>2, Zenon
<1>3. \A k \in 1..Len(u) : u[k].stream \in Streams
  <2>1. \A k \in 1..Len(u) : u[k] \in Emissions
    <3>1. u \in Seq(Emissions)
      BY RecorderAssumption
    <3> QED BY <3>1
  <2> QED BY <2>1 DEF Emissions
<1> HIDE DEF L
<1>4. ASSUME NEW g, NEW x, NEW t \in 1..L
      PROVE  Places(log', g, x, t - 1) = Places(log, g, x, t - 1)
  <2>1. \A r \in 1..(t - 1) : log'[r] = log[r]
    BY <1>1
  <2> QED BY <2>1 DEF Places
<1>5. ASSUME NEW g, NEW x, NEW k \in 0..Len(u)
      PROVE  /\ Cardinality(Places(log, g, x, L)) \in Nat
             /\ Cardinality(Places(log', g, x, L + k))
                  = Cardinality(Places(log, g, x, L)) + Cardinality(Here(g, x, k))
             /\ Cardinality(Here(g, x, k)) \in Nat
  <2>1. Places(log, g, x, L) \in SUBSET (1..L) /\ Here(g, x, k) \in SUBSET (1..k) /\ k \in Nat
    BY <1>1 DEF Places
  <2>2. Places(log', g, x, L + k) = {t \in 1..(L + k) : log'[t].flow = g /\ log'[t].stream = x}
    BY DEF Places
  <2>3. ASSUME NEW t \in Places(log', g, x, L + k)
        PROVE  t \in Places(log, g, x, L) \cup {L + j : j \in Here(g, x, k)}
    <3>1. t \in 1..(L + k) /\ log'[t].flow = g /\ log'[t].stream = x
      BY <2>2, <2>3
    <3>2. CASE t <= L
      BY <3>1, <3>2, <1>1 DEF Places
    <3>3. CASE t > L
      <4>1. t - L \in 1..k /\ L + (t - L) = t /\ t - L \in 1..Len(u)
        BY <3>1, <3>3, <1>1
      <4>2. g = f /\ u[t - L].stream = x
        BY <3>1, <4>1, <1>2
      <4> QED BY <4>1, <4>2
    <3> QED BY <3>1, <3>2, <3>3, <1>1
  <2>4. ASSUME NEW t \in Places(log, g, x, L) PROVE t \in Places(log', g, x, L + k)
    <3>1. t \in 1..L /\ log[t].flow = g /\ log[t].stream = x
      BY <2>4 DEF Places
    <3>2. t \in 1..(L + k)
      BY <3>1, <1>1
    <3> QED BY <3>1, <3>2, <2>2, <1>1
  <2>5. ASSUME NEW j \in Here(g, x, k) PROVE L + j \in Places(log', g, x, L + k)
    <3>1. j \in 1..k /\ g = f /\ u[j].stream = x /\ j \in 1..Len(u)
      BY <1>1
    <3>2. L + j \in 1..(L + k)
      BY <3>1, <1>1
    <3> QED BY <3>1, <3>2, <2>2, <1>2
  <2> HIDE DEF Here
  <2>6. Places(log', g, x, L + k) = Places(log, g, x, L) \cup {L + j : j \in Here(g, x, k)}
    BY <2>3, <2>4, <2>5
  <2>7. Places(log, g, x, L) \cup {L + j : j \in Here(g, x, k)} = Places(log', g, x, L + k)
    BY <2>6
  <2> DEFINE A == Places(log, g, x, L)
             S == Here(g, x, k)
             All == Places(log', g, x, L + k)
  <2>8. Within(A, L) /\ Within(S, k) /\ k \in Nat
        /\ All = A \cup Behind(L, S)
    BY <2>1, <2>7 DEF Behind, Within
  <2> HIDE DEF A, S, All
  <2>9. /\ Cardinality(A) \in Nat /\ Cardinality(S) \in Nat
        /\ Cardinality(A \cup Behind(L, S)) = Cardinality(A) + Cardinality(S)
    <3>1. L \in Nat
      BY <1>1
    <3> QED BY <3>1, <2>8, CountExtended
  <2> QED BY <2>8, <2>9 DEF A, S, All
<1>6. sequences' \in [Flows -> [Streams -> Nat]]
      /\ \A g \in Flows, x \in Streams :
           sequences'[g][x] = sequences[g][x] + Cardinality(Here(g, x, Len(u)))
  <2>1. sequences \in [Flows -> [Streams -> Nat]]
    BY DEF Sequenced
  <2>2. \A x \in Streams : {k \in Positions(u) : u[k].stream = x} = Here(f, x, Len(u))
    BY DEF Positions
  <2>3. sequences' = [sequences EXCEPT ![f] =
          [x \in Streams |-> @[x] + Cardinality(Here(f, x, Len(u)))]]
    BY <2>2 DEF Advance
  <2>4. Len(u) \in 0..Len(u)
    BY <1>1
  <2>5. \A g, x : g # f => Cardinality(Here(g, x, Len(u))) = 0
    BY FS_EmptySet
  <2> HIDE DEF Here
  <2>6. \A x \in Streams : Cardinality(Here(f, x, Len(u))) \in Nat
    <3> SUFFICES ASSUME NEW x \in Streams PROVE Cardinality(Here(f, x, Len(u))) \in Nat
      OBVIOUS
    <3> QED BY <1>5, <2>4
  <2>7. sequences'[f] = [x \in Streams |->
                           sequences[f][x] + Cardinality(Here(f, x, Len(u)))]
    BY <2>1, <2>3
  <2>8. \A g \in Flows : g # f => sequences'[g] = sequences[g]
    BY <2>1, <2>3
  <2>9. \A g \in Flows : sequences'[g] \in [Streams -> Nat]
    BY <2>1, <2>6, <2>7, <2>8
  <2>10. sequences' \in [Flows -> [Streams -> Nat]]
    BY <2>1, <2>3, <2>9
  <2>11. \A g \in Flows, x \in Streams :
           sequences'[g][x] = sequences[g][x] + Cardinality(Here(g, x, Len(u)))
    BY <2>1, <2>5, <2>7, <2>8
  <2> QED BY <2>10, <2>11
<1>7. ASSUME NEW g \in Flows, NEW x \in Streams
      PROVE  sequences'[g][x] = Cardinality(Places(log', g, x, Len(log')))
  <2>1. Len(u) \in 0..Len(u)
    BY <1>1
  <2>2. sequences[g][x] = Cardinality(Places(log, g, x, L))
    BY DEF Sequenced, L
  <2>3. Cardinality(Places(log', g, x, L + Len(u)))
          = Cardinality(Places(log, g, x, L)) + Cardinality(Here(g, x, Len(u)))
    BY <1>5, <2>1
  <2>4. Places(log', g, x, Len(log')) = Places(log', g, x, L + Len(u))
    BY <1>1 DEF Places
  <2> QED BY <2>2, <2>3, <2>4, <1>6
<1>8. ASSUME NEW t \in 1..Len(log')
      PROVE  log'[t].seq = Cardinality(Places(log', log'[t].flow, log'[t].stream, t - 1))
  <2>1. CASE t \in 1..L
    <3>1. log'[t] = log[t]
      BY <2>1, <1>1
    <3>2. log[t].seq = Cardinality(Places(log, log[t].flow, log[t].stream, t - 1))
      BY <2>1 DEF Sequenced, L
    <3> QED BY <2>1, <3>1, <3>2, <1>4
  <2>2. CASE t \notin 1..L
    <3>1. PICK k \in 1..Len(u) : L + k = t /\ k - 1 \in 0..Len(u) /\ L + (k - 1) = t - 1
      <4>1. t - L \in 1..Len(u) /\ L + (t - L) = t /\ t - L - 1 \in 0..Len(u)
            /\ L + (t - L - 1) = t - 1
        <5>1. t \in Nat /\ t > L /\ t <= L + Len(u)
          BY <2>2, <1>1
        <5> QED BY <5>1, <1>1
      <4> QED BY <4>1
    <3> DEFINE x == u[k].stream
    <3>2. x \in Streams
      BY <1>3
    <3>3. {j \in 1..(k - 1) : u[j].stream = u[k].stream} = Here(f, x, k - 1)
      OBVIOUS
    <3>4. /\ log'[t].flow = f /\ log'[t].stream = x
          /\ log'[t].seq = sequences[f][x] + Cardinality(Here(f, x, k - 1))
      BY <3>1, <3>3, <1>2
    <3>5. sequences[f][x] = Cardinality(Places(log, f, x, L))
      BY <3>2 DEF Sequenced, L
    <3> HIDE DEF x, Here
    <3>6. Cardinality(Places(log', f, x, L + (k - 1)))
            = Cardinality(Places(log, f, x, L)) + Cardinality(Here(f, x, k - 1))
      BY <1>5, <3>1
    <3> QED BY <3>1, <3>4, <3>5, <3>6
  <2> QED BY <2>1, <2>2
<1> QED BY <1>1, <1>6, <1>7, <1>8 DEF Sequenced

\* The positions of an update that a scope permits.
Wanted(sc, f, u) ==
    {j \in 1..Len(u) : /\ SessionOf[f] \in sc.sessions
                       /\ u[j].stream \in sc.streams /\ u[j].class \in sc.classes}

Upto(S, k) == {j \in S : j <= k}

\* What a scope permits of the log after an update: what it permitted before,
\* and the update's events it permits.
LEMMA PickedExtended ==
    ASSUME Sequenced, NEW f \in Flows, NEW u \in Updates, Advance(f, u),
           NEW sc, NEW from \in Nat \ {0}, from <= Len(log) + 1
    PROVE  /\ \A s \in 1..Len(log) :
                /\ Picked(log', sc, from, s) = Picked(log, sc, from, s)
                /\ Allowed(log', sc, s) <=> Allowed(log, sc, s)
           /\ \A k \in 1..Len(u) : Allowed(log', sc, Len(log) + k) <=> k \in Wanted(sc, f, u)
           /\ \A k \in 0..Len(u) :
                /\ Cardinality(Picked(log, sc, from, Len(log))) \in Nat
                /\ Cardinality(Upto(Wanted(sc, f, u), k)) \in Nat
                /\ Cardinality(Picked(log', sc, from, Len(log) + k))
                     = Cardinality(Picked(log, sc, from, Len(log)))
                         + Cardinality(Upto(Wanted(sc, f, u), k))
<1> DEFINE L == Len(log)
           P == Wanted(sc, f, u)
<1>1. /\ L \in Nat /\ Len(u) \in Nat
      /\ \A t \in 1..L : log'[t] = log[t]
      /\ \A k \in 1..Len(u) : log'[L + k] = Event(f, u, k)
  BY LogExtended
<1>2. ASSUME NEW k \in 1..Len(u)
      PROVE  Allowed(log', sc, L + k) <=> k \in P
  <2>1. Event(f, u, k).flow = f /\ Event(f, u, k).stream = u[k].stream
        /\ Event(f, u, k).class = u[k].class
    BY DEF Event
  <2>2. log'[L + k] = Event(f, u, k)
    BY <1>1
  <2> HIDE DEF L
  <2> QED BY <2>1, <2>2, Zenon DEF Allowed, Wanted
<1>3. P \subseteq 1..Len(u)
  BY DEF Wanted
<1> HIDE DEF L, P
<1>4. \A t \in 1..L : Allowed(log', sc, t) <=> Allowed(log, sc, t)
  BY <1>1 DEF Allowed
<1>5. ASSUME NEW s \in 1..L
      PROVE  Picked(log', sc, from, s) = Picked(log, sc, from, s)
  <2>1. \A t \in from..s : t \in 1..L
    BY <1>1
  <2> QED BY <2>1, <1>4 DEF Picked
<1>6. ASSUME NEW k \in 0..Len(u)
      PROVE  /\ Cardinality(Picked(log, sc, from, L)) \in Nat
             /\ Cardinality(Upto(P, k)) \in Nat
             /\ Cardinality(Picked(log', sc, from, L + k))
                  = Cardinality(Picked(log, sc, from, L)) + Cardinality(Upto(P, k))
  <2> DEFINE A == Picked(log, sc, from, L)
             S == Upto(P, k)
             All == Picked(log', sc, from, L + k)
  <2>1. k \in Nat
    BY <1>1
  <2>2. Within(A, L)
    BY <1>1 DEF Within, Picked
  <2>3. Within(S, k)
    <3>1. \A j \in S : j \in P /\ j <= k
      BY DEF Upto
    <3> HIDE DEF S
    <3>2. ASSUME NEW j \in S PROVE j \in 1..k
      <4>1. j \in 1..Len(u) /\ j <= k
        BY <3>1, <1>3
      <4>2. Len(u) \in Nat
        BY <1>1
      <4> QED BY <4>1, <4>2, <2>1
    <3> QED BY <3>2 DEF Within
  <2>4. ASSUME NEW t \in All PROVE t \in A \cup Behind(L, S)
    <3>1. t \in from..(L + k) /\ Allowed(log', sc, t)
      BY DEF Picked
    <3>2. CASE t <= L
      <4>1. t \in 1..L /\ t \in from..L
        BY <3>1, <3>2, <1>1
      <4> QED BY <3>1, <4>1, <1>4 DEF Picked
    <3>3. CASE t > L
      <4>1. t - L \in 1..Len(u) /\ L + (t - L) = t /\ t - L <= k
        BY <3>1, <3>3, <1>1, <2>1
      <4>2. t - L \in P
        BY <3>1, <4>1, <1>2
      <4> QED BY <4>1, <4>2 DEF Behind, Upto
    <3> QED BY <3>1, <3>2, <3>3, <1>1
  <2>5. ASSUME NEW t \in A PROVE t \in All
    <3>1. t \in from..L /\ Allowed(log, sc, t)
      BY DEF Picked
    <3>2. t \in from..(L + k) /\ t \in 1..L
      BY <3>1, <1>1, <2>1
    <3> QED BY <3>1, <3>2, <1>4 DEF Picked
  <2>6. ASSUME NEW j \in S PROVE L + j \in All
    <3>1. j \in 1..Len(u) /\ j <= k /\ j \in P
      BY <1>3 DEF Upto
    <3>2. L + j \in from..(L + k)
      <4>1. from <= L + 1
        BY DEF L
      <4> QED BY <3>1, <4>1, <1>1, <2>1
    <3> QED BY <3>1, <3>2, <1>2 DEF Picked
  <2> HIDE DEF A, S, All
  <2>7. All = A \cup Behind(L, S)
    BY <2>4, <2>5, <2>6 DEF Behind
  <2>8. /\ Cardinality(A) \in Nat /\ Cardinality(S) \in Nat
        /\ Cardinality(A \cup Behind(L, S)) = Cardinality(A) + Cardinality(S)
    BY <1>1, <2>1, <2>2, <2>3, CountExtended
  <2> QED BY <2>7, <2>8 DEF A, S, All
<1> QED BY <1>2, <1>4, <1>5, <1>6 DEF L, P

\* A live slot's deliveries keep the rank of their event among the permitted
\* ones (the delivery identities of record_batch_with).
LEMMA AdvanceRanks ==
    ASSUME Retention, SlotTypes, Sequenced, OwnerNumbered,
           NEW i \in Live, Ranked(i), NEW f \in Flows, NEW u \in Updates, Advance(f, u),
           UNCHANGED <<sub, scope, since, got>>,
           queue'[i] \subseteq queue[i] \cup Deliveries(i, f, u)
    PROVE  Ranked(i)'
<1> DEFINE L == Len(log)
           sc == scope[i]
           from == since[i]
           P == Wanted(sc, f, u)
           Before(k) == Upto(P, k)
           Count(l, s) == Cardinality(Picked(l, sc, from, s))
<1>0. /\ i \in Slots /\ i \in Consumers /\ i # Owner /\ Owner \in Consumers
  BY RecorderAssumption DEF Live, Consumers
<1>1. /\ L \in Nat /\ Len(u) \in Nat /\ Len(log') = L + Len(u)
  BY LogExtended
<1>2. from \in Nat \ {0} /\ from <= L + 1
  BY <1>0 DEF SlotTypes, Ranked
<1>3. Selected(i, f, u) = P
  BY <1>0 DEF Selected, Positions, Permits, Wanted
<1>4. /\ \A s \in 1..L : /\ Picked(log', sc, from, s) = Picked(log, sc, from, s)
                         /\ Allowed(log', sc, s) <=> Allowed(log, sc, s)
      /\ \A k \in 1..Len(u) : Allowed(log', sc, L + k) <=> k \in P
      /\ \A k \in 0..Len(u) :
           /\ Count(log, L) \in Nat /\ Cardinality(Before(k)) \in Nat
           /\ Count(log', L + k) = Count(log, L) + Cardinality(Before(k))
  <2> HIDE DEF sc, from
  <2>1. from \in Nat \ {0} /\ from <= Len(log) + 1
    BY <1>2
  <2>2. \A s \in 1..Len(log) :
          /\ Picked(log', sc, from, s) = Picked(log, sc, from, s)
          /\ Allowed(log', sc, s) <=> Allowed(log, sc, s)
    BY <2>1, PickedExtended
  <2>3. \A k \in 1..Len(u) : Allowed(log', sc, Len(log) + k) <=> k \in Wanted(sc, f, u)
    BY <2>1, PickedExtended
  <2>4. \A k \in 0..Len(u) :
          /\ Cardinality(Picked(log, sc, from, Len(log))) \in Nat
          /\ Cardinality(Upto(Wanted(sc, f, u), k)) \in Nat
          /\ Cardinality(Picked(log', sc, from, Len(log) + k))
               = Cardinality(Picked(log, sc, from, Len(log)))
                   + Cardinality(Upto(Wanted(sc, f, u), k))
    BY <2>1, PickedExtended
  <2> QED BY <2>2, <2>3, <2>4
<1>5. /\ next[i] = Count(log, L) + 1
      /\ next'[i] = next[i] + Cardinality(P)
  BY <1>0, <1>3 DEF Ranked, Advance
<1>6. \A q \in queue[i] \cup got[i] :
        /\ q[2] \in 1..L /\ q[1] = Count(log, q[2]) /\ Allowed(log, sc, q[2])
  BY DEF Ranked
<1>7. next[Owner] = L + 1
  BY DEF OwnerNumbered
<1>8. P \subseteq 1..Len(u)
  BY DEF Wanted
<1> HIDE DEF L, P, sc, from
<1>9. next'[i] = Count(log', L + Len(u)) + 1
  <2>1. Before(Len(u)) = P /\ Len(u) \in 0..Len(u)
    <3>1. \A j \in P : j <= Len(u)
      BY <1>1, <1>8
    <3> QED BY <3>1, <1>1 DEF Upto
  <2> HIDE DEF Count, Before
  <2>2. Count(log', L + Len(u)) = Count(log, L) + Cardinality(P) /\ Count(log, L) \in Nat
        /\ Cardinality(P) \in Nat
    BY <2>1, <1>4
  <2> QED BY <2>2, <1>5
<1>10. ASSUME NEW q \in queue[i] \cup got[i]
       PROVE  /\ q[2] \in 1..(L + Len(u)) /\ q[1] = Count(log', q[2])
              /\ Allowed(log', sc, q[2])
  BY <1>1, <1>4, <1>6
<1>11. ASSUME NEW q \in Deliveries(i, f, u)
       PROVE  /\ q[2] \in 1..(L + Len(u)) /\ q[1] = Count(log', q[2])
              /\ Allowed(log', sc, q[2])
  <2> DEFINE Less(k) == {j \in P : j < k}
  <2>1. PICK k \in P : q = <<next[i] + Cardinality(Less(k)), next[Owner] + k - 1>>
    BY <1>3 DEF Deliveries, Delivery, Source
  <2>2. k \in 1..Len(u) /\ k \in 0..Len(u) /\ q[2] = L + k /\ q[2] \in 1..(L + Len(u))
    BY <2>1, <1>1, <1>7, <1>8
  <2>3. IsFiniteSet(Less(k)) /\ Cardinality(Less(k)) \in Nat
    <3>1. Within(Less(k), Len(u)) /\ 0 \in Nat
      BY <1>8 DEF Within
    <3> HIDE DEF Less
    <3> QED BY <3>1, <1>1, Shifted
  <2>4. Before(k) = Less(k) \cup {k} /\ k \notin Less(k)
    BY <2>2, <1>8, <1>1 DEF Upto
  <2> HIDE DEF Less, Before, Count
  <2>5. Cardinality(Before(k)) = Cardinality(Less(k)) + 1
    BY <2>3, <2>4, FS_AddElement
  <2>6. Count(log', L + k) = Count(log, L) + Cardinality(Before(k)) /\ Count(log, L) \in Nat
    BY <2>2, <1>4
  <2>7. q[1] = next[i] + Cardinality(Less(k))
    BY <2>1
  <2>8. q[1] = Count(log', L + k)
    BY <2>3, <2>5, <2>6, <2>7, <1>5
  <2>9. Allowed(log', sc, L + k)
    BY <2>1, <2>2, <1>4
  <2> QED BY <2>2, <2>8, <2>9
<1>12. from <= L + Len(u) + 1
  BY <1>1, <1>2
<1>13. since'[i] = from /\ scope'[i] = sc /\ got' = got
  BY DEF from, sc
<1> QED BY <1>1, <1>9, <1>10, <1>11, <1>12, <1>13 DEF Ranked

\* The owner's delivery of an event carries its source id.
LEMMA OwnerDeliveries ==
    ASSUME Retention, NEW f \in Flows, NEW u \in Updates, NEW q \in Deliveries(Owner, f, u)
    PROVE  q[1] = q[2]
<1>0. Owner \in Consumers /\ next[Owner] \in Nat /\ Len(u) \in Nat
  BY RecorderAssumption DEF Consumers, Retention, Typing
<1>1. Selected(Owner, f, u) = 1..Len(u)
  BY DEF Selected, Positions
<1>2. PICK k \in 1..Len(u) :
        q = <<next[Owner] + Cardinality({j \in 1..Len(u) : j < k}), next[Owner] + k - 1>>
  BY <1>1 DEF Deliveries, Delivery, Source
<1>3. {j \in 1..Len(u) : j < k} = 1..(k - 1)
  BY <1>0
<1>4. Cardinality(1..(k - 1)) = k - 1
  <2>1. k - 1 \in Nat /\ 1 \in Int /\ k - 1 \in Int
    BY <1>0
  <2>2. Cardinality(1..(k - 1)) = IF 1 > k - 1 THEN 0 ELSE (k - 1) - 1 + 1
    BY <2>1, FS_Interval
  <2> QED BY <2>1, <2>2
<1>5. q[1] = next[Owner] + (k - 1) /\ q[2] = next[Owner] + k - 1
  BY <1>2, <1>3, <1>4
<1> QED BY <1>0, <1>5

\* An update that is numbered, stored or lost, keeps every identity dense.
LEMMA AdvanceNumbers ==
    ASSUME Retention, Numbered, NEW f \in Flows, NEW u \in Updates, Advance(f, u),
           UNCHANGED <<sub, scope, since, got>>,
           \A c \in Consumers : queue'[c] \subseteq queue[c] \cup Deliveries(c, f, u)
    PROVE  Numbered'
<1> USE DEF Numbered
<1>0. Owner \in Consumers
  BY DEF Consumers
<1>1. SlotTypes'
  BY DEF SlotTypes
<1>2. Sequenced'
  BY AdvanceSequences
<1>3. OwnerNumbered'
  <2>1. Len(log) \in Nat /\ Len(u) \in Nat /\ Len(log') = Len(log) + Len(u)
    BY LogExtended
  <2>2. next'[Owner] = next[Owner] + Len(u)
    <3>1. Selected(Owner, f, u) = 1..Len(u)
      BY DEF Selected, Positions
    <3>2. Cardinality(1..Len(u)) = IF 1 > Len(u) THEN 0 ELSE Len(u) - 1 + 1
      <4>1. Len(u) \in Int /\ 1 \in Int
        BY <2>1
      <4> QED BY <4>1, FS_Interval
    <3>3. Cardinality(1..Len(u)) = Len(u)
      BY <2>1, <3>2
    <3> QED BY <3>1, <3>3, <1>0 DEF Advance
  <2>3. next'[Owner] = Len(log') + 1
    BY <2>1, <2>2 DEF OwnerNumbered
  <2>4. \A q \in queue'[Owner] \cup got'[Owner] : q[1] = q[2]
    BY <1>0, OwnerDeliveries DEF OwnerNumbered
  <2> QED BY <2>3, <2>4 DEF OwnerNumbered
<1>4. ASSUME NEW i \in Slots
      PROVE  IF sub'[i] = "free" THEN next'[i] = 1 /\ queue'[i] = {} /\ got'[i] = {}
                                 ELSE Ranked(i)'
  <2>0. i \in Consumers /\ i # Owner
    BY RecorderAssumption DEF Consumers
  <2>1. CASE sub[i] = "free"
    <3>1. next[i] = 1 /\ queue[i] = {} /\ got[i] = {}
      BY <2>1 DEF SlotsNumbered
    <3>2. Selected(i, f, u) = {}
      BY <2>0, <2>1 DEF Selected, Live
    <3>3. Deliveries(i, f, u) = {} /\ Cardinality(Selected(i, f, u)) = 0
      BY <3>2, FS_EmptySet DEF Deliveries
    <3>4. next'[i] = 1 + 0
      BY <2>0, <3>1, <3>3 DEF Advance
    <3> QED BY <2>0, <2>1, <3>1, <3>3, <3>4
  <2>2. CASE sub[i] # "free"
    <3>1. i \in Live /\ Ranked(i)
      BY <2>2 DEF Live, SlotsNumbered
    <3>2. Ranked(i)'
      BY <2>0, <3>1, AdvanceRanks
    <3> QED BY <2>2, <3>2
  <2> QED BY <2>1, <2>2
<1> QED BY <1>1, <1>2, <1>3, <1>4 DEF SlotsNumbered

\* Deliveries that are removed, or handed to a reader, change no numbering.
LEMMA NumberedKept ==
    ASSUME Numbered, UNCHANGED <<next, sub, scope, since, sequences, log>>,
           got' \in [Consumers -> SUBSET (Nat \X Nat)],
           \A c \in Consumers : queue'[c] \cup got'[c] \subseteq queue[c] \cup got[c]
    PROVE  Numbered'
<1> USE DEF Numbered
<1>0. Owner \in Consumers /\ Slots \subseteq Consumers
  BY DEF Consumers
<1>1. SlotTypes' /\ Sequenced'
  BY DEF SlotTypes, Sequenced
<1>2. OwnerNumbered'
  BY <1>0 DEF OwnerNumbered
<1>3. ASSUME NEW i \in Slots
      PROVE  IF sub'[i] = "free" THEN next'[i] = 1 /\ queue'[i] = {} /\ got'[i] = {}
                                 ELSE Ranked(i)'
  <2>1. queue'[i] \cup got'[i] \subseteq queue[i] \cup got[i]
    BY <1>0
  <2>2. CASE sub[i] = "free"
    BY <2>1, <2>2 DEF SlotsNumbered
  <2>3. CASE sub[i] # "free"
    <3>1. Ranked(i)
      BY <2>3 DEF SlotsNumbered
    <3>2. Ranked(i)'
      BY <2>1, <3>1 DEF Ranked
    <3> QED BY <2>3, <3>2
  <2> QED BY <2>2, <2>3
<1> QED BY <1>1, <1>2, <1>3 DEF SlotsNumbered

LEMMA NumberedStep ==
    ASSUME Retention, Numbered, [Next]_vars
    PROVE  Numbered'
<1>0. /\ Owner \in Consumers /\ Slots \subseteq Consumers /\ Owner \notin Slots
      /\ next \in [Consumers -> Nat \ {0}]
      /\ queue \in [Consumers -> SUBSET (Nat \X Nat)]
      /\ got \in [Consumers -> SUBSET (Nat \X Nat)]
  BY RecorderAssumption DEF Consumers, Retention, Typing, Numbered, SlotTypes
<1>1. ASSUME UNCHANGED <<next, sub, scope, since, sequences, log, queue, got>>
      PROVE  Numbered'
  BY <1>0, <1>1, NumberedKept
<1>2. ASSUME NEW f \in Flows, NEW u \in Updates, Record(f, u)
      PROVE  Numbered'
  <2>1. CASE Reject(f, u, Plan(f, u))
    BY <2>1, <1>1 DEF Reject, vars, slotVars, readerVars
  <2>2. ASSUME NEW plan, plan = Plan(f, u), Lose(f, u, plan) \/ Publish(f, u, plan)
        PROVE  Numbered'
    <3>1. Advance(f, u) /\ UNCHANGED <<sub, scope, since, got>>
      BY <2>2 DEF Lose, Publish, slotVars, readerVars
    <3>2. \A c \in Consumers : queue'[c] \subseteq queue[c] \cup Deliveries(c, f, u)
      <4>1. CASE Lose(f, u, plan)
        BY <4>1 DEF Lose
      <4>2. CASE Publish(f, u, plan)
        BY <4>2 DEF Publish, Kept
      <4> QED BY <2>2, <4>1, <4>2
    <3> QED BY <3>1, <3>2, AdvanceNumbers
  <2> QED BY <1>2, <2>1, <2>2 DEF Record
<1>3. ASSUME NEW c \in Readers, NEW first, NEW last, NEW arrives, Read(c, first, last, arrives)
      PROVE  Numbered'
  <2>0. c \in Consumers
    BY RecorderAssumption
  <2>1. UNCHANGED <<next, queue, sub, scope, since, sequences, log>>
    BY <1>3 DEF Read, slotVars
  <2>2. got' = got \/ got' = [got EXCEPT ![c] = @ \cup
                                {q \in queue[c] : q[1] \in first..last}]
    BY <1>3 DEF Read, readerVars
  <2>3. /\ got' \in [Consumers -> SUBSET (Nat \X Nat)]
        /\ \A b \in Consumers : queue'[b] \cup got'[b] \subseteq queue[b] \cup got[b]
    BY <2>0, <2>1, <2>2, <1>0
  <2> QED BY <2>1, <2>3, NumberedKept
<1>4. ASSUME NEW c \in Consumers, NEW after \in 0..MaxIds, Acknowledge(c, after)
      PROVE  Numbered'
  <2>1. UNCHANGED <<next, sub, scope, since, sequences, log, got>>
    BY <1>4 DEF Acknowledge, slotVars, readerVars
  <2>2. queue' = [queue EXCEPT ![c] = @ \ {q \in queue[c] : q[1] <= after}]
    BY <1>4 DEF Acknowledge, Release
  <2>3. \A b \in Consumers : queue'[b] \subseteq queue[b]
    BY <2>2, <1>0
  <2> QED BY <2>1, <2>3, <1>0, NumberedKept
<1>5. ASSUME NEW i \in Slots, NEW grant \in Grants, Subscribe(i, grant)
      PROVE  Numbered'
  <2>1. /\ sub[i] = "free" /\ sub' = [sub EXCEPT ![i] = "open"]
        /\ scope' = [scope EXCEPT ![i] = grant.scope]
        /\ since' = [since EXCEPT ![i] = next[Owner]]
        /\ UNCHANGED <<next, queue, sequences, log, got>>
    BY <1>5 DEF Subscribe, readerVars
  <2>2. grant.scope \in Scopes
    BY RecorderAssumption
  <2>3. SlotTypes'
    BY <2>1, <2>2, <1>0 DEF Numbered, SlotTypes
  <2>4. Sequenced' /\ OwnerNumbered'
    BY <2>1 DEF Numbered, Sequenced, OwnerNumbered
  <2>5. ASSUME NEW j \in Slots, j # i
        PROVE  IF sub'[j] = "free" THEN next'[j] = 1 /\ queue'[j] = {} /\ got'[j] = {}
                                   ELSE Ranked(j)'
    <3>1. sub'[j] = sub[j] /\ scope'[j] = scope[j] /\ since'[j] = since[j]
      BY <2>1, <2>5 DEF Numbered, SlotTypes
    <3> QED BY <2>1, <3>1 DEF Numbered, SlotsNumbered, Ranked
  <2>6. Ranked(i)'
    <3>1. next[i] = 1 /\ queue[i] = {} /\ got[i] = {}
      BY <2>1 DEF Numbered, SlotsNumbered
    <3>2. since'[i] = Len(log) + 1 /\ Len(log) \in Nat
      BY <2>1 DEF Numbered, SlotTypes, OwnerNumbered, Sequenced
    <3>3. Picked(log', scope'[i], since'[i], Len(log')) = {}
      BY <3>2, <2>1 DEF Picked
    <3>4. Cardinality(Picked(log', scope'[i], since'[i], Len(log'))) = 0
      BY <3>3, FS_EmptySet
    <3> QED BY <2>1, <3>1, <3>2, <3>4 DEF Ranked
  <2>7. sub'[i] # "free"
    BY <2>1 DEF Numbered, SlotTypes
  <2> QED BY <2>3, <2>4, <2>5, <2>6, <2>7 DEF Numbered, SlotsNumbered
<1>6. ASSUME NEW i \in Slots, CloseAdmission(i)
      PROVE  Numbered'
  <2>1. /\ sub[i] = "open" /\ sub' = [sub EXCEPT ![i] = "closing"]
        /\ UNCHANGED <<next, queue, scope, since, sequences, log, got>>
    BY <1>6 DEF CloseAdmission, readerVars
  <2>2. SlotTypes'
    BY <2>1 DEF Numbered, SlotTypes
  <2>3. Sequenced' /\ OwnerNumbered'
    BY <2>1 DEF Numbered, Sequenced, OwnerNumbered
  <2>4. ASSUME NEW j \in Slots
        PROVE  /\ sub'[j] = "free" <=> sub[j] = "free"
               /\ Ranked(j) => Ranked(j)'
    <3>1. sub'[j] = "free" <=> sub[j] = "free"
      BY <2>1 DEF Numbered, SlotTypes
    <3>2. Ranked(j) => Ranked(j)'
      BY <2>1 DEF Ranked
    <3> QED BY <3>1, <3>2
  <2> QED BY <2>1, <2>2, <2>3, <2>4 DEF Numbered, SlotsNumbered
<1>7. ASSUME NEW i \in Slots, Close(i)
      PROVE  Numbered'
  <2>1. /\ sub' = [sub EXCEPT ![i] = "free"]
        /\ scope' = [scope EXCEPT ![i] = NoScope]
        /\ since' = [since EXCEPT ![i] = 1]
        /\ next' = [next EXCEPT ![i] = 1]
        /\ got' = [got EXCEPT ![i] = {}]
        /\ queue' = [queue EXCEPT ![i] = @ \ queue[i]]
        /\ UNCHANGED <<sequences, log>>
    BY <1>7 DEF Close, Vacate, Release
  <2>2. NoScope \in Scopes
    BY DEF NoScope, Scopes
  <2>3. SlotTypes'
    BY <2>1, <2>2, <1>0 DEF Numbered, SlotTypes
  <2>4. Sequenced'
    BY <2>1 DEF Numbered, Sequenced
  <2>5. /\ next'[i] = 1 /\ queue'[i] = {} /\ got'[i] = {} /\ sub'[i] = "free"
    BY <2>1, <1>0 DEF Numbered, SlotTypes
  <2>6. \A c \in Consumers : c # i =>
          next'[c] = next[c] /\ queue'[c] = queue[c] /\ got'[c] = got[c]
    BY <2>1, <1>0
  <2>7. OwnerNumbered'
    BY <2>1, <2>6, <1>0 DEF Numbered, OwnerNumbered
  <2>8. ASSUME NEW j \in Slots, j # i
        PROVE  IF sub'[j] = "free" THEN next'[j] = 1 /\ queue'[j] = {} /\ got'[j] = {}
                                   ELSE Ranked(j)'
    <3>1. /\ sub'[j] = sub[j] /\ scope'[j] = scope[j] /\ since'[j] = since[j]
          /\ next'[j] = next[j] /\ queue'[j] = queue[j] /\ got'[j] = got[j]
      BY <2>1, <2>6, <2>8, <1>0 DEF Numbered, SlotTypes
    <3> QED BY <2>1, <3>1 DEF Numbered, SlotsNumbered, Ranked
  <2> QED BY <2>3, <2>4, <2>5, <2>7, <2>8 DEF Numbered, SlotsNumbered
<1>8. CASE Restart
  <2>1. /\ next' = [c \in Consumers |-> 1] /\ queue' = [c \in Consumers |-> {}]
        /\ got' = [c \in Consumers |-> {}] /\ log' = <<>>
        /\ sub' = [i \in Slots |-> "free"] /\ scope' = [i \in Slots |-> NoScope]
        /\ since' = [i \in Slots |-> 1]
        /\ sequences' = [f \in Flows |-> [x \in Streams |-> 0]]
    BY <1>8 DEF Restart
  <2>2. NoScope \in Scopes
    BY DEF NoScope, Scopes
  <2>3. SlotTypes'
    BY <2>1, <2>2 DEF SlotTypes
  <2>4. OwnerNumbered' /\ SlotsNumbered'
    BY <2>1, <1>0 DEF OwnerNumbered, SlotsNumbered
  <2>5. \A f \in Flows, x \in Streams : Cardinality(Places(log', f, x, Len(log'))) = 0
    BY <2>1, FS_EmptySet DEF Places
  <2>6. Sequenced'
    BY <2>1, <2>5 DEF Sequenced
  <2> QED BY <2>3, <2>4, <2>6 DEF Numbered
<1>9. CASE SetAvailable
  BY <1>9, <1>1 DEF SetAvailable, slotVars, readerVars
<1>10. CASE UNCHANGED vars
  BY <1>10, <1>1 DEF vars, slotVars, readerVars
<1> QED BY <1>2, <1>3, <1>4, <1>5, <1>6, <1>7, <1>8, <1>9, <1>10 DEF Next

LEMMA NumberedInit == Init => Numbered
<1> SUFFICES ASSUME Init PROVE Numbered
  OBVIOUS
<1>1. /\ next = [c \in Consumers |-> 1] /\ queue = [c \in Consumers |-> {}]
      /\ got = [c \in Consumers |-> {}] /\ log = <<>>
      /\ sub = [i \in Slots |-> "free"] /\ scope = [i \in Slots |-> NoScope]
      /\ since = [i \in Slots |-> 1]
      /\ sequences = [f \in Flows |-> [x \in Streams |-> 0]]
  BY DEF Init
<1>2. NoScope \in Scopes /\ Owner \in Consumers /\ Slots \subseteq Consumers
  BY DEF NoScope, Scopes, Consumers
<1>3. SlotTypes
  BY <1>1, <1>2 DEF SlotTypes
<1>4. OwnerNumbered /\ SlotsNumbered
  BY <1>1, <1>2 DEF OwnerNumbered, SlotsNumbered
<1>5. \A f \in Flows, x \in Streams : Cardinality(Places(log, f, x, Len(log))) = 0
  BY <1>1, FS_EmptySet DEF Places
<1>6. Sequenced
  BY <1>1, <1>5 DEF Sequenced
<1> QED BY <1>3, <1>4, <1>6 DEF Numbered

\* Source ids, delivery ids and sequence numbers are never reused, skipped or
\* given to an event outside the scope, for any number of subscribers, flows
\* and updates, whether an update is stored, lost or rejected
\* (Flow::record_batch_with, Recorder::record_batch_with, subscribe, close).
THEOREM IdentitiesStayDense == Spec => []IdentitiesDense
<1>1. Numbered => IdentitiesDense
  <2> SUFFICES ASSUME Numbered PROVE IdentitiesDense
    OBVIOUS
  <2>1. /\ next[Owner] = Len(log) + 1
        /\ \A q \in queue[Owner] \cup got[Owner] : Following(Owner) => q[1] = q[2]
    BY DEF Numbered, OwnerNumbered
  <2>2. ASSUME NEW i \in Live
        PROVE  /\ next[i] = Rank(i, Len(log)) + 1
               /\ \A q \in queue[i] \cup got[i] :
                    /\ q[1] = Rank(i, q[2])
                    /\ Permits(i, log[q[2]].flow, log[q[2]])
    <3>1. Ranked(i)
      BY DEF Numbered, SlotsNumbered, Live
    <3>2. \A s : Rank(i, s) = Cardinality(Picked(log, scope[i], since[i], s))
      BY DEF Rank, Picked, Allowed, Permits
    <3>3. \A t : Permits(i, log[t].flow, log[t]) <=> Allowed(log, scope[i], t)
      BY DEF Allowed, Permits
    <3> QED BY <3>1, <3>2, <3>3 DEF Ranked
  <2>3. \A t \in 1..Len(log) :
          log[t].seq = Cardinality({r \in 1..(t - 1) :
                          log[r].flow = log[t].flow /\ log[r].stream = log[t].stream})
    BY DEF Numbered, Sequenced, Places
  <2> QED BY <2>1, <2>2, <2>3 DEF IdentitiesDense
<1> QED BY <1>1, NumberedInit, NumberedStep, RetentionAlways, PTL DEF Spec
=============================================================================
