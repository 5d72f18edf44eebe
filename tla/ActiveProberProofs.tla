--------------------------- MODULE ActiveProberProofs --------------------------
(***************************************************************************)
(* Theorems about module ActiveProber, for any batches and any number of   *)
(* slots and attempts: no slot of the semaphore gets lost or is used twice,*)
(* and every probe comes to one verdict.                                   *)
(***************************************************************************)
EXTENDS ActiveProber, FiniteSetTheorems, TLAPS

(***************************************************************************)
(* What is inductive.  The queue holds waiting probes only, each once, and *)
(* none that is cancelled; and a batch has no probe under way before its   *)
(* tasks start.                                                            *)
(***************************************************************************)
QueueOK ==
    /\ \A i \in 1 .. Len(queue) : pc[queue[i]] = "waiting" /\ queue[i] \notin cancelled
    /\ \A i, j \in 1 .. Len(queue) : queue[i] = queue[j] => i = j

BatchesOK ==
    \A p \in Probes : /\ batch[p[1]] = "none" => pc[p] = "none"
                      /\ batch[p[1]] = "called" => pc[p] = "created"
                      /\ batch[p[1]] \in {"none", "called"} => p \notin cancelled

SomebodyWakes == free > 0 /\ queue # <<>> => \E p \in Probes : pc[p] = "granted"

States == {"none", "called", "running", "cancelled", "returned", "ended"}

\* The part of it that is about the semaphore ...
SlotInv ==
    /\ pc \in [Probes -> Awaits] /\ free \in Nat /\ queue \in Seq(Probes)
    /\ free + Cardinality(Holders) = MAX_CONCURRENT
    /\ SomebodyWakes
    /\ QueueOK

\* ... the rest of the tasks ...
TaskInv ==
    /\ batch \in [Batches -> States] /\ outcome \in [Probes -> Outcomes]
    /\ cancelled \subseteq Probes
    /\ BatchesOK

\* ... and what they report.
RecordsOK ==
    /\ attempt \in [Probes -> 0 .. MAX_RETRIES]
    /\ result \in [Probes -> Results]
    /\ delivered \in [Probes -> Nat]
    /\ recorded \in [Probes -> Nat]

ProberInv == SlotInv /\ TaskInv /\ RecordsOK

-----------------------------------------------------------------------------
LEMMA ProbesAre ==
    ASSUME NEW p \in Probes
    PROVE  p[1] \in Batches /\ p \in ProbesOf(p[1]) /\ p = <<p[1], p[2]>>
           /\ p[2] \in 1 .. Size[p[1]]
  BY DEF Probes, ProbesOf

LEMMA ProbesFinite ==
    ASSUME ProberAssumption
    PROVE  /\ IsFiniteSet(Probes)
           /\ IsFiniteSet(Holders)
           /\ Cardinality(Holders) \in Nat
  <1> DEFINE block(b) == {b} \X (1 .. Size[b])
  <1>1. \A b \in Batches : IsFiniteSet(block(b))
    <2> TAKE b \in Batches
    <2>1. 1 \in Int /\ Size[b] \in Int
      BY DEF ProberAssumption
    <2>2. IsFiniteSet(1 .. Size[b])
      BY ONLY <2>1, FS_Interval
    <2>3. IsFiniteSet({b})
      BY ONLY FS_Singleton
    <2> QED
      BY <2>2, <2>3, FS_Product
  <1> DEFINE blocks == {block(b) : b \in Batches}
  <1>2. IsFiniteSet(blocks)
    <2>1. [b \in Batches |-> block(b)] \in Surjection(Batches, blocks)
      BY DEF Surjection
    <2> QED
      BY <2>1, FS_Surjection DEF ProberAssumption
  <1>3. IsFiniteSet(UNION blocks)
    BY <1>1, <1>2, FS_UNION
  <1>4. Probes \subseteq UNION blocks
    BY DEF Probes
  <1>5. IsFiniteSet(Probes)
    BY <1>3, <1>4, FS_Subset
  <1> QED
    BY <1>5, FS_Subset, FS_CardinalityType DEF Holders

LEMMA SlotsOfFinite ==
    ASSUME ProberAssumption, NEW f
    PROVE  LET S == {q \in Probes : f[q] \in InSlot}
           IN  IsFiniteSet(S) /\ Cardinality(S) \in Nat
  BY ProbesFinite, FS_Subset, FS_CardinalityType

\* wake_up_next, when the free slots have been counted for the moved tasks.
LEMMA WakeStep ==
    ASSUME ProberAssumption, SlotInv,
           NEW moved \in [Probes -> Awaits], NEW value \in Nat,
           \A i \in 1 .. Len(queue) : moved[queue[i]] = "waiting",
           value + Cardinality({q \in Probes : moved[q] \in InSlot}) = MAX_CONCURRENT,
           Wake(moved, value), cancelled' \subseteq cancelled
    PROVE  /\ SlotInv'
           /\ \A q \in Probes : \/ pc'[q] = moved[q]
                                \/ moved[q] = "waiting" /\ pc'[q] = "granted"
  <1> DEFINE S == {q \in Probes : moved[q] \in InSlot}
  <1>0. IsFiniteSet(S) /\ Cardinality(S) \in Nat
    BY SlotsOfFinite
  <1>1. CASE value = 0 \/ queue = <<>>
    <2>1. pc' = moved /\ free' = value /\ queue' = queue
      BY <1>1 DEF Wake
    <2>2. Holders' = S
      BY <2>1 DEF Holders
    <2>3. SomebodyWakes'
      BY <1>1, <2>1 DEF SomebodyWakes
    <2>4. QueueOK'
      BY <2>1 DEF SlotInv, QueueOK
    <2> QED
      BY <2>1, <2>2, <2>3, <2>4 DEF SlotInv
  <1>2. CASE value > 0 /\ queue # <<>>
    <2> DEFINE w == Head(queue)
    <2>1. /\ pc' = [moved EXCEPT ![w] = "granted"]
          /\ queue' = Tail(queue)
          /\ free' = value - 1
      BY <1>2 DEF Wake
    <2>2. queue \in Seq(Probes) /\ Len(queue) \in Nat /\ Len(queue) > 0
      BY <1>2 DEF SlotInv
    <2>3. /\ w = queue[1] /\ w \in Probes
          /\ queue' \in Seq(Probes)
          /\ Len(queue') = Len(queue) - 1
          /\ \A i \in 1 .. Len(queue') : queue'[i] = queue[i + 1]
      BY <2>1, <2>2
    <2>4. \A i \in 1 .. Len(queue') : i + 1 \in 1 .. Len(queue) /\ i + 1 # 1
      BY <2>2, <2>3
    <2>5. moved[w] = "waiting"
      BY <2>2, <2>3
    <2> HIDE DEF w
    <2>6. /\ pc' \in [Probes -> Awaits]
          /\ pc'[w] = "granted"
          /\ \A q \in Probes \ {w} : pc'[q] = moved[q]
      BY <2>1, <2>3 DEF Awaits
    <2>7. Holders' = S \cup {w} /\ w \notin S
      BY <2>3, <2>5, <2>6 DEF Holders, InSlot
    <2>8. Cardinality(Holders') = Cardinality(S) + 1
      BY <1>0, <2>7, FS_AddElement
    <2>9. QueueOK'
      <3>1. \A i \in 1 .. Len(queue') : queue'[i] # w /\ queue'[i] \in Probes
        BY <2>2, <2>3, <2>4 DEF SlotInv, QueueOK
      <3>2. \A i \in 1 .. Len(queue') : pc'[queue'[i]] = "waiting" /\ queue'[i] \notin cancelled'
        BY <2>3, <2>4, <2>6, <3>1 DEF SlotInv, QueueOK
      <3>3. \A i, j \in 1 .. Len(queue') : queue'[i] = queue'[j] => i = j
        <4> SUFFICES ASSUME NEW i \in 1 .. Len(queue'), NEW j \in 1 .. Len(queue'),
                            queue'[i] = queue'[j]
                     PROVE  i = j
          OBVIOUS
        <4>1. i + 1 = j + 1
          BY <2>3, <2>4 DEF SlotInv, QueueOK
        <4> QED
          BY <2>2, <2>3, <4>1
      <3> QED
        BY <3>2, <3>3 DEF QueueOK
    <2>10. SomebodyWakes'
      BY <2>3, <2>6 DEF SomebodyWakes
    <2>11. free' \in Nat /\ free' + Cardinality(Holders') = MAX_CONCURRENT
      BY <1>0, <1>2, <2>1, <2>8 DEF ProberAssumption
    <2> QED
      BY <2>3, <2>5, <2>6, <2>9, <2>10, <2>11 DEF SlotInv
  <1> QED
    BY <1>1, <1>2

\* A probe that has a slot does not move out of it.
LEMMA MoveStep ==
    ASSUME ProberInv, NEW p \in Probes, pc[p] \in InSlot \ {"granted"},
           NEW state \in InSlot \ {"granted"}, pc' = MoveTo(p, state),
           outcome' \in [Probes -> Outcomes], UNCHANGED <<batch, cancelled, semaphore>>
    PROVE  SlotInv' /\ TaskInv'
  <1>1. /\ pc' \in [Probes -> Awaits]
        /\ pc'[p] = state
        /\ \A q \in Probes \ {p} : pc'[q] = pc[q]
    BY DEF ProberInv, SlotInv, MoveTo, Awaits, InSlot
  <1>2. Holders' = Holders
    BY <1>1 DEF Holders
  <1>3. QueueOK'
    <2>1. \A i \in 1 .. Len(queue) : queue[i] \in Probes \ {p}
      BY DEF ProberInv, SlotInv, QueueOK, InSlot
    <2> QED
      BY <1>1, <2>1 DEF ProberInv, SlotInv, QueueOK, semaphore
  <1>4. SomebodyWakes'
    BY <1>1 DEF ProberInv, SlotInv, SomebodyWakes, semaphore
  <1>5. BatchesOK'
    <2>1. pc[p] # "none" /\ pc[p] # "created"
      BY DEF InSlot
    <2> QED
      BY <1>1, <2>1 DEF ProberInv, TaskInv, BatchesOK
  <1> QED
    BY <1>1, <1>2, <1>3, <1>4, <1>5 DEF ProberInv, SlotInv, TaskInv, semaphore

\* A slot that is given back goes to the first waiter or is counted free.
LEMMA LeaveStep ==
    ASSUME ProberAssumption, ProberInv, NEW p \in Probes, pc[p] \in InSlot, Leave(p),
           UNCHANGED batch
    PROVE  /\ SlotInv' /\ TaskInv'
           /\ pc'[p] = "done"
           /\ \A q \in Probes \ {p} : \/ pc'[q] = pc[q]
                                      \/ pc[q] = "waiting" /\ pc'[q] = "granted"
  <1> DEFINE moved == MoveTo(p, "done")
             S == {q \in Probes : moved[q] \in InSlot}
  <1>1. /\ Wake(moved, free + 1)
        /\ outcome' = [outcome EXCEPT ![p] = "none"]
        /\ cancelled' = cancelled \ {p}
    BY DEF Leave, SetOutcome
  <1>2. /\ moved \in [Probes -> Awaits]
        /\ moved[p] = "done"
        /\ \A q \in Probes \ {p} : moved[q] = pc[q]
    BY DEF ProberInv, SlotInv, MoveTo, Awaits
  <1>3. free \in Nat /\ free + Cardinality(Holders) = MAX_CONCURRENT
    BY DEF ProberInv, SlotInv
  <1> HIDE DEF moved
  <1>4. S = Holders \ {p} /\ p \in Holders
    BY <1>2 DEF Holders, InSlot
  <1>5. Cardinality(S) = Cardinality(Holders) - 1 /\ Cardinality(Holders) \in Nat
    BY <1>4, ProbesFinite, FS_RemoveElement
  <1>6. free + 1 + Cardinality(S) = MAX_CONCURRENT
    BY <1>3, <1>5
  <1>7. \A i \in 1 .. Len(queue) : moved[queue[i]] = "waiting"
    <2>1. \A i \in 1 .. Len(queue) : queue[i] \in Probes \ {p}
      BY DEF ProberInv, SlotInv, QueueOK, InSlot
    <2> QED
      BY <1>2, <2>1 DEF ProberInv, SlotInv, QueueOK
  <1>8. /\ SlotInv'
        /\ \A q \in Probes : \/ pc'[q] = moved[q]
                             \/ moved[q] = "waiting" /\ pc'[q] = "granted"
    <2>1. free + 1 \in Nat /\ cancelled' \subseteq cancelled
      BY <1>1, <1>3
    <2> QED
      BY <1>1, <1>2, <1>6, <1>7, <2>1, WakeStep DEF ProberInv
  <1>9. TaskInv'
    <2>1. BatchesOK'
      <3>1. pc[p] # "none" /\ pc[p] # "created"
        BY DEF InSlot
      <3>2. cancelled' \subseteq cancelled
        BY <1>1
      <3> QED
        BY <1>2, <1>8, <3>1, <3>2 DEF ProberInv, TaskInv, BatchesOK
    <2>2. outcome' \in [Probes -> Outcomes] /\ cancelled' \subseteq Probes
      BY <1>1 DEF ProberInv, TaskInv, Outcomes
    <2> QED
      BY <2>1, <2>2 DEF ProberInv, TaskInv
  <1>10. /\ pc'[p] = "done"
         /\ \A q \in Probes \ {p} : \/ pc'[q] = pc[q]
                                    \/ pc[q] = "waiting" /\ pc'[q] = "granted"
    <2>1. \A q \in Probes : \/ pc'[q] = moved[q]
                            \/ moved[q] = "waiting" /\ pc'[q] = "granted"
      BY <1>8
    <2> QED
      BY ONLY <1>2, <2>1, p \in Probes
  <1> QED
    BY <1>8, <1>9, <1>10

-----------------------------------------------------------------------------
LEMMA ProberInit ==
    ASSUME ProberAssumption, Init
    PROVE  ProberInv
  <1>1. Holders = {}
    BY DEF Init, Holders, InSlot
  <1>2. Cardinality(Holders) = 0
    BY <1>1, FS_EmptySet
  <1>3. SlotInv
    <2>1. <<>> \in Seq(Probes) /\ Len(<<>>) = 0
      OBVIOUS
    <2> QED
      BY <1>2, <2>1
      DEF Init, SlotInv, SomebodyWakes, QueueOK, Awaits, ProberAssumption
  <1>4. TaskInv
    <2>1. BatchesOK
      BY ProbesAre DEF Init, BatchesOK
    <2> QED
      BY <2>1 DEF Init, TaskInv, States, Outcomes, Failures
  <1>5. RecordsOK
    BY DEF Init, RecordsOK, Results, ProberAssumption
  <1> QED
    BY <1>3, <1>4, <1>5 DEF ProberInv

LEMMA CallStep ==
    ASSUME ProberInv, NEW b \in Batches, CallBatch(b)
    PROVE  ProberInv'
  <1>1. /\ batch[b] = "none" /\ batch' = [batch EXCEPT ![b] = "called"]
        /\ pc' = [p \in Probes |-> IF p \in ProbesOf(b) THEN "created" ELSE pc[p]]
        /\ UNCHANGED <<attempt, outcome, cancelled, semaphore, records>>
    BY DEF CallBatch
  <1>2. \A p \in ProbesOf(b) : pc[p] = "none"
    BY <1>1 DEF ProberInv, TaskInv, BatchesOK, ProbesOf
  <1>3. pc' \in [Probes -> Awaits]
    BY <1>1 DEF ProberInv, SlotInv, Awaits
  <1>4. \A p \in Probes : \/ pc'[p] = pc[p]
                          \/ pc[p] = "none" /\ pc'[p] = "created"
    BY <1>1, <1>2
  <1>5. Holders' = Holders
    BY <1>4 DEF Holders, InSlot
  <1>6. QueueOK'
    <2>1. \A i \in 1 .. Len(queue) : queue[i] \in Probes
      BY DEF ProberInv, SlotInv
    <2> QED
      BY <1>1, <1>4, <2>1 DEF ProberInv, SlotInv, QueueOK, semaphore
  <1>7. SomebodyWakes'
    BY <1>1, <1>4 DEF ProberInv, SlotInv, SomebodyWakes, semaphore
  <1>8. SlotInv'
    BY <1>1, <1>3, <1>5, <1>6, <1>7 DEF ProberInv, SlotInv, semaphore
  <1>9. TaskInv'
    <2>1. batch' \in [Batches -> States]
      BY <1>1 DEF ProberInv, TaskInv, States
    <2>2. BatchesOK'
      <3> SUFFICES ASSUME NEW p \in Probes
                   PROVE  /\ batch'[p[1]] = "none" => pc'[p] = "none"
                          /\ batch'[p[1]] = "called" => pc'[p] = "created"
                          /\ batch'[p[1]] \in {"none", "called"} => p \notin cancelled'
        BY DEF BatchesOK
      <3>1. p[1] \in Batches
        BY ProbesAre
      <3> QED
        BY <1>1, <3>1 DEF ProberInv, TaskInv, BatchesOK, ProbesOf
    <2> QED
      BY <1>1, <2>1, <2>2 DEF ProberInv, TaskInv
  <1> QED
    BY <1>1, <1>8, <1>9 DEF ProberInv, RecordsOK, records

LEMMA ConcatIs ==
    ASSUME NEW s \in Seq(Probes), NEW t \in Seq(Probes)
    PROVE  /\ s \o t \in Seq(Probes)
           /\ Len(s) \in Nat
           /\ Len(s \o t) = Len(s) + Len(t)
           /\ \A i \in 1 .. Len(s) : (s \o t)[i] = s[i]
           /\ \A i \in Len(s) + 1 .. Len(s \o t) :
                 i - Len(s) \in 1 .. Len(t) /\ (s \o t)[i] = t[i - Len(s)]
  OBVIOUS

\* The first n probes of a batch take the free slots, the others queue up.
LEMMA StartStep ==
    ASSUME ProberAssumption, ProberInv, NEW b \in Batches, StartProbes(b)
    PROVE  ProberInv'
  <1> DEFINE n == IF Locked THEN 0 ELSE Least(free, Size[b])
             waiters == [i \in 1 .. Size[b] - n |-> <<b, n + i>>]
             started == {b} \X (1 .. n)
  <1>1. /\ batch[b] = "called" /\ batch' = [batch EXCEPT ![b] = "running"]
        /\ pc' = [p \in Probes |->
                    IF p[1] # b THEN pc[p]
                    ELSE IF p[2] <= n THEN "probing" ELSE "waiting"]
        /\ queue' = queue \o waiters
        /\ free' = free - n
        /\ UNCHANGED <<attempt, outcome, cancelled, records>>
    BY DEF StartProbes
  <1>2. free \in Nat /\ Size[b] \in Nat
    BY DEF ProberInv, SlotInv, ProberAssumption
  <1>3. /\ n \in Nat /\ n <= free /\ n <= Size[b]
        /\ ~Locked => n = free \/ n = Size[b]
    BY <1>2 DEF Least
  <1> HIDE DEF n
  <1>4. \A p \in Probes : p[1] = b => pc[p] = "created"
    BY <1>1 DEF ProberInv, TaskInv, BatchesOK
  <1>5. \A i \in 1 .. Size[b] : <<b, i>> \in Probes
    BY DEF Probes
  <1>6. pc' \in [Probes -> Awaits]
    BY <1>1 DEF ProberInv, SlotInv, Awaits
  <1>7. \A i \in 1 .. Len(queue) : queue[i] \in Probes /\ pc[queue[i]] = "waiting"
    BY DEF ProberInv, SlotInv, QueueOK
  <1>8. \A i \in 1 .. Len(queue) : queue[i][1] # b
    BY <1>4, <1>7
  <1>9. /\ waiters \in Seq(Probes)
        /\ Len(waiters) = Size[b] - n
        /\ \A i \in 1 .. Len(waiters) : /\ waiters[i] = <<b, n + i>>
                                        /\ n + i \in 1 .. Size[b]
                                        /\ n + i > n
    <2>1. Size[b] - n \in Nat
      BY <1>2, <1>3
    <2>2. \A i \in 1 .. Size[b] - n : n + i \in 1 .. Size[b] /\ n + i > n
      BY <1>2, <1>3
    <2> QED
      BY <1>5, <2>1, <2>2
  <1> HIDE DEF waiters
  <1>10. /\ queue' \in Seq(Probes)
         /\ Len(queue) \in Nat
         /\ Len(queue') = Len(queue) + Len(waiters)
         /\ \A i \in 1 .. Len(queue) : queue'[i] = queue[i]
         /\ \A i \in Len(queue) + 1 .. Len(queue') :
               i - Len(queue) \in 1 .. Len(waiters) /\ queue'[i] = waiters[i - Len(queue)]
    <2>1. queue \in Seq(Probes) /\ queue' = queue \o waiters
      BY <1>1 DEF ProberInv, SlotInv
    <2> QED
      BY <1>9, <2>1, ConcatIs
  <1>11. \A i \in 1 .. Len(queue') : i \in 1 .. Len(queue) \/ i \in Len(queue) + 1 .. Len(queue')
    BY <1>10
  <1>12. \A i \in Len(queue) + 1 .. Len(queue') :
            /\ queue'[i] = <<b, n + (i - Len(queue))>>
            /\ queue'[i] \in Probes
            /\ pc'[queue'[i]] = "waiting"
    <2> TAKE i \in Len(queue) + 1 .. Len(queue')
    <2>1. /\ queue'[i] = <<b, n + (i - Len(queue))>>
          /\ n + (i - Len(queue)) \in 1 .. Size[b]
          /\ n + (i - Len(queue)) > n
      BY <1>9, <1>10
    <2>2. queue'[i] \in Probes
      BY <1>5, <2>1
    <2>3. ~(n + (i - Len(queue)) <= n)
      BY <1>3, <2>1
    <2> QED
      BY <1>1, <2>1, <2>2, <2>3
  <1>13. QueueOK'
    <2>1. \A i \in 1 .. Len(queue') : pc'[queue'[i]] = "waiting" /\ queue'[i] \notin cancelled
      <3> TAKE i \in 1 .. Len(queue')
      <3>1. CASE i \in 1 .. Len(queue)
        BY <1>1, <1>7, <1>8, <1>10, <3>1 DEF ProberInv, SlotInv, QueueOK
      <3>2. CASE i \in Len(queue) + 1 .. Len(queue')
        <4>1. queue'[i] \in Probes /\ queue'[i][1] = b /\ pc'[queue'[i]] = "waiting"
          BY <1>12, <3>2
        <4> QED
          BY <1>1, <4>1 DEF ProberInv, TaskInv, BatchesOK
      <3> QED
        BY <1>11, <3>1, <3>2
    <2>2. ASSUME NEW i \in 1 .. Len(queue'), NEW j \in 1 .. Len(queue'),
                 queue'[i] = queue'[j]
          PROVE  i = j
      <3>1. CASE i \in 1 .. Len(queue) /\ j \in 1 .. Len(queue)
        BY <1>10, <2>2, <3>1 DEF ProberInv, SlotInv, QueueOK
      <3>2. CASE i \in Len(queue) + 1 .. Len(queue') /\ j \in Len(queue) + 1 .. Len(queue')
        <4>1. <<b, n + (i - Len(queue))>> = <<b, n + (j - Len(queue))>>
          BY <1>12, <2>2, <3>2
        <4>2. n + (i - Len(queue)) = n + (j - Len(queue))
          BY <4>1
        <4> QED
          BY <1>3, <1>10, <4>2
      <3>3. \A k \in 1 .. Len(queue) : queue'[k][1] # b
        BY <1>8, <1>10
      <3>4. \A k \in Len(queue) + 1 .. Len(queue') : queue'[k][1] = b
        BY <1>12
      <3> QED
        BY <1>11, <2>2, <3>1, <3>2, <3>3, <3>4
    <2> QED
      BY <1>1, <2>1, <2>2 DEF QueueOK
  <1>14. free' + Cardinality(Holders') = MAX_CONCURRENT
    <2>1. Holders' = Holders \cup started
      <3>1. \A p \in Probes : p[1] = b => p = <<b, p[2]>> /\ p[2] \in 1 .. Size[b]
        BY ProbesAre
      <3>2. started \subseteq Probes
        BY <1>2, <1>3, <1>5
      <3>3. \A p \in Probes : p \in Holders' <=> p \in Holders \/ p \in started
        <4> SUFFICES ASSUME NEW p \in Probes
                     PROVE  p \in Holders' <=> p \in Holders \/ p \in started
          OBVIOUS
        <4>1. CASE p[1] # b
          BY <1>1, <4>1 DEF Holders
        <4>2. CASE p[1] = b
          <5>1. p \notin Holders
            BY <1>4, <4>2 DEF Holders, InSlot
          <5>2. p \in Holders' <=> p[2] <= n
            BY <1>1, <4>2 DEF Holders, InSlot
          <5>3. p \in started <=> p[2] \in 1 .. n
            BY <3>1, <4>2
          <5> QED
            BY <1>2, <1>3, <3>1, <4>2, <5>1, <5>2, <5>3
        <4> QED
          BY <4>1, <4>2
      <3> QED
        BY <3>2, <3>3 DEF Holders
    <2>2. Holders \cap started = {}
      BY <1>4 DEF Holders, InSlot
    <2>3. IsFiniteSet(started) /\ Cardinality(started) = n
      <3>1. IsFiniteSet(1 .. n) /\ Cardinality(1 .. n) = n
        <4>1. 1 \in Int /\ n \in Int /\ n \in Nat
          BY <1>3
        <4> QED
          BY ONLY <4>1, FS_Interval
      <3>2. IsFiniteSet({b}) /\ Cardinality({b}) = 1
        BY ONLY FS_Singleton
      <3>3. /\ IsFiniteSet({b} \X (1 .. n))
            /\ Cardinality({b} \X (1 .. n)) = Cardinality({b}) * Cardinality(1 .. n)
        BY ONLY <3>1, <3>2, FS_Product
      <3> QED
        BY <1>3, <3>1, <3>2, <3>3
    <2>4. IsFiniteSet(Holders) /\ Cardinality(Holders) \in Nat
      BY ProbesFinite
    <2>5. Cardinality(Holders \cup started) = Cardinality(Holders) + n - 0
      BY <2>2, <2>3, <2>4, FS_Union, FS_EmptySet
    <2> QED
      BY <1>1, <1>2, <1>3, <2>1, <2>4, <2>5 DEF ProberInv, SlotInv
  <1>15. SomebodyWakes'
    <2> SUFFICES ASSUME free' > 0, queue' # <<>>
                 PROVE  \E p \in Probes : pc'[p] = "granted"
      BY DEF SomebodyWakes
    <2>1. Locked
      <3> SUFFICES ASSUME ~Locked PROVE FALSE
        OBVIOUS
      <3>1. queue = <<>>
        BY DEF Locked
      <3>2. n = Size[b]
        BY <1>1, <1>2, <1>3
      <3>3. Len(queue') = 0
        BY <1>2, <1>9, <1>10, <3>1, <3>2
      <3> QED
        BY <1>10, <3>3
    <2>2. free > 0
      BY <1>1, <1>2, <1>3
    <2>3. PICK p \in Probes : pc[p] = "granted"
      BY <2>1, <2>2 DEF Locked, ProberInv, SlotInv, SomebodyWakes
    <2>4. p[1] # b
      BY <1>4, <2>3
    <2> QED
      BY <1>1, <2>3, <2>4
  <1>16. SlotInv'
    BY <1>1, <1>2, <1>3, <1>6, <1>10, <1>13, <1>14, <1>15 DEF SlotInv
  <1>17. TaskInv'
    <2>1. batch' \in [Batches -> States]
      BY <1>1 DEF ProberInv, TaskInv, States
    <2>2. BatchesOK'
      <3> SUFFICES ASSUME NEW p \in Probes
                   PROVE  /\ batch'[p[1]] = "none" => pc'[p] = "none"
                          /\ batch'[p[1]] = "called" => pc'[p] = "created"
                          /\ batch'[p[1]] \in {"none", "called"} => p \notin cancelled'
        BY DEF BatchesOK
      <3>1. p[1] \in Batches
        BY ProbesAre
      <3> QED
        BY <1>1, <3>1 DEF ProberInv, TaskInv, BatchesOK
    <2> QED
      BY <1>1, <2>1, <2>2 DEF ProberInv, TaskInv
  <1> QED
    BY <1>1, <1>16, <1>17 DEF ProberInv, RecordsOK, records

\* A cancelled batch leaves the queue; what remains keeps its order.
LEMMA CancelStep ==
    ASSUME ProberInv, NEW b \in Batches, CancelBatch(b)
    PROVE  ProberInv'
  <1> DEFINE kept == {i \in DOMAIN queue : queue[i] \notin ProbesOf(b)}
             places == 1 .. Cardinality(kept)
  <1>1. /\ batch' = [batch EXCEPT ![b] = "cancelled"]
        /\ cancelled' \subseteq cancelled \cup ProbesOf(b)
        /\ queue' \in Without(ProbesOf(b))
        /\ UNCHANGED <<pc, attempt, outcome, free, records>>
    BY DEF CancelBatch
  <1>2. PICK f \in [places -> kept] :
            /\ \A i, j \in places : i < j => f[i] < f[j]
            /\ queue' = [i \in places |-> queue[f[i]]]
    BY <1>1 DEF Without
  <1>3. queue \in Seq(Probes) /\ kept \subseteq 1 .. Len(queue) /\ Len(queue) \in Nat
    BY DEF ProberInv, SlotInv
  <1>4. Cardinality(kept) \in Nat
    <2>1. IsFiniteSet(1 .. Len(queue))
      <3>1. 1 \in Int /\ Len(queue) \in Int
        BY <1>3
      <3> QED
        BY ONLY <3>1, FS_Interval
    <2> QED
      BY <1>3, <2>1, FS_Subset, FS_CardinalityType
  <1>5. \A i \in places : f[i] \in 1 .. Len(queue) /\ queue[f[i]] \notin ProbesOf(b)
    BY <1>2
  <1> HIDE DEF kept
  <1>6. queue' \in Seq(Probes) /\ Len(queue') = Cardinality(kept)
    BY <1>2, <1>3, <1>4, <1>5
  <1>7. QueueOK'
    <2>1. \A i \in 1 .. Len(queue') : pc'[queue'[i]] = "waiting" /\ queue'[i] \notin cancelled'
      BY <1>1, <1>2, <1>5, <1>6 DEF ProberInv, SlotInv, QueueOK
    <2>2. ASSUME NEW i \in places, NEW j \in places, queue'[i] = queue'[j]
          PROVE  i = j
      <3>1. f[i] = f[j]
        BY <1>2, <1>5, <2>2 DEF ProberInv, SlotInv, QueueOK
      <3>2. f[i] \in Nat /\ f[j] \in Nat /\ i \in Nat /\ j \in Nat
        BY <1>3, <1>4, <1>5
      <3> QED
        BY <1>2, <3>1, <3>2
    <2> QED
      BY <1>6, <2>1, <2>2 DEF QueueOK
  <1>8. SomebodyWakes'
    <2>1. queue' # <<>> => queue # <<>>
      <3> SUFFICES ASSUME queue = <<>> PROVE queue' = <<>>
        OBVIOUS
      <3>1. Len(queue) = 0
        OBVIOUS
      <3>2. \A i \in places : FALSE
        BY <1>5, <3>1
      <3>3. Cardinality(kept) = 0
        BY <1>4, <3>2
      <3> QED
        BY <1>6, <3>3
    <2> QED
      BY <1>1, <2>1 DEF ProberInv, SlotInv, SomebodyWakes
  <1>9. Holders' = Holders
    BY <1>1 DEF Holders
  <1>10. TaskInv'
    <2>1. batch' \in [Batches -> States]
      BY <1>1 DEF ProberInv, TaskInv, States
    <2>2. BatchesOK'
      <3> SUFFICES ASSUME NEW p \in Probes
                   PROVE  /\ batch'[p[1]] = "none" => pc'[p] = "none"
                          /\ batch'[p[1]] = "called" => pc'[p] = "created"
                          /\ batch'[p[1]] \in {"none", "called"} => p \notin cancelled'
        BY DEF BatchesOK
      <3>1. p[1] \in Batches
        BY ProbesAre
      <3> QED
        BY <1>1, <3>1 DEF ProberInv, TaskInv, BatchesOK, ProbesOf
    <2>3. cancelled' \subseteq Probes
      BY <1>1 DEF ProberInv, TaskInv, ProbesOf
    <2> QED
      BY <1>1, <2>1, <2>2, <2>3 DEF ProberInv, TaskInv
  <1> QED
    BY <1>1, <1>6, <1>7, <1>8, <1>9, <1>10 DEF ProberInv, SlotInv, RecordsOK, records

LEMMA EndStep ==
    ASSUME ProberInv, NEW b \in Batches, BatchEnds(b)
    PROVE  ProberInv'
  <1>1. /\ batch[b] \in {"running", "cancelled"}
        /\ \E state \in {"returned", "ended"} : batch' = [batch EXCEPT ![b] = state]
        /\ UNCHANGED <<pc, attempt, outcome, cancelled, semaphore, records>>
    BY DEF BatchEnds
  <1>2. SlotInv'
    BY <1>1 DEF ProberInv, SlotInv, SomebodyWakes, QueueOK, Holders, semaphore
  <1>3. TaskInv'
    <2>1. batch' \in [Batches -> States]
      BY <1>1 DEF ProberInv, TaskInv, States
    <2>2. BatchesOK'
      BY <1>1, ProbesAre DEF ProberInv, TaskInv, BatchesOK
    <2> QED
      BY <1>1, <2>1, <2>2 DEF ProberInv, TaskInv
  <1> QED
    BY <1>1, <1>2, <1>3 DEF ProberInv, RecordsOK, records

\* A probe that was given its slot runs, and wakes another one if it can.
LEMMA EnterStep ==
    ASSUME ProberAssumption, ProberInv, NEW p \in Probes, Enter(p)
    PROVE  ProberInv'
  <1> DEFINE moved == MoveTo(p, "probing")
  <1>1. /\ pc[p] = "granted" /\ Wake(moved, free)
        /\ UNCHANGED <<batch, attempt, outcome, cancelled, records>>
    BY DEF Enter
  <1>2. /\ moved \in [Probes -> Awaits]
        /\ moved[p] = "probing"
        /\ \A q \in Probes \ {p} : moved[q] = pc[q]
    BY DEF ProberInv, SlotInv, MoveTo, Awaits
  <1> HIDE DEF moved
  <1>3. {q \in Probes : moved[q] \in InSlot} = Holders
    BY <1>1, <1>2 DEF Holders, InSlot
  <1>4. \A i \in 1 .. Len(queue) : moved[queue[i]] = "waiting"
    <2>1. \A i \in 1 .. Len(queue) : queue[i] \in Probes \ {p}
      BY <1>1 DEF ProberInv, SlotInv, QueueOK
    <2> QED
      BY <1>2, <2>1 DEF ProberInv, SlotInv, QueueOK
  <1>5. /\ SlotInv'
        /\ \A q \in Probes : \/ pc'[q] = moved[q]
                             \/ moved[q] = "waiting" /\ pc'[q] = "granted"
    <2>1. free \in Nat /\ free + Cardinality(Holders) = MAX_CONCURRENT
      BY DEF ProberInv, SlotInv
    <2> QED
      BY <1>1, <1>2, <1>3, <1>4, <2>1, WakeStep DEF ProberInv
  <1>6. TaskInv'
    BY <1>1, <1>2, <1>5 DEF ProberInv, TaskInv, BatchesOK
  <1> QED
    BY <1>1, <1>5, <1>6 DEF ProberInv, RecordsOK, records

-----------------------------------------------------------------------------
\* _send_probe under wait_for.
LEMMA AttemptStep ==
    ASSUME ProberAssumption, ProberInv, NEW p \in Probes,
           NotConnected(p) \/ Answered(p) \/ TimesOut(p) \/ Closed(p)
    PROVE  ProberInv'
  <1>1. UNCHANGED <<batch, attempt, records>>
    BY DEF NotConnected, Answered, TimesOut, Closed
  <1>2. RecordsOK'
    BY <1>1 DEF ProberInv, RecordsOK, records
  <1>3. ASSUME NEW o \in Outcomes
        PROVE  [outcome EXCEPT ![p] = o] \in [Probes -> Outcomes]
    BY DEF ProberInv, TaskInv
  <1>4. CASE NotConnected(p)
    BY <1>1, <1>2, <1>3, <1>4, MoveStep
    DEF NotConnected, SetOutcome, ProberInv, InSlot, Outcomes, Failures
  <1>5. CASE Answered(p)
    BY <1>1, <1>2, <1>3, <1>5, MoveStep
    DEF Answered, SetOutcome, ProberInv, InSlot, Outcomes, Failures
  <1>6. CASE TimesOut(p)
    BY <1>1, <1>2, <1>3, <1>6, MoveStep
    DEF TimesOut, SetOutcome, ProberInv, InSlot, Outcomes, Failures
  <1>7. CASE Closed(p)
    <2>1. CASE pc' = MoveTo(p, "answered") /\ UNCHANGED <<outcome, cancelled, semaphore>>
      BY <1>1, <1>2, <1>7, <2>1, MoveStep DEF Closed, ProberInv, TaskInv, InSlot
    <2>2. CASE Leave(p)
      BY <1>1, <1>2, <1>7, <2>2, LeaveStep DEF Closed, ProberInv, InSlot
    <2> QED
      BY <1>7, <2>1, <2>2 DEF Closed
  <1> QED
    BY <1>4, <1>5, <1>6, <1>7

\* probe_device after an attempt.
LEMMA ConcludesStep ==
    ASSUME ProberAssumption, ProberInv, NEW p \in Probes, Concludes(p)
    PROVE  ProberInv'
  <1>1. pc[p] = "answered" /\ pc[p] \in InSlot \ {"granted"} /\ UNCHANGED batch
    BY DEF Concludes, InSlot
  <1>2. CASE Identified(p)
    <2>1. RecordsOK'
      BY <1>2 DEF Identified, ProberInv, RecordsOK, Results
    <2> QED
      BY <1>1, <1>2, <2>1, MoveStep DEF Identified, ProberInv, TaskInv, InSlot, semaphore
  <1>3. CASE NoIdentity(p)
    <2>1. RecordsOK'
      BY <1>3 DEF NoIdentity, ProberInv, RecordsOK, Results
    <2> QED
      BY <1>1, <1>3, <2>1, LeaveStep DEF NoIdentity, ProberInv
  <1>4. CASE Retry(p)
    <2>1. RecordsOK'
      <3>1. attempt[p] \in 0 .. MAX_RETRIES /\ attempt[p] < MAX_RETRIES
        BY <1>4 DEF Retry, ProberInv, RecordsOK
      <3>2. attempt' = [attempt EXCEPT ![p] = attempt[p] + 1]
        BY <1>4 DEF Retry
      <3>3. attempt[p] + 1 \in 0 .. MAX_RETRIES
        BY <3>1 DEF ProberAssumption
      <3> QED
        BY <1>4, <3>2, <3>3 DEF Retry, ProberInv, RecordsOK, records
    <2>2. outcome' \in [Probes -> Outcomes]
      BY <1>4 DEF Retry, SetOutcome, ProberInv, TaskInv, Outcomes
    <2> QED
      BY <1>1, <1>4, <2>1, <2>2, MoveStep DEF Retry, ProberInv, InSlot
  <1>5. CASE GiveUp(p)
    <2>1. RecordsOK'
      BY <1>5 DEF GiveUp, ProberInv, RecordsOK, Results
    <2> QED
      BY <1>1, <1>5, <2>1, MoveStep DEF GiveUp, ProberInv, TaskInv, InSlot
  <1> QED
    BY <1>2, <1>3, <1>4, <1>5 DEF Concludes

LEMMA CancelledStep ==
    ASSUME ProberAssumption, ProberInv, NEW p \in Probes, Cancelled(p)
    PROVE  ProberInv'
  <1>1. p \in cancelled /\ UNCHANGED <<batch, attempt, records>>
    BY DEF Cancelled
  <1>2. RecordsOK'
    BY <1>1 DEF ProberInv, RecordsOK, records
  <1>3. CASE /\ pc[p] \in {"created", "waiting"}
             /\ pc' = MoveTo(p, "done")
             /\ cancelled' = cancelled \ {p}
             /\ UNCHANGED <<outcome, semaphore>>
    <2>1. /\ pc' \in [Probes -> Awaits]
          /\ pc'[p] = "done"
          /\ \A q \in Probes \ {p} : pc'[q] = pc[q]
      BY <1>3 DEF ProberInv, SlotInv, MoveTo, Awaits
    <2>2. Holders' = Holders
      BY <1>3, <2>1 DEF Holders, InSlot
    <2>3. QueueOK'
      <3>1. \A i \in 1 .. Len(queue) : queue[i] \in Probes \ {p}
        BY <1>1 DEF ProberInv, SlotInv, QueueOK
      <3> QED
        BY <1>3, <2>1, <3>1 DEF ProberInv, SlotInv, QueueOK, semaphore
    <2>4. SomebodyWakes'
      BY <1>3, <2>1 DEF ProberInv, SlotInv, SomebodyWakes, semaphore
    <2>5. BatchesOK'
      <3>1. batch[p[1]] \notin {"none", "called"}
        BY <1>1 DEF ProberInv, TaskInv, BatchesOK
      <3> QED
        BY <1>1, <1>3, <2>1, <3>1 DEF ProberInv, TaskInv, BatchesOK
    <2> QED
      BY <1>1, <1>2, <1>3, <2>1, <2>2, <2>3, <2>4, <2>5
      DEF ProberInv, SlotInv, TaskInv, semaphore
  <1>4. CASE /\ pc[p] = "probing"
             /\ pc' = MoveTo(p, "closing")
             /\ SetOutcome(p, "cancelled")
             /\ UNCHANGED <<cancelled, semaphore>>
    <2>1. outcome' \in [Probes -> Outcomes]
      BY <1>4 DEF SetOutcome, ProberInv, TaskInv, Outcomes
    <2> QED
      BY <1>1, <1>2, <1>4, <2>1, MoveStep DEF ProberInv, InSlot
  <1>5. CASE pc[p] \in InSlot /\ Leave(p)
    BY <1>1, <1>2, <1>5, LeaveStep DEF ProberInv
  <1> QED
    BY <1>3, <1>4, <1>5 DEF Cancelled

LEMMA CallbackStep ==
    ASSUME ProberAssumption, ProberInv, NEW p \in Probes, CallbackEnds(p)
    PROVE  ProberInv'
  <1>1. pc[p] \in InSlot /\ Leave(p) /\ UNCHANGED <<batch, attempt, records>>
    BY DEF CallbackEnds, InSlot
  <1>2. RecordsOK'
    BY <1>1 DEF ProberInv, RecordsOK, records
  <1> QED
    BY <1>1, <1>2, LeaveStep DEF ProberInv

LEMMA ProberNext ==
    ASSUME ProberAssumption, ProberInv, [Next]_vars
    PROVE  ProberInv'
  <1>1. CASE UNCHANGED vars
    BY <1>1 DEF vars, semaphore, records, ProberInv, SlotInv, TaskInv, RecordsOK,
                Holders, SomebodyWakes, QueueOK, BatchesOK
  <1>2. CASE Next
    BY <1>2, CallStep, StartStep, CancelStep, EndStep, EnterStep, AttemptStep,
       ConcludesStep, CancelledStep, CallbackStep DEF Next, ProbeStep
  <1> QED
    BY <1>1, <1>2

LEMMA ProberInvariant == Spec => []ProberInv
  <1>1. Init => ProberInv
    BY ProberInit, ProberAssumption
  <1>2. ProberInv /\ [Next]_vars => ProberInv'
    BY ProberNext, ProberAssumption
  <1> QED
    BY <1>1, <1>2, PTL DEF Spec

\* Each slot of the semaphore is free or held by exactly one probe, whatever
\* raises, times out or is cancelled, and no slot stays free while a probe
\* waits and nobody is about to wake it (probe_batch, Requirement 3.9).
THEOREM NoSlotIsLost == Spec => []SlotsExact
  <1>1. ProberInv => SlotsExact
    BY DEF ProberInv, SlotInv, TaskInv, RecordsOK, SlotsExact, TypeOK, SomebodyWakes, States
  <1> QED
    BY <1>1, ProberInvariant, PTL

-----------------------------------------------------------------------------
(***************************************************************************)
(* One verdict.  A probe has none before its attempts are over, and has    *)
(* one when it leaves its slot in a batch that is not cancelled: only      *)
(* CancelledError takes it out of the slot otherwise.                      *)
(***************************************************************************)
Concluded == {"delivering", "recording", "done"}

VerdictOf(p) ==
    /\ pc[p] \notin Concluded => result[p] = "none"
    /\ pc[p] \in {"delivering", "recording"} => result[p] # "none"
    /\ pc[p] = "done" /\ batch[p[1]] \in {"running", "returned"} => result[p] # "none"
    /\ batch[p[1]] = "returned" => pc[p] = "done"
    /\ p \in cancelled => batch[p[1]] \in {"cancelled", "ended"}
    /\ outcome[p] = "cancelled" => p \in cancelled
    /\ recorded[p] = IF result[p] \in {"timeout", "error"} THEN 1 ELSE 0
    /\ delivered[p] = IF result[p] = "identified" THEN 1 ELSE 0

VerdictInv == \A p \in Probes : VerdictOf(p)

LEMMA VerdictInit ==
    ASSUME Init
    PROVE  VerdictInv
  BY ProbesAre DEF Init, VerdictInv, VerdictOf

\* A step of one probe may wake another one.
LEMMA OthersKeepTheirs ==
    ASSUME VerdictInv, NEW p \in Probes, VerdictOf(p)', UNCHANGED batch,
           \A q \in Probes \ {p} :
              /\ \/ pc'[q] = pc[q]
                 \/ pc[q] = "waiting" /\ pc'[q] = "granted"
              /\ result'[q] = result[q] /\ outcome'[q] = outcome[q]
              /\ recorded'[q] = recorded[q] /\ delivered'[q] = delivered[q]
              /\ q \in cancelled' <=> q \in cancelled
    PROVE  VerdictInv'
  <1> SUFFICES ASSUME NEW q \in Probes \ {p} PROVE VerdictOf(q)'
    BY DEF VerdictInv
  <1> QED
    BY DEF VerdictInv, VerdictOf, Concluded

LEMMA BatchVerdicts ==
    ASSUME ProberInv, VerdictInv, NEW b \in Batches,
           CallBatch(b) \/ StartProbes(b) \/ CancelBatch(b) \/ BatchEnds(b)
    PROVE  VerdictInv'
  <1>1. UNCHANGED <<outcome, result, recorded, delivered>>
    BY DEF CallBatch, StartProbes, CancelBatch, BatchEnds, records
  <1>2. \A q \in Probes : q[1] \in Batches
    BY ProbesAre
  <1>3. CASE CallBatch(b)
    <2>1. \A q \in Probes : q[1] = b => pc[q] = "none" /\ q \notin cancelled
      BY <1>3 DEF CallBatch, ProberInv, TaskInv, BatchesOK
    <2> SUFFICES ASSUME NEW q \in Probes PROVE VerdictOf(q)'
      BY DEF VerdictInv
    <2> QED
      BY <1>1, <1>2, <1>3, <2>1
      DEF CallBatch, ProberInv, TaskInv, VerdictInv, VerdictOf, Concluded, ProbesOf
  <1>4. CASE StartProbes(b)
    <2>1. \A q \in Probes : q[1] = b => pc[q] = "created" /\ q \notin cancelled
      BY <1>4 DEF StartProbes, ProberInv, TaskInv, BatchesOK
    <2>2. \A q \in Probes : IF q[1] = b THEN pc'[q] \in {"probing", "waiting"}
                                        ELSE pc'[q] = pc[q]
      BY <1>4 DEF StartProbes
    <2>3. /\ batch' = [batch EXCEPT ![b] = "running"] /\ cancelled' = cancelled
          /\ batch \in [Batches -> States]
      BY <1>4 DEF StartProbes, ProberInv, TaskInv
    <2> SUFFICES ASSUME NEW q \in Probes PROVE VerdictOf(q)'
      BY DEF VerdictInv
    <2> QED
      BY <1>1, <1>2, <2>1, <2>2, <2>3 DEF VerdictInv, VerdictOf, Concluded
  <1>5. CASE CancelBatch(b)
    <2>1. /\ batch' = [batch EXCEPT ![b] = "cancelled"]
          /\ cancelled \subseteq cancelled'
          /\ cancelled' \subseteq cancelled \cup ProbesOf(b)
          /\ pc' = pc
          /\ batch \in [Batches -> States]
      BY <1>5 DEF CancelBatch, ProberInv, TaskInv
    <2> SUFFICES ASSUME NEW q \in Probes PROVE VerdictOf(q)'
      BY DEF VerdictInv
    <2> QED
      BY <1>1, <1>2, <2>1 DEF VerdictInv, VerdictOf, Concluded, ProbesOf
  <1>6. CASE BatchEnds(b)
    <2>1. /\ batch[b] \in {"running", "cancelled"}
          /\ batch' = [batch EXCEPT ![b] = IF batch[b] = "running" THEN "returned" ELSE "ended"]
          /\ \A q \in Probes : q[1] = b => pc[q] = "done"
          /\ UNCHANGED <<pc, cancelled>>
          /\ batch \in [Batches -> States]
      BY <1>6 DEF BatchEnds, ProbesOf, ProberInv, TaskInv
    <2> SUFFICES ASSUME NEW q \in Probes PROVE VerdictOf(q)'
      BY DEF VerdictInv
    <2> QED
      BY <1>1, <1>2, <2>1 DEF VerdictInv, VerdictOf, Concluded
  <1> QED
    BY <1>3, <1>4, <1>5, <1>6

\* The steps of a probe that move nobody else.
LEMMA OwnStep ==
    ASSUME ProberInv, VerdictInv, NEW p \in Probes, NEW state, NEW o,
           pc' = MoveTo(p, state), outcome' = [outcome EXCEPT ![p] = o],
           UNCHANGED <<batch, cancelled>>,
           \A q \in Probes \ {p} :
              /\ result'[q] = result[q]
              /\ recorded'[q] = recorded[q] /\ delivered'[q] = delivered[q],
           state # "done", batch[p[1]] # "returned",
           state \notin Concluded <=> result'[p] = "none",
           o = "cancelled" => p \in cancelled,
           recorded'[p] = IF result'[p] \in {"timeout", "error"} THEN 1 ELSE 0,
           delivered'[p] = IF result'[p] = "identified" THEN 1 ELSE 0
    PROVE  VerdictInv'
  <1>1. /\ pc'[p] = state /\ outcome'[p] = o
        /\ \A q \in Probes \ {p} : pc'[q] = pc[q] /\ outcome'[q] = outcome[q]
    BY DEF ProberInv, SlotInv, TaskInv, MoveTo
  <1>2. VerdictOf(p)'
    BY <1>1 DEF VerdictInv, VerdictOf, Concluded
  <1> QED
    BY <1>1, <1>2, OthersKeepTheirs

\* The end of a probe that has its verdict, or whose batch is cancelled.
LEMMA LastStep ==
    ASSUME ProberAssumption, ProberInv, VerdictInv, NEW p \in Probes,
           pc[p] \in InSlot, Leave(p), UNCHANGED batch,
           \A q \in Probes \ {p} : result'[q] = result[q],
           UNCHANGED <<recorded, delivered>>,
           result'[p] # "none" \/ p \in cancelled,
           result'[p] = result[p] \/ (result[p] = "none" /\ result'[p] = "no_identity")
    PROVE  VerdictInv'
  <1>1. /\ pc'[p] = "done"
        /\ \A q \in Probes \ {p} : \/ pc'[q] = pc[q]
                                   \/ pc[q] = "waiting" /\ pc'[q] = "granted"
    BY LeaveStep
  <1>2. /\ outcome'[p] = "none" /\ cancelled' = cancelled \ {p}
        /\ \A q \in Probes \ {p} : outcome'[q] = outcome[q]
    BY DEF Leave, SetOutcome, ProberInv, TaskInv
  <1>3. VerdictOf(p)'
    BY <1>1, <1>2 DEF VerdictInv, VerdictOf, Concluded
  <1> QED
    BY <1>1, <1>2, <1>3, OthersKeepTheirs

LEMMA AttemptVerdicts ==
    ASSUME ProberAssumption, ProberInv, VerdictInv, NEW p \in Probes,
           NotConnected(p) \/ Answered(p) \/ TimesOut(p) \/ Closed(p)
    PROVE  VerdictInv'
  <1>1. UNCHANGED <<batch, records>> /\ pc[p] \in {"probing", "closing"}
    BY DEF NotConnected, Answered, TimesOut, Closed
  <1>2. /\ result[p] = "none" /\ result'[p] = "none"
        /\ batch[p[1]] # "returned"
        /\ recorded'[p] = 0 /\ delivered'[p] = 0
    BY <1>1 DEF VerdictInv, VerdictOf, Concluded, records
  <1>3. outcome = [outcome EXCEPT ![p] = outcome[p]]
    BY DEF ProberInv, TaskInv
  <1>4. ASSUME NEW state \in {"closing", "answered"}, NEW o,
               pc' = MoveTo(p, state), outcome' = [outcome EXCEPT ![p] = o],
               UNCHANGED cancelled, o = "cancelled" => p \in cancelled
        PROVE  VerdictInv'
    BY <1>1, <1>2, <1>4, OwnStep DEF Concluded, records
  <1>5. CASE NotConnected(p)
    BY <1>4, <1>5 DEF NotConnected, SetOutcome
  <1>6. CASE Answered(p)
    BY <1>4, <1>6 DEF Answered, SetOutcome
  <1>7. CASE TimesOut(p)
    BY <1>4, <1>7 DEF TimesOut, SetOutcome
  <1>8. CASE Closed(p)
    <2>1. CASE pc' = MoveTo(p, "answered") /\ UNCHANGED <<outcome, cancelled, semaphore>>
      <3>1. outcome[p] = "cancelled" => p \in cancelled
        BY DEF VerdictInv, VerdictOf
      <3>2. outcome' = [outcome EXCEPT ![p] = outcome[p]]
        BY <1>3, <2>1
      <3> QED
        BY <1>4, <2>1, <3>1, <3>2
    <2>2. CASE outcome[p] = "cancelled" /\ Leave(p)
      <3>1. p \in cancelled
        BY <2>2 DEF VerdictInv, VerdictOf
      <3>2. pc[p] \in InSlot
        BY <1>1 DEF InSlot
      <3> QED
        BY <1>1, <2>2, <3>1, <3>2, LastStep DEF records
    <2> QED
      BY <1>8, <2>1, <2>2 DEF Closed
  <1> QED
    BY <1>5, <1>6, <1>7, <1>8

LEMMA Conclusions ==
    ASSUME ProberAssumption, ProberInv, VerdictInv, NEW p \in Probes, Concludes(p)
    PROVE  VerdictInv'
  <1>1. /\ pc[p] = "answered" /\ pc[p] \in InSlot /\ UNCHANGED batch
        /\ result[p] = "none" /\ recorded[p] = 0 /\ delivered[p] = 0
        /\ batch[p[1]] # "returned"
    BY DEF Concludes, InSlot, VerdictInv, VerdictOf, Concluded
  <1>2. /\ result \in [Probes -> Results]
        /\ delivered \in [Probes -> Nat] /\ recorded \in [Probes -> Nat]
        /\ outcome = [outcome EXCEPT ![p] = outcome[p]]
    BY DEF ProberInv, RecordsOK, TaskInv
  <1>3. CASE Identified(p)
    <2>1. /\ result'[p] = "identified" /\ delivered'[p] = 1 /\ recorded' = recorded
          /\ \A q \in Probes \ {p} : result'[q] = result[q] /\ delivered'[q] = delivered[q]
          /\ pc' = MoveTo(p, "delivering")
          /\ outcome' = [outcome EXCEPT ![p] = "identity"]
          /\ UNCHANGED cancelled
      BY <1>1, <1>2, <1>3 DEF Identified
    <2> QED
      BY <1>1, <2>1, OwnStep DEF Concluded
  <1>4. CASE NoIdentity(p)
    <2>1. /\ result'[p] = "no_identity"
          /\ \A q \in Probes \ {p} : result'[q] = result[q]
          /\ Leave(p) /\ UNCHANGED <<recorded, delivered>>
      BY <1>2, <1>4 DEF NoIdentity
    <2> QED
      BY <1>1, <2>1, LastStep
  <1>5. CASE Retry(p)
    <2>1. /\ pc' = MoveTo(p, "probing")
          /\ outcome' = [outcome EXCEPT ![p] = "none"]
          /\ UNCHANGED <<result, recorded, delivered, cancelled>>
      BY <1>5 DEF Retry, SetOutcome, records
    <2> QED
      BY <1>1, <2>1, OwnStep DEF Concluded
  <1>6. CASE GiveUp(p)
    <2>1. /\ result'[p] \in {"timeout", "error"} /\ recorded'[p] = 1
          /\ delivered' = delivered
          /\ \A q \in Probes \ {p} : result'[q] = result[q] /\ recorded'[q] = recorded[q]
          /\ pc' = MoveTo(p, "recording")
          /\ outcome' = [outcome EXCEPT ![p] = outcome[p]]
          /\ outcome[p] # "cancelled"
          /\ UNCHANGED cancelled
      BY <1>1, <1>2, <1>6 DEF GiveUp, Failures
    <2> QED
      BY <1>1, <2>1, OwnStep DEF Concluded
  <1> QED
    BY <1>3, <1>4, <1>5, <1>6 DEF Concludes

LEMMA EnterVerdicts ==
    ASSUME ProberAssumption, ProberInv, VerdictInv, NEW p \in Probes, Enter(p)
    PROVE  VerdictInv'
  <1>1. /\ pc[p] = "granted" /\ Wake(MoveTo(p, "probing"), free)
        /\ UNCHANGED <<batch, outcome, cancelled, records>>
    BY DEF Enter
  <1>2. /\ pc'[p] = "probing"
        /\ \A q \in Probes \ {p} : \/ pc'[q] = pc[q]
                                   \/ pc[q] = "waiting" /\ pc'[q] = "granted"
    <2>1. \A q \in Probes : MoveTo(p, "probing")[q] = IF q = p THEN "probing" ELSE pc[q]
      BY DEF ProberInv, SlotInv, MoveTo
    <2>2. /\ DOMAIN MoveTo(p, "probing") = Probes
          /\ DOMAIN pc = Probes
      BY DEF ProberInv, SlotInv, MoveTo
    <2>3. queue # <<>> => Head(queue) \in Probes \ {p} /\ pc[Head(queue)] = "waiting"
      <3> SUFFICES ASSUME queue # <<>>
                   PROVE  Head(queue) \in Probes \ {p} /\ pc[Head(queue)] = "waiting"
        OBVIOUS
      <3>1. queue \in Seq(Probes) /\ 1 \in 1 .. Len(queue) /\ Head(queue) = queue[1]
        BY DEF ProberInv, SlotInv
      <3>2. pc[queue[1]] = "waiting" /\ queue[1] \in Probes
        BY <3>1 DEF ProberInv, SlotInv, QueueOK
      <3> QED
        BY <1>1, <3>1, <3>2
    <2> QED
      BY <1>1, <2>1, <2>2, <2>3 DEF Wake
  <1>3. VerdictOf(p)'
    BY <1>1, <1>2 DEF VerdictInv, VerdictOf, Concluded, records
  <1> QED
    BY <1>1, <1>2, <1>3, OthersKeepTheirs DEF records

LEMMA CancelledVerdicts ==
    ASSUME ProberAssumption, ProberInv, VerdictInv, NEW p \in Probes, Cancelled(p)
    PROVE  VerdictInv'
  <1>1. /\ p \in cancelled /\ UNCHANGED <<batch, records>>
        /\ batch[p[1]] \in {"cancelled", "ended"}
        /\ outcome[p] # "cancelled"
    BY DEF Cancelled, VerdictInv, VerdictOf
  <1>2. CASE /\ pc[p] \in {"created", "waiting"}
             /\ pc' = MoveTo(p, "done")
             /\ cancelled' = cancelled \ {p}
             /\ UNCHANGED <<outcome, semaphore>>
    <2>1. pc'[p] = "done" /\ \A q \in Probes \ {p} : pc'[q] = pc[q]
      BY <1>2 DEF ProberInv, SlotInv, MoveTo
    <2>2. VerdictOf(p)'
      BY <1>1, <1>2, <2>1 DEF VerdictInv, VerdictOf, Concluded, records
    <2> QED
      BY <1>1, <1>2, <2>1, <2>2, OthersKeepTheirs DEF records
  <1>3. CASE /\ pc[p] = "probing"
             /\ pc' = MoveTo(p, "closing")
             /\ SetOutcome(p, "cancelled")
             /\ UNCHANGED <<cancelled, semaphore>>
    <2>1. result[p] = "none" /\ recorded[p] = 0 /\ delivered[p] = 0
      BY <1>3 DEF VerdictInv, VerdictOf, Concluded
    <2> QED
      BY <1>1, <1>3, <2>1, OwnStep DEF SetOutcome, Concluded, records
  <1>4. CASE pc[p] \in InSlot /\ Leave(p)
    BY <1>1, <1>4, LastStep DEF records
  <1> QED
    BY <1>2, <1>3, <1>4 DEF Cancelled

LEMMA CallbackVerdicts ==
    ASSUME ProberAssumption, ProberInv, VerdictInv, NEW p \in Probes, CallbackEnds(p)
    PROVE  VerdictInv'
  <1>1. /\ pc[p] \in InSlot /\ Leave(p) /\ UNCHANGED <<batch, records>>
        /\ result[p] # "none"
    BY DEF CallbackEnds, InSlot, VerdictInv, VerdictOf
  <1> QED
    BY <1>1, LastStep DEF records

LEMMA VerdictNext ==
    ASSUME ProberAssumption, ProberInv, VerdictInv, [Next]_vars
    PROVE  VerdictInv'
  <1>1. CASE UNCHANGED vars
    BY <1>1 DEF vars, records, VerdictInv, VerdictOf
  <1>2. CASE Next
    BY <1>2, BatchVerdicts, EnterVerdicts, AttemptVerdicts, Conclusions,
       CancelledVerdicts, CallbackVerdicts DEF Next, ProbeStep
  <1> QED
    BY <1>1, <1>2

\* A probe that fails has one entry in the scan history, however many of its
\* attempts failed; one that succeeds has none and passes its fingerprint on
\* once; and a batch that returns has a result for every target (probe_device,
\* probe_batch).
THEOREM OneVerdictPerProbe == Spec => []OneVerdict
  <1>1. Init => VerdictInv
    BY VerdictInit
  <1>2. ProberInv /\ VerdictInv /\ [Next]_vars => VerdictInv'
    BY VerdictNext, ProberAssumption
  <1>3. VerdictInv => OneVerdict
    BY DEF VerdictInv, VerdictOf, OneVerdict, ProbesOf
  <1> QED
    BY <1>1, <1>2, <1>3, ProberInvariant, PTL DEF Spec
=============================================================================
