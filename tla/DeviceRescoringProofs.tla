------------------------- MODULE DeviceRescoringProofs -------------------------
(***************************************************************************)
(* Theorems about module DeviceRescoring, for any tasks, devices,          *)
(* protocols, firmwares and severities, whether a vulnerability database   *)
(* is configured or not, and whatever it answers at each rescoring: a      *)
(* score settles at that of the device, and falls only for a reason.       *)
(***************************************************************************)
EXTENDS DeviceRescoring, FiniteSetTheorems, TLAPS

(***************************************************************************)
(* The scores: their range, and that they do not fall when protocols and   *)
(* peers are added and the database answers no less.                       *)
(***************************************************************************)
LEMMA RoundedGrows ==
    ASSUME NEW d \in {65, 100}, NEW m \in Nat, NEW n \in Nat, m <= n
    PROVE  /\ Rounded(m, d) \in Nat /\ Rounded(n, d) \in Nat
           /\ Rounded(m, d) <= Rounded(n, d)
  <1>1. CASE d = 65
    BY <1>1 DEF Rounded
  <1>2. CASE d = 100
    BY <1>2 DEF Rounded
  <1> QED
    BY <1>1, <1>2

LEMMA ProtocolScoreGrows ==
    ASSUME NEW ps, IsFiniteSet(ps), NEW qs \in SUBSET ps
    PROVE  /\ ProtocolSubScore(ps) \in Nat /\ ProtocolSubScore(qs) \in Nat
           /\ ProtocolSubScore(qs) <= ProtocolSubScore(ps)
  <1>1. /\ IsFiniteSet(ps \cap Secure) /\ IsFiniteSet(ps \ Secure)
        /\ qs \cap Secure \subseteq ps \cap Secure
        /\ qs \ Secure \subseteq ps \ Secure
    BY FS_Intersection, FS_Difference
  <1>2. /\ IsFiniteSet(qs \cap Secure) /\ IsFiniteSet(qs \ Secure)
        /\ Cardinality(qs \cap Secure) <= Cardinality(ps \cap Secure)
        /\ Cardinality(qs \ Secure) <= Cardinality(ps \ Secure)
    BY <1>1, FS_Subset
  <1>3. /\ Cardinality(ps \cap Secure) \in Nat /\ Cardinality(ps \ Secure) \in Nat
        /\ Cardinality(qs \cap Secure) \in Nat /\ Cardinality(qs \ Secure) \in Nat
    BY <1>1, <1>2, FS_CardinalityType
  <1> QED
    BY <1>2, <1>3 DEF ProtocolSubScore, Least

LEMMA ExposureType ==
    ASSUME NEW n
    PROVE  ExposureSubScore(n) \in Nat
  <1> DEFINE steps == {s \in PeerSteps : n > s}
  <1>1. IsFiniteSet(steps)
    BY FS_Subset, RescoringAssumption
  <1>2. Cardinality(steps) \in Nat
    BY <1>1, FS_CardinalityType
  <1> HIDE DEF steps
  <1>3. 25 + 25 * Cardinality(steps) \in Nat
    BY <1>2
  <1> QED
    BY <1>3 DEF ExposureSubScore, steps

LEMMA ExposureGrows ==
    ASSUME NEW m \in Nat, NEW n \in Nat, m <= n
    PROVE  ExposureSubScore(m) <= ExposureSubScore(n)
  <1> DEFINE few == {s \in PeerSteps : m > s}
             many == {s \in PeerSteps : n > s}
  <1>1. PeerSteps \subseteq Nat /\ IsFiniteSet(PeerSteps)
    BY RescoringAssumption
  <1>2. few \subseteq many /\ IsFiniteSet(many)
    <2>1. \A s \in PeerSteps : m > s => n > s
      BY <1>1
    <2>2. many \subseteq PeerSteps
      OBVIOUS
    <2> QED
      BY <1>1, <2>1, <2>2, FS_Subset
  <1> HIDE DEF few, many
  <1>3. IsFiniteSet(few) /\ Cardinality(few) <= Cardinality(many)
    BY <1>2, FS_Subset
  <1>4. Cardinality(few) \in Nat /\ Cardinality(many) \in Nat
    BY <1>2, <1>3, FS_CardinalityType
  <1>5. 25 + 25 * Cardinality(few) <= 25 + 25 * Cardinality(many)
        /\ 0 <= 25 + 25 * Cardinality(many)
    BY <1>3, <1>4
  <1> QED
    BY <1>5 DEF ExposureSubScore, few, many

Answers == (0 .. 100) \cup {NoAnswer}

LEMMA AnswersTyped ==
    ASSUME NEW f, NEW v \in VulnerabilitySubScores(f)
    PROVE  v \in Answers
  BY RescoringAssumption DEF VulnerabilitySubScores, Answers

\* Adding protocols or peers, or an answer that is not less, never lowers a
\* score.
LEMMA ScoreGrows ==
    ASSUME NEW ps, IsFiniteSet(ps), NEW qs \in SUBSET ps,
           NEW v \in Answers, NEW w \in Answers,
           v = w \/ (v # NoAnswer /\ w # NoAnswer /\ v <= w),
           NEW m \in Nat, NEW n \in Nat, m <= n
    PROVE  CalculateScore(qs, v, m) <= CalculateScore(ps, w, n)
  <1> DEFINE p1 == ProtocolSubScore(qs)
             p2 == ProtocolSubScore(ps)
             e1 == ExposureSubScore(m)
             e2 == ExposureSubScore(n)
  <1>1. p1 \in Nat /\ p2 \in Nat /\ p1 <= p2
    BY ProtocolScoreGrows
  <1>2. e1 \in Nat /\ e2 \in Nat /\ e1 <= e2
    BY ExposureType, ExposureGrows
  <1>3. (v # NoAnswer => v \in Nat) /\ (w # NoAnswer => w \in Nat)
    BY DEF Answers
  <1>4. /\ CalculateScore(qs, v, m) =
             Least(100, IF v = NoAnswer THEN Rounded(40 * p1 + 25 * e1, 65)
                        ELSE Rounded(40 * p1 + 35 * v + 25 * e1, 100))
        /\ CalculateScore(ps, w, n) =
             Least(100, IF w = NoAnswer THEN Rounded(40 * p2 + 25 * e2, 65)
                        ELSE Rounded(40 * p2 + 35 * w + 25 * e2, 100))
    BY DEF CalculateScore
  <1> HIDE DEF p1, p2, e1, e2
  <1>5. CASE v = NoAnswer
    <2>1. 40 * p1 + 25 * e1 \in Nat /\ 40 * p2 + 25 * e2 \in Nat
          /\ 40 * p1 + 25 * e1 <= 40 * p2 + 25 * e2
      BY <1>1, <1>2
    <2>2. /\ Rounded(40 * p1 + 25 * e1, 65) \in Nat
          /\ Rounded(40 * p2 + 25 * e2, 65) \in Nat
          /\ Rounded(40 * p1 + 25 * e1, 65) <= Rounded(40 * p2 + 25 * e2, 65)
      BY <2>1, RoundedGrows
    <2>3. w = NoAnswer
      BY <1>5
    <2> QED
      BY <1>4, <1>5, <2>2, <2>3 DEF Least
  <1>6. CASE v # NoAnswer
    <2>1. w # NoAnswer /\ v \in Nat /\ w \in Nat /\ v <= w
      BY <1>3, <1>6
    <2>2. /\ 40 * p1 + 35 * v + 25 * e1 \in Nat
          /\ 40 * p2 + 35 * w + 25 * e2 \in Nat
          /\ 40 * p1 + 35 * v + 25 * e1 <= 40 * p2 + 35 * w + 25 * e2
      BY <1>1, <1>2, <2>1
    <2>3. /\ Rounded(40 * p1 + 35 * v + 25 * e1, 100) \in Nat
          /\ Rounded(40 * p2 + 35 * w + 25 * e2, 100) \in Nat
          /\ Rounded(40 * p1 + 35 * v + 25 * e1, 100)
               <= Rounded(40 * p2 + 35 * w + 25 * e2, 100)
      BY <2>2, RoundedGrows
    <2> QED
      BY <1>4, <1>6, <2>1, <2>3 DEF Least
  <1> QED
    BY <1>5, <1>6

LEMMA ScoreType ==
    ASSUME NEW ps, IsFiniteSet(ps), NEW v \in Answers, NEW n
    PROVE  CalculateScore(ps, v, n) \in 0 .. 100
  <1> DEFINE p == ProtocolSubScore(ps)
             e == ExposureSubScore(n)
  <1>1. p \in Nat
    BY ProtocolScoreGrows
  <1>2. e \in Nat
    BY ExposureType
  <1>3. v # NoAnswer => v \in Nat
    BY DEF Answers
  <1>4. CalculateScore(ps, v, n) =
          Least(100, IF v = NoAnswer THEN Rounded(40 * p + 25 * e, 65)
                     ELSE Rounded(40 * p + 35 * v + 25 * e, 100))
    BY DEF CalculateScore
  <1> HIDE DEF p, e
  <1>5. CASE v = NoAnswer
    <2>1. 40 * p + 25 * e \in Nat /\ 40 * p + 25 * e <= 40 * p + 25 * e
      BY <1>1, <1>2
    <2>2. Rounded(40 * p + 25 * e, 65) \in Nat
      BY <2>1, RoundedGrows
    <2> QED
      BY <1>4, <1>5, <2>2 DEF Least
  <1>6. CASE v # NoAnswer
    <2>1. /\ 40 * p + 35 * v + 25 * e \in Nat
          /\ 40 * p + 35 * v + 25 * e <= 40 * p + 35 * v + 25 * e
      BY <1>1, <1>2, <1>3, <1>6
    <2>2. Rounded(40 * p + 35 * v + 25 * e, 100) \in Nat
      BY <2>1, RoundedGrows
    <2> QED
      BY <1>4, <1>6, <2>2 DEF Least
  <1> QED
    BY <1>5, <1>6

-----------------------------------------------------------------------------
(***************************************************************************)
(* The types.  A device has finitely many protocols and peers, and what a  *)
(* query has returned so far is on record, or a cancelled flush has        *)
(* dropped it.                                                             *)
(***************************************************************************)
Ever == Recorded \cup dropped

TypeInv ==
    /\ TypeOK
    /\ \A d \in Devices : /\ IsFiniteSet(protocols[d])
                          /\ IsFiniteSet(Peers(d, Recorded))
    /\ \A t \in Tasks : seen[t] \subseteq Ever

AtStates == {"new", "discovering", "announcing", "fetching", "selecting",
             "merging", "describing", "alerting", "done"}

\* What a step leaves of the tasks.
TasksTyped ==
    /\ at' \in [Tasks -> AtStates]
    /\ device' \in [Tasks -> Devices]
    /\ after' \in [Tasks -> {"record", "end"} \cup Devices]

\* The edges are those there were, and one more at most.
EdgesGrow ==
    /\ table' \subseteq Pairs /\ buffer' \subseteq Pairs /\ flushing' \subseteq Pairs
    /\ dropped' = dropped
    /\ \/ Recorded' = Recorded
       \/ \E a \in Devices, b \in Devices :
             Recorded' = Recorded \cup {<<a, b>>}

LEMMA PeersGrow ==
    ASSUME EdgesGrow, NEW d \in Devices, IsFiniteSet(Peers(d, Recorded))
    PROVE  /\ IsFiniteSet(Peers(d, Recorded'))
           /\ Peers(d, Recorded) \subseteq Peers(d, Recorded')
           /\ Recorded \subseteq Recorded'
  <1>1. CASE Recorded' = Recorded
    BY <1>1
  <1>2. ASSUME NEW a \in Devices, NEW b \in Devices,
               Recorded' = Recorded \cup {<<a, b>>}
        PROVE  /\ IsFiniteSet(Peers(d, Recorded'))
               /\ Peers(d, Recorded) \subseteq Peers(d, Recorded')
               /\ Recorded \subseteq Recorded'
    <2> DEFINE more == (Peers(d, Recorded) \cup {a}) \cup {b}
    <2>1. IsFiniteSet(more)
      BY FS_AddElement
    <2>2. Peers(d, Recorded') \subseteq more
      BY <1>2 DEF Peers
    <2> HIDE DEF more
    <2>3. IsFiniteSet(Peers(d, Recorded'))
      BY <2>1, <2>2, FS_Subset
    <2>4. Peers(d, Recorded) \subseteq Peers(d, Recorded')
      BY <1>2 DEF Peers
    <2> QED
      BY <1>2, <2>3, <2>4
  <1> QED
    BY <1>1, <1>2 DEF EdgesGrow

\* A recorded path joins devices.
LEMMA RecordGrows ==
    ASSUME TypeOK, NEW a \in Devices, NEW b \in Devices, Record(<<a, b>>)
    PROVE  EdgesGrow /\ Recorded' = Recorded \cup {<<a, b>>}
  <1>1. buffer' = buffer \cup {<<a, b>>} /\ UNCHANGED <<table, flushing, dropped>>
    BY DEF Record
  <1>2. Recorded' = Recorded \cup {<<a, b>>}
    BY <1>1 DEF Recorded
  <1>3. table' \subseteq Pairs /\ buffer' \subseteq Pairs /\ flushing' \subseteq Pairs
    BY <1>1 DEF TypeOK, Pairs
  <1> QED
    BY <1>1, <1>2, <1>3 DEF EdgesGrow

LEMMA SameEdges ==
    ASSUME TypeOK, UNCHANGED edges
    PROVE  EdgesGrow /\ Recorded' = Recorded
  BY DEF TypeOK, edges, EdgesGrow, Recorded

LEMMA MoveTyped ==
    ASSUME TypeOK, NEW t \in Tasks, NEW state \in AtStates, MoveTo(t, state)
    PROVE  /\ at' \in [Tasks -> AtStates] /\ at'[t] = state
           /\ \A g \in Tasks \ {t} : at'[g] = at[g]
  BY DEF TypeOK, AtStates, MoveTo

\* What Finish and NextDevice leave of a task.
LEMMA NextDeviceTyped ==
    ASSUME TypeOK, NEW t \in Tasks, NextDevice(t)
    PROVE  /\ TasksTyped
           /\ \A g \in Tasks \ {t} : /\ at'[g] = at[g] /\ device'[g] = device[g]
                                     /\ after'[g] = after[g]
           /\ after[t] \in Devices =>
                 at'[t] = "fetching" /\ device'[t] = after[t]
  <1>1. "fetching" \in AtStates /\ "done" \in AtStates
    BY DEF AtStates
  <1>2. CASE after[t] \in Devices
    <2>1. /\ MoveTo(t, "fetching")
          /\ device' = [device EXCEPT ![t] = after[t]]
          /\ after' = [after EXCEPT ![t] = "end"]
      BY <1>2 DEF NextDevice
    <2>2. /\ device' \in [Tasks -> Devices] /\ device'[t] = after[t]
          /\ after' \in [Tasks -> {"record", "end"} \cup Devices]
          /\ \A g \in Tasks \ {t} : device'[g] = device[g] /\ after'[g] = after[g]
      BY <1>2, <2>1 DEF TypeOK
    <2> QED
      BY <1>1, <2>1, <2>2, MoveTyped DEF TasksTyped
  <1>3. CASE after[t] \notin Devices
    <2>1. MoveTo(t, "done") /\ UNCHANGED <<device, after>>
      BY <1>3 DEF NextDevice
    <2> QED
      BY <1>1, <1>3, <2>1, MoveTyped DEF TasksTyped, TypeOK
  <1> QED
    BY <1>2, <1>3

LEMMA FinishTyped ==
    ASSUME TypeOK, NEW t \in Tasks, Finish(t)
    PROVE  /\ TasksTyped /\ EdgesGrow
           /\ \A g \in Tasks \ {t} : /\ at'[g] = at[g] /\ device'[g] = device[g]
                                     /\ after'[g] = after[g]
           /\ after[t] \in Devices =>
                 at'[t] = "fetching" /\ device'[t] = after[t]
           /\ \/ Recorded' = Recorded
              \/ /\ Recorded' = Recorded \cup {<<device[t], device[t]>>}
                 /\ \/ at'[t] = "announcing" /\ device'[t] = device[t]
                    \/ <<device[t], device[t]>> \in dropped
  <1>1. CASE after[t] = "record"
    <2>1. /\ device[t] \in Devices /\ after[t] \notin Devices
          /\ "announcing" \in AtStates /\ "done" \in AtStates
      BY <1>1, RescoringAssumption DEF TypeOK, AtStates
    <2>2. /\ Record(<<device[t], device[t]>>)
          /\ after' = [after EXCEPT ![t] = "end"]
          /\ UNCHANGED device
          /\ \/ MoveTo(t, "announcing")
             \/ /\ MoveTo(t, "done")
                /\ <<device[t], device[t]>> \in Recorded \cup dropped
      BY <1>1 DEF Finish, MaybeNew
    <2>3. EdgesGrow /\ Recorded' = Recorded \cup {<<device[t], device[t]>>}
      BY <2>1, <2>2, RecordGrows
    <2>4. /\ device' \in [Tasks -> Devices]
          /\ after' \in [Tasks -> {"record", "end"} \cup Devices]
          /\ device'[t] = device[t]
          /\ \A g \in Tasks \ {t} : device'[g] = device[g] /\ after'[g] = after[g]
      BY <2>2 DEF TypeOK
    <2>5. CASE MoveTo(t, "announcing")
      BY <2>1, <2>3, <2>4, <2>5, MoveTyped DEF TasksTyped
    <2>6. CASE /\ MoveTo(t, "done")
               /\ <<device[t], device[t]>> \in Recorded \cup dropped
      <3>1. Recorded' = Recorded \/ <<device[t], device[t]>> \in dropped
        BY <2>3, <2>6
      <3> QED
        BY <2>1, <2>3, <2>4, <2>6, <3>1, MoveTyped DEF TasksTyped
    <2> QED
      BY <2>2, <2>5, <2>6
  <1>2. CASE after[t] # "record"
    BY <1>2, NextDeviceTyped, SameEdges DEF Finish
  <1> QED
    BY <1>1, <1>2

\* What queries may have returned.
SeenTyped ==
    /\ seen' \in [Tasks -> SUBSET Pairs]
    /\ \A t \in Tasks : seen'[t] \subseteq Ever'

LEMMA SeenKept ==
    ASSUME TypeInv, EdgesGrow, Devices # {},
           NEW t \in Tasks, NEW rows \in SUBSET Ever,
           seen' = seen \/ seen' = [seen EXCEPT ![t] = rows]
    PROVE  SeenTyped
  <1>1. Ever \subseteq Pairs
    BY DEF TypeInv, TypeOK, Recorded, Ever
  <1>2. Ever \subseteq Ever'
    BY PeersGrow DEF TypeInv, EdgesGrow, Ever
  <1>3. \A g \in Tasks : seen'[g] \subseteq Ever
    BY DEF TypeInv, TypeOK
  <1>4. seen' \in [Tasks -> SUBSET Pairs]
    BY <1>1 DEF TypeInv, TypeOK
  <1> QED
    BY <1>2, <1>3, <1>4 DEF SeenTyped

\* A step that leaves protocols, firmware and score alone.
LEMMA QuietTypes ==
    ASSUME TypeInv, TasksTyped, EdgesGrow, SeenTyped,
           UNCHANGED <<inventory, score, basis, answer>>, stale' \subseteq Devices,
           failures' \in 0 .. MaxFailures
    PROVE  TypeInv'
  <1>1. TypeOK'
    BY DEF TypeInv, TypeOK, TasksTyped, AtStates, EdgesGrow, SeenTyped,
           inventory
  <1>2. \A d \in Devices : IsFiniteSet(protocols'[d])
    BY DEF TypeInv, inventory
  <1>3. \A d \in Devices : IsFiniteSet(Peers(d, Recorded'))
    BY PeersGrow DEF TypeInv
  <1> QED
    BY <1>1, <1>2, <1>3 DEF TypeInv, SeenTyped

LEMMA InitTypes == Init => TypeInv
  <1> SUFFICES ASSUME Init
               PROVE  TypeInv
    OBVIOUS
  <1>1. TypeOK
    BY RescoringAssumption DEF Init, TypeOK
  <1>2. IsFiniteSet({})
    BY FS_EmptySet
  <1>3. \A d \in Devices : Peers(d, Recorded) = {} /\ protocols[d] = {}
    BY DEF Init, Peers, Recorded
  <1>4. \A t \in Tasks : seen[t] = {}
    BY DEF Init
  <1> QED
    BY <1>1, <1>2, <1>3, <1>4 DEF TypeInv

LEMMA FingerprintFields ==
    ASSUME NEW x \in Fingerprints
    PROVE  /\ x.protocol \in Protocols
           /\ x.firmware \in Firmwares \cup {Unknown}
  BY RescoringAssumption

LEMMA UpsertedTypes ==
    ASSUME TypeInv, NEW t \in Tasks, NEW p \in Protocols,
           NEW f \in Firmwares \cup {Unknown}, Upserted(t, p, f)
    PROVE  TypeInv'
  <1> DEFINE d == device[t]
  <1>1. /\ d \in Devices /\ "selecting" \in AtStates
        /\ protocols' = [protocols EXCEPT ![d] = @ \cup {p}]
        /\ firmware' = [firmware EXCEPT ![d] = IF @ = Unknown THEN f ELSE @]
        /\ MoveTo(t, "selecting")
        /\ UNCHANGED <<usable, edges, device, after, seen, verdicts, failures>>
    BY DEF Upserted, TypeInv, TypeOK, AtStates
  <1>2. EdgesGrow /\ Recorded' = Recorded
    BY <1>1, SameEdges DEF TypeInv
  <1>3. /\ protocols' \in [Devices -> SUBSET Protocols]
        /\ firmware' \in [Devices -> Firmwares \cup {Unknown}]
    BY <1>1 DEF TypeInv, TypeOK
  <1>4. ASSUME NEW e \in Devices
        PROVE  IsFiniteSet(protocols'[e])
    <2>1. protocols'[e] = protocols[e] \/ protocols'[e] = protocols[e] \cup {p}
      BY <1>1 DEF TypeInv, TypeOK
    <2>2. IsFiniteSet(protocols[e])
      BY DEF TypeInv
    <2>3. IsFiniteSet(protocols[e] \cup {p})
      BY <2>2, FS_AddElement
    <2> QED
      BY <2>1, <2>2, <2>3
  <1>5. at' \in [Tasks -> AtStates]
    BY <1>1, MoveTyped DEF TypeInv
  <1>6. TypeOK'
    BY <1>1, <1>2, <1>3, <1>5
    DEF TypeInv, TypeOK, AtStates, EdgesGrow, verdicts
  <1>7. \A g \in Tasks : seen'[g] \subseteq Ever'
    BY <1>1, <1>2 DEF TypeInv, EdgesGrow, Ever
  <1>8. \A e \in Devices : IsFiniteSet(Peers(e, Recorded'))
    BY <1>2 DEF TypeInv
  <1> QED
    BY <1>4, <1>6, <1>7, <1>8 DEF TypeInv

LEMMA RescoreTypes ==
    ASSUME TypeInv, NEW t \in Tasks,
           NEW v \in VulnerabilitySubScores(firmware[device[t]]), Rescore(t, v)
    PROVE  TypeInv'
  <1> DEFINE d == device[t]
             new == CalculateScore(protocols[d], v,
                                   Cardinality(Peers(d, seen[t])))
  <1>1. d \in Devices /\ IsFiniteSet(protocols[d]) /\ v \in Answers
        /\ firmware[d] \in Firmwares \cup {Unknown}
    BY AnswersTyped DEF TypeInv, TypeOK
  <1>2. new \in 0 .. 100
    BY <1>1, ScoreType
  <1> HIDE DEF new
  <1>3. /\ score' = [score EXCEPT ![d] = new]
        /\ stale' = stale \ {d} \/ stale' = stale \cup {d}
        /\ basis' = [basis EXCEPT ![d] = firmware[d]]
        /\ answer' = [answer EXCEPT ![d] = v]
        /\ seen' = [seen EXCEPT ![t] = {}]
        /\ \/ MoveTo(t, "alerting") /\ UNCHANGED <<device, after, edges>>
           \/ Finish(t)
        /\ UNCHANGED <<inventory, failures>>
    BY DEF Rescore, new
  <1>4. TasksTyped /\ EdgesGrow
    <2>1. CASE MoveTo(t, "alerting") /\ UNCHANGED <<device, after, edges>>
      <3>1. "alerting" \in AtStates
        BY DEF AtStates
      <3> QED
        BY <2>1, <3>1, MoveTyped, SameEdges DEF TypeInv, TypeOK, TasksTyped
    <2>2. CASE Finish(t)
      BY <2>2, FinishTyped DEF TypeInv
    <2> QED
      BY <1>3, <2>1, <2>2
  <1>5. SeenTyped
    BY <1>1, <1>3, <1>4, SeenKept
  <1>6. /\ score' \in [Devices -> 0 .. 100]
        /\ basis' \in [Devices -> Firmwares \cup {Unknown}]
        /\ answer' \in [Devices -> (0 .. 100) \cup {NoAnswer}]
        /\ stale' \subseteq Devices
    BY <1>1, <1>2, <1>3 DEF TypeInv, TypeOK, Answers
  <1>7. TypeOK'
    BY <1>3, <1>4, <1>5, <1>6
    DEF TypeInv, TypeOK, TasksTyped, AtStates, EdgesGrow, SeenTyped, inventory
  <1>8. \A e \in Devices : IsFiniteSet(Peers(e, Recorded'))
    BY <1>4, PeersGrow DEF TypeInv
  <1> QED
    BY <1>3, <1>5, <1>7, <1>8 DEF TypeInv, SeenTyped, inventory

LEMMA StatementRaisesTypes ==
    ASSUME TypeInv, NEW t \in Tasks, StatementRaises(t)
    PROVE  TypeInv'
  <1>1. /\ usable' = FALSE
        /\ protocols' = [d \in Devices |-> {}]
        /\ firmware' = [d \in Devices |-> Unknown]
        /\ score' = [d \in Devices |-> 0]
        /\ MoveTo(t, "done")
        /\ UNCHANGED <<edges, device, after, seen, stale, basis, answer>>
    BY DEF StatementRaises
  <1>2. failures' \in 0 .. MaxFailures
    BY RescoringAssumption DEF StatementRaises, TypeInv, TypeOK
  <1>3. EdgesGrow /\ Recorded' = Recorded
    BY <1>1, SameEdges DEF TypeInv
  <1>4. at' \in [Tasks -> AtStates]
    <2>1. "done" \in AtStates
      BY DEF AtStates
    <2> QED
      BY <1>1, <2>1, MoveTyped DEF TypeInv
  <1>5. TypeOK'
    <2>1. /\ protocols' \in [Devices -> SUBSET Protocols]
          /\ firmware' \in [Devices -> Firmwares \cup {Unknown}]
      BY <1>1
    <2>2. score' \in [Devices -> 0 .. 100]
      <3>1. 0 \in 0 .. 100
        OBVIOUS
      <3> QED
        BY <1>1, <3>1, Zenon
    <2> QED
      BY <1>1, <1>2, <1>3, <1>4, <2>1, <2>2 DEF TypeInv, TypeOK, AtStates, EdgesGrow
  <1>6. /\ \A d \in Devices : IsFiniteSet(protocols'[d])
        /\ \A d \in Devices : IsFiniteSet(Peers(d, Recorded'))
    BY <1>1, <1>3, FS_EmptySet DEF TypeInv
  <1>7. \A g \in Tasks : seen'[g] \subseteq Ever'
    BY <1>1, <1>3 DEF TypeInv, EdgesGrow, Ever
  <1> QED
    BY <1>5, <1>6, <1>7 DEF TypeInv

LEMMA TaskTypes ==
    ASSUME TypeInv, NEW t \in Tasks, TaskSteps(t)
    PROVE  TypeInv'
  <1>1. /\ \A state \in {"discovering", "selecting", "fetching", "announcing",
                         "merging", "describing", "done"} : state \in AtStates
        /\ device[t] \in Devices /\ Devices # {} /\ failures \in Nat
    BY DEF AtStates, TypeInv, TypeOK
  <1>2. ASSUME NEW passive \in BOOLEAN, Lookup(t, passive)
        PROVE  TypeInv'
    <2>1. TasksTyped
      BY <1>1, <1>2, MoveTyped DEF Lookup, TasksTyped, TypeInv, TypeOK
    <2>2. EdgesGrow
      BY <1>2, SameEdges DEF Lookup, TypeInv
    <2>3. SeenTyped
      BY <1>1, <1>2, <2>2, SeenKept DEF Lookup
    <2> QED
      BY <1>2, <2>1, <2>2, <2>3, QuietTypes DEF Lookup, verdicts, TypeInv, TypeOK
  <1>3. ASSUME NEW e \in Devices, TopologyUpdate(t, e)
        PROVE  TypeInv'
    <2>1. TasksTyped
      BY <1>1, <1>3, MoveTyped DEF TopologyUpdate, TasksTyped, TypeInv, TypeOK
    <2>2. EdgesGrow
      BY <1>1, <1>3, RecordGrows DEF TopologyUpdate, TypeInv
    <2>3. SeenTyped
      BY <1>1, <1>3, <2>2, SeenKept DEF TopologyUpdate
    <2> QED
      BY <1>3, <2>1, <2>2, <2>3, QuietTypes
      DEF TopologyUpdate, verdicts, TypeInv, TypeOK
  <1>4. CASE Announced(t) \/ SelectEdges(t) \/ MergeBuffer(t)
    <2>1. TasksTyped
      BY <1>1, <1>4, MoveTyped
      DEF Announced, SelectEdges, MergeBuffer, TasksTyped, TypeInv, TypeOK
    <2>2. EdgesGrow
      BY <1>4, SameEdges DEF Announced, SelectEdges, MergeBuffer, TypeInv
    <2>3. seen[t] \cup buffer \subseteq Ever /\ table \subseteq Ever
      BY DEF TypeInv, Recorded, Ever
    <2>4. \/ seen' = seen \/ seen' = [seen EXCEPT ![t] = table]
          \/ seen' = [seen EXCEPT ![t] = seen[t] \cup buffer]
      BY <1>4 DEF Announced, SelectEdges, MergeBuffer, TypeInv, TypeOK
    <2>5. SeenTyped
      BY <1>1, <2>2, <2>3, <2>4, SeenKept
    <2> QED
      BY <1>4, <2>1, <2>2, <2>5, QuietTypes
      DEF Announced, SelectEdges, MergeBuffer, verdicts, TypeInv, TypeOK
  <1>5. CASE Fetched(t)
    <2>1. TasksTyped
      <3>1. CASE Known(device[t])
        BY <1>1, <1>5, <3>1, MoveTyped DEF Fetched, TasksTyped, TypeInv, TypeOK
      <3>2. CASE ~Known(device[t])
        BY <1>5, <3>2, NextDeviceTyped DEF Fetched, TypeInv
      <3> QED
        BY <3>1, <3>2
    <2>2. EdgesGrow
      BY <1>5, SameEdges DEF Fetched, TypeInv
    <2>3. SeenTyped
      BY <1>1, <1>5, <2>2, SeenKept DEF Fetched
    <2> QED
      BY <1>5, <2>1, <2>2, <2>3, QuietTypes DEF Fetched, verdicts, TypeInv, TypeOK
  <1>6. CASE AlertSent(t) \/ RescoringRaises(t)
    <2>1. TasksTyped /\ EdgesGrow
      BY <1>6, FinishTyped DEF AlertSent, RescoringRaises, TypeInv
    <2>2. SeenTyped
      BY <1>1, <1>6, <2>1, SeenKept DEF AlertSent, RescoringRaises
    <2>3. failures' \in 0 .. MaxFailures /\ stale' \subseteq Devices
      BY <1>1, <1>6, RescoringAssumption
      DEF AlertSent, RescoringRaises, verdicts, TypeInv, TypeOK
    <2> QED
      BY <1>6, <2>1, <2>2, <2>3, QuietTypes
      DEF AlertSent, RescoringRaises, verdicts
  <1>7. CASE HandlerRaises(t)
    <2>1. TasksTyped
      BY <1>1, <1>7, MoveTyped DEF HandlerRaises, TasksTyped, TypeInv, TypeOK
    <2>2. EdgesGrow
      BY <1>7, SameEdges DEF HandlerRaises, TypeInv
    <2>3. SeenTyped
      BY <1>1, <1>7, <2>2, SeenKept DEF HandlerRaises
    <2>4. failures' \in 0 .. MaxFailures /\ stale' \subseteq Devices
      BY <1>1, <1>7, RescoringAssumption DEF HandlerRaises, TypeInv, TypeOK
    <2> QED
      BY <1>7, <2>1, <2>2, <2>3, <2>4, QuietTypes DEF HandlerRaises
  <1>8. ASSUME NEW x \in Fingerprints, Upserted(t, x.protocol, x.firmware)
        PROVE  TypeInv'
    BY <1>8, FingerprintFields, UpsertedTypes
  <1> QED
    BY <1>2, <1>3, <1>4, <1>5, <1>6, <1>7, <1>8, RescoreTypes,
       StatementRaisesTypes
    DEF TaskSteps

\* The steps of a flush: nothing is forgotten, and what is no longer on
\* record is dropped.
FlushSteps == FlushTakes \/ FlushCommits \/ FlushRaises \/ FlushCancelled

LEMMA FlushLeaves ==
    ASSUME TypeInv, FlushSteps
    PROVE  /\ Recorded' \subseteq Recorded
           /\ Recorded \ Recorded' \subseteq dropped'
           /\ dropped \subseteq dropped' /\ Ever' = Ever
           /\ UNCHANGED <<inventory, locals, verdicts>>
  BY DEF FlushSteps, FlushTakes, FlushCommits, FlushRaises, FlushCancelled,
         Recorded, Ever

LEMMA FlushTypes ==
    ASSUME TypeInv, FlushSteps
    PROVE  TypeInv'
  <1>1. /\ Recorded' \subseteq Recorded /\ Ever' = Ever
        /\ UNCHANGED <<inventory, locals, verdicts>>
    BY FlushLeaves
  <1>2. /\ table' \subseteq Pairs /\ buffer' \subseteq Pairs
        /\ flushing' \subseteq Pairs /\ dropped' \subseteq Pairs
    BY DEF FlushSteps, FlushTakes, FlushCommits, FlushRaises, FlushCancelled,
           TypeInv, TypeOK
  <1>3. failures' \in 0 .. MaxFailures
    BY RescoringAssumption
    DEF FlushSteps, FlushTakes, FlushCommits, FlushRaises, FlushCancelled,
        TypeInv, TypeOK
  <1>4. TypeOK'
    BY <1>1, <1>2, <1>3 DEF TypeInv, TypeOK, inventory, locals, verdicts
  <1>5. ASSUME NEW d \in Devices
        PROVE  IsFiniteSet(Peers(d, Recorded'))
    <2>1. Peers(d, Recorded') \subseteq Peers(d, Recorded)
      BY <1>1 DEF Peers
    <2> QED
      BY <2>1, FS_Subset DEF TypeInv
  <1> QED
    BY <1>1, <1>4, <1>5 DEF TypeInv, inventory, locals

LEMMA NextTypes == TypeInv /\ [Next]_vars => TypeInv'
  <1> SUFFICES ASSUME TypeInv, [Next]_vars
               PROVE  TypeInv'
    OBVIOUS
  <1>1. CASE UNCHANGED vars
    BY <1>1 DEF vars, inventory, edges, locals, verdicts, TypeInv, TypeOK,
                Recorded, Ever
  <1> QED
    BY <1>1, TaskTypes, FlushTypes DEF Next, FlushSteps

-----------------------------------------------------------------------------
(***************************************************************************)
(* ScoreSettles.  The score of a device that is not stale, and of which no *)
(* path was dropped, is right, or a task is still going to rescore the     *)
(* device.                                                                 *)
(***************************************************************************)
Right(d) ==
    /\ score[d] = CalculateScore(protocols[d], answer[d],
                                 Cardinality(Peers(d, Recorded)))
    /\ basis[d] = firmware[d]

Pending(t, d) ==
    \/ device[t] = d /\ at[t] \in {"announcing", "fetching", "selecting",
                                   "merging", "describing"}
    \/ after[t] = d /\ at[t] \notin {"new", "done"}

Settling ==
    \A d \in Devices : Known(d) /\ d \notin stale /\ Peers(d, dropped) = {} =>
        Right(d) \/ \E t \in Tasks : Pending(t, d)

\* What a step of a task may do to a device: leave it for later, set its
\* score, give up, or not concern it at all.
Settles(t, d) ==
    \/ protocols'[d] = {} \/ d \in stale' \/ Peers(d, dropped) # {}
    \/ Right(d)' \/ Pending(t, d)'
    \/ /\ ~Pending(t, d)
       /\ Known(d) /\ d \notin stale
       /\ Right(d) => Right(d)'

OthersStay(t) ==
    \A g \in Tasks \ {t} : /\ at'[g] = at[g] /\ device'[g] = device[g]
                           /\ after'[g] = after[g]

LEMMA StepSettles ==
    ASSUME Settling, NEW t \in Tasks, OthersStay(t), dropped' = dropped,
           \A d \in Devices : Settles(t, d)
    PROVE  Settling'
  <1> SUFFICES ASSUME NEW d \in Devices, protocols'[d] # {}, d \notin stale',
                      Peers(d, dropped) = {}
               PROVE  Right(d)' \/ \E g \in Tasks : Pending(g, d)'
    BY DEF Settling, Known
  <1>1. CASE Right(d)' \/ Pending(t, d)'
    BY <1>1
  <1>2. CASE /\ ~Pending(t, d)
             /\ Known(d) /\ d \notin stale
             /\ Right(d) => Right(d)'
    <2>1. Right(d) \/ \E g \in Tasks : Pending(g, d)
      BY <1>2 DEF Settling
    <2>2. CASE Right(d)
      BY <1>2, <2>2
    <2>3. ASSUME NEW g \in Tasks, Pending(g, d)
          PROVE  Pending(g, d)'
      <3>1. g # t
        BY <1>2, <2>3
      <3> QED
        BY <2>3, <3>1 DEF OthersStay, Pending
    <2> QED
      BY <2>1, <2>2, <2>3
  <1> QED
    BY <1>1, <1>2 DEF Settles

\* A device that a step does not concern.
LEMMA Unconcerned ==
    ASSUME NEW t \in Tasks, NEW d \in Devices, ~Pending(t, d),
           protocols'[d] = protocols[d], firmware'[d] = firmware[d],
           score'[d] = score[d], answer'[d] = answer[d], basis'[d] = basis[d],
           d \in stale => d \in stale',
           Peers(d, Recorded') = Peers(d, Recorded)
    PROVE  Settles(t, d)
  <1>1. Right(d) => Right(d)'
    BY DEF Right
  <1> QED
    BY <1>1 DEF Settles, Known

\* A path between other devices.
LEMMA OtherPeers ==
    ASSUME NEW d, NEW a, NEW b, d # a, d # b,
           Recorded' = Recorded \cup {<<a, b>>}
    PROVE  Peers(d, Recorded') = Peers(d, Recorded)
  BY DEF Peers

\* Finish leaves what is to be rescored later pending, whatever it records.
LEMMA FinishSettles ==
    ASSUME TypeOK, NEW t \in Tasks, Finish(t), UNCHANGED inventory,
           stale \subseteq stale', UNCHANGED <<score, answer, basis>>,
           at[t] = "alerting" \/ device[t] \in stale',
           at[t] # "new" /\ at[t] # "done"
    PROVE  \A d \in Devices : Settles(t, d)
  <1>1. /\ after[t] \in Devices => at'[t] = "fetching" /\ device'[t] = after[t]
        /\ \/ Recorded' = Recorded
           \/ /\ Recorded' = Recorded \cup {<<device[t], device[t]>>}
              /\ \/ at'[t] = "announcing" /\ device'[t] = device[t]
                 \/ Peers(device[t], dropped) # {}
        /\ device[t] \in Devices
    BY FinishTyped DEF Peers, TypeOK
  <1> TAKE d \in Devices
  <1>2. CASE after[t] = d
    BY <1>1, <1>2 DEF Settles, Pending
  <1>3. CASE after[t] # d /\ device[t] = d /\ Recorded' # Recorded
    BY <1>1, <1>3 DEF Settles, Pending
  <1>4. CASE after[t] # d /\ (device[t] # d \/ Recorded' = Recorded)
    <2>1. Peers(d, Recorded') = Peers(d, Recorded)
      BY <1>1, <1>4, OtherPeers
    <2>2. CASE d \in stale'
      BY <2>2 DEF Settles
    <2>3. CASE d \notin stale'
      <3>1. ~Pending(t, d)
        BY <1>4, <2>3 DEF Pending
      <3> QED
        BY <2>1, <3>1, Unconcerned DEF inventory
    <2> QED
      BY <2>2, <2>3
  <1> QED
    BY <1>2, <1>3, <1>4

LEMMA RescoreSettles ==
    ASSUME TypeInv, NEW t \in Tasks, NEW v, Rescore(t, v)
    PROVE  OthersStay(t) /\ \A d \in Devices : Settles(t, d)
  <1> DEFINE c == device[t]
             peers == Peers(c, seen[t])
             new == CalculateScore(protocols[c], v, Cardinality(peers))
  <1>1. /\ at[t] = "describing" /\ c \in Devices
        /\ score' = [score EXCEPT ![c] = new]
        /\ answer' = [answer EXCEPT ![c] = v]
        /\ basis' = [basis EXCEPT ![c] = firmware[c]]
        /\ stale' = IF peers = Peers(c, Recorded) THEN stale \ {c} ELSE stale \cup {c}
        /\ \/ MoveTo(t, "alerting") /\ UNCHANGED <<device, after, edges>>
           \/ Finish(t)
        /\ protocols' = protocols /\ firmware' = firmware
    BY DEF Rescore, TypeInv, TypeOK, inventory
  <1>2. /\ OthersStay(t)
        /\ \/ /\ at'[t] = "alerting" /\ after'[t] = after[t]
           \/ after[t] \in Devices => at'[t] = "fetching" /\ device'[t] = after[t]
        /\ \/ Recorded' = Recorded
           \/ /\ Recorded' = Recorded \cup {<<c, c>>}
              /\ \/ at'[t] = "announcing" /\ device'[t] = c
                 \/ Peers(c, dropped) # {}
    <2>1. CASE MoveTo(t, "alerting") /\ UNCHANGED <<device, after, edges>>
      <3>1. "alerting" \in AtStates
        BY DEF AtStates
      <3> QED
        BY <2>1, <3>1, MoveTyped, SameEdges DEF TypeInv, OthersStay
    <2>2. CASE Finish(t)
      BY <1>1, <2>2, FinishTyped DEF TypeInv, OthersStay, Peers
    <2> QED
      BY <1>1, <2>1, <2>2
  <1>3. ASSUME NEW d \in Devices
        PROVE  Settles(t, d)
    <2>1. CASE after[t] = d
      BY <1>2, <1>3, <2>1 DEF Settles, Pending
    <2>2. CASE d = c /\ (Recorded' # Recorded \/ d \in stale')
      BY <1>2, <2>2 DEF Settles, Pending
    <2>3. CASE d = c /\ Recorded' = Recorded /\ d \notin stale'
      <3>1. peers = Peers(c, Recorded)
        BY <1>1, <2>3
      <3>2. score'[c] = new /\ answer'[c] = v /\ basis'[c] = firmware[c]
        BY <1>1 DEF TypeInv, TypeOK
      <3>3. Right(d)'
        BY <1>1, <2>3, <3>1, <3>2 DEF Right
      <3> QED
        BY <3>3 DEF Settles
    <2>4. CASE d # c /\ after[t] # d
      <3>1. Peers(d, Recorded') = Peers(d, Recorded)
        BY <1>2, <2>4, OtherPeers
      <3>2. ~Pending(t, d)
        BY <2>4 DEF Pending
      <3>3. /\ score'[d] = score[d] /\ (d \in stale => d \in stale')
            /\ answer'[d] = answer[d] /\ basis'[d] = basis[d]
        BY <1>1, <2>4 DEF TypeInv, TypeOK
      <3> QED
        BY <1>1, <3>1, <3>2, <3>3, Unconcerned
    <2> QED
      BY <2>1, <2>2, <2>3, <2>4
  <1> QED
    BY <1>2, <1>3

LEMMA UpsertedSettles ==
    ASSUME TypeInv, NEW t \in Tasks, NEW p \in Protocols,
           NEW f \in Firmwares \cup {Unknown}, Upserted(t, p, f)
    PROVE  OthersStay(t) /\ \A d \in Devices : Settles(t, d)
  <1> DEFINE c == device[t]
  <1>1. /\ c \in Devices /\ at[t] = "discovering" /\ "selecting" \in AtStates
        /\ protocols' = [protocols EXCEPT ![c] = @ \cup {p}]
        /\ firmware' = [firmware EXCEPT ![c] = IF @ = Unknown THEN f ELSE @]
        /\ MoveTo(t, "selecting")
        /\ UNCHANGED <<edges, device, after, score, stale, answer, basis>>
    BY DEF Upserted, TypeInv, TypeOK, AtStates, verdicts
  <1>2. OthersStay(t) /\ at'[t] = "selecting"
    BY <1>1, MoveTyped DEF OthersStay, TypeInv
  <1>3. Recorded' = Recorded
    BY <1>1, SameEdges DEF TypeInv
  <1>4. ASSUME NEW d \in Devices
        PROVE  Settles(t, d)
    <2>1. CASE d = c \/ after[t] = d
      BY <1>1, <1>2, <2>1 DEF Settles, Pending
    <2>2. CASE d # c /\ after[t] # d
      <3>1. ~Pending(t, d)
        BY <2>2 DEF Pending
      <3>2. protocols'[d] = protocols[d] /\ firmware'[d] = firmware[d]
        BY <1>1, <2>2 DEF TypeInv, TypeOK
      <3> QED
        BY <1>1, <1>3, <3>1, <3>2, Unconcerned
    <2> QED
      BY <2>1, <2>2
  <1> QED
    BY <1>2, <1>4

LEMMA TopologyUpdateSettles ==
    ASSUME TypeInv, NEW t \in Tasks, NEW e \in Devices, TopologyUpdate(t, e)
    PROVE  OthersStay(t) /\ \A d \in Devices : Settles(t, d)
  <1>1. /\ device[t] \in Devices /\ at[t] = "new"
        /\ Record(<<device[t], e>>)
        /\ \E state \in {"announcing", "fetching"} : MoveTo(t, state)
        /\ after' = [after EXCEPT ![t] = e]
        /\ UNCHANGED <<inventory, device, score, stale, answer, basis>>
    BY DEF TopologyUpdate, TypeInv, TypeOK, verdicts
  <1>2. /\ OthersStay(t) /\ at'[t] \in {"announcing", "fetching"}
        /\ after'[t] = e /\ device'[t] = device[t]
    <2>1. "announcing" \in AtStates /\ "fetching" \in AtStates
      BY DEF AtStates
    <2> QED
      BY <1>1, <2>1, MoveTyped DEF OthersStay, TypeInv, TypeOK
  <1>3. Recorded' = Recorded \cup {<<device[t], e>>}
    BY <1>1, RecordGrows DEF TypeInv
  <1>4. ASSUME NEW d \in Devices
        PROVE  Settles(t, d)
    <2>1. CASE d = device[t] \/ d = e
      BY <1>2, <2>1 DEF Settles, Pending
    <2>2. CASE d # device[t] /\ d # e
      <3>1. ~Pending(t, d)
        BY <1>1, <2>2 DEF Pending
      <3>2. Peers(d, Recorded') = Peers(d, Recorded)
        BY <1>3, <2>2, OtherPeers
      <3> QED
        BY <1>1, <3>1, <3>2, Unconcerned DEF inventory
    <2> QED
      BY <2>1, <2>2
  <1> QED
    BY <1>2, <1>4

\* The steps that only move a task.
LEMMA MovesSettle ==
    ASSUME TypeInv, NEW t \in Tasks,
           \/ \E passive \in BOOLEAN : Lookup(t, passive)
           \/ Announced(t) \/ SelectEdges(t) \/ MergeBuffer(t)
    PROVE  OthersStay(t) /\ \A d \in Devices : Settles(t, d)
  <1>1. /\ UNCHANGED <<protocols, firmware, edges, device, score, stale, answer,
                       basis>>
        /\ \/ /\ at[t] = "new"
              /\ MoveTo(t, "discovering")
              /\ \E mark \in {"record", "end"} : after' = [after EXCEPT ![t] = mark]
           \/ /\ at[t] \in {"announcing", "selecting", "merging"}
              /\ \E state \in {"fetching", "selecting", "merging", "describing"} :
                    MoveTo(t, state)
              /\ after' = after
    BY DEF Lookup, Announced, SelectEdges, MergeBuffer, inventory, verdicts
  <1>2. Recorded' = Recorded
    BY <1>1, SameEdges DEF TypeInv
  <1>3. ASSUME NEW state \in {"discovering", "fetching", "selecting",
                              "merging", "describing"},
               MoveTo(t, state)
        PROVE  at'[t] = state /\ \A g \in Tasks \ {t} : at'[g] = at[g]
    <2>1. state \in AtStates
      BY DEF AtStates
    <2> QED
      BY <1>3, <2>1, MoveTyped DEF TypeInv
  <1>4. OthersStay(t)
    BY <1>1, <1>3 DEF OthersStay, TypeInv, TypeOK
  <1>5. ASSUME NEW d \in Devices
        PROVE  Settles(t, d)
    <2>1. CASE Pending(t, d)
      <3>1. /\ at[t] # "new" /\ after' = after /\ device' = device
            /\ at'[t] \in {"fetching", "selecting", "merging", "describing"}
        BY <1>1, <1>3, <2>1 DEF Pending
      <3> QED
        BY <2>1, <3>1 DEF Settles, Pending
    <2>2. CASE ~Pending(t, d)
      BY <1>1, <1>2, <2>2, Unconcerned
    <2> QED
      BY <2>1, <2>2
  <1> QED
    BY <1>4, <1>5

\* A device that is no longer known is passed over.
LEMMA FetchedSettles ==
    ASSUME TypeInv, NEW t \in Tasks, Fetched(t)
    PROVE  OthersStay(t) /\ \A d \in Devices : Settles(t, d)
  <1>1. /\ UNCHANGED <<protocols, firmware, edges, score, stale, answer, basis>>
        /\ at[t] = "fetching"
    BY DEF Fetched, inventory, verdicts
  <1>2. Recorded' = Recorded
    BY <1>1, SameEdges DEF TypeInv
  <1>3. CASE Known(device[t])
    <2>1. MoveTo(t, "selecting") /\ UNCHANGED <<device, after>>
      BY <1>3 DEF Fetched
    <2>2. "selecting" \in AtStates
      BY DEF AtStates
    <2>3. OthersStay(t) /\ at'[t] = "selecting"
      BY <2>1, <2>2, MoveTyped DEF OthersStay, TypeInv
    <2>4. ASSUME NEW d \in Devices
          PROVE  Settles(t, d)
      <3>1. CASE Pending(t, d)
        BY <2>1, <2>3, <3>1 DEF Settles, Pending
      <3>2. CASE ~Pending(t, d)
        BY <1>1, <1>2, <3>2, Unconcerned
      <3> QED
        BY <3>1, <3>2
    <2> QED
      BY <2>3, <2>4
  <1>4. CASE ~Known(device[t])
    <2>1. NextDevice(t)
      BY <1>4 DEF Fetched
    <2>2. /\ OthersStay(t)
          /\ after[t] \in Devices => at'[t] = "fetching" /\ device'[t] = after[t]
      BY <2>1, NextDeviceTyped DEF OthersStay, TypeInv
    <2>3. ASSUME NEW d \in Devices
          PROVE  Settles(t, d)
      <3>1. CASE after[t] = d
        BY <2>2, <3>1 DEF Settles, Pending
      <3>2. CASE device[t] = d
        BY <1>1, <1>4, <3>2 DEF Settles, Known
      <3>3. CASE device[t] # d /\ after[t] # d
        <4>1. ~Pending(t, d)
          BY <3>3 DEF Pending
        <4> QED
          BY <1>1, <1>2, <4>1, Unconcerned
      <3> QED
        BY <3>1, <3>2, <3>3
    <2> QED
      BY <2>2, <2>3
  <1> QED
    BY <1>3, <1>4

\* What a handler that raises leaves undone makes its devices stale.
LEMMA HandlerRaisesSettles ==
    ASSUME TypeInv, NEW t \in Tasks, HandlerRaises(t)
    PROVE  OthersStay(t) /\ \A d \in Devices : Settles(t, d)
  <1>1. /\ stale' = stale \cup {device[t]} \cup ({after[t]} \cap Devices)
        /\ MoveTo(t, "done")
        /\ UNCHANGED <<protocols, firmware, edges, device, after, score, answer,
                       basis>>
    BY DEF HandlerRaises, inventory
  <1>2. Recorded' = Recorded
    BY <1>1, SameEdges DEF TypeInv
  <1>3. OthersStay(t)
    <2>1. "done" \in AtStates
      BY DEF AtStates
    <2> QED
      BY <1>1, <2>1, MoveTyped DEF OthersStay, TypeInv
  <1>4. ASSUME NEW d \in Devices
        PROVE  Settles(t, d)
    <2>1. CASE d \in {device[t], after[t]}
      BY <1>1, <2>1 DEF Settles
    <2>2. CASE d \notin {device[t], after[t]}
      <3>1. ~Pending(t, d)
        BY <2>2 DEF Pending
      <3> QED
        BY <1>1, <1>2, <3>1, Unconcerned
    <2> QED
      BY <2>1, <2>2
  <1> QED
    BY <1>3, <1>4

\* No device is left of a transaction that is lost.
LEMMA StatementRaisesSettles ==
    ASSUME TypeInv, NEW t \in Tasks, StatementRaises(t)
    PROVE  OthersStay(t) /\ \A d \in Devices : Settles(t, d)
  <1>1. "done" \in AtStates
    BY DEF AtStates
  <1>2. OthersStay(t)
    BY <1>1, MoveTyped DEF StatementRaises, OthersStay, TypeInv
  <1> QED
    BY <1>2 DEF StatementRaises, Settles

LEMMA TaskSettles ==
    ASSUME TypeInv, NEW t \in Tasks, TaskSteps(t)
    PROVE  OthersStay(t) /\ \A d \in Devices : Settles(t, d)
  <1>1. CASE AlertSent(t) \/ RescoringRaises(t)
    <2>1. Finish(t) /\ UNCHANGED <<inventory, score, answer, basis>>
      BY <1>1 DEF AlertSent, RescoringRaises, verdicts
    <2>2. /\ stale \subseteq stale'
          /\ at[t] = "alerting" \/ device[t] \in stale'
          /\ at[t] # "new" /\ at[t] # "done"
      BY <1>1 DEF AlertSent, RescoringRaises, verdicts
    <2>3. OthersStay(t)
      BY <2>1, FinishTyped DEF OthersStay, TypeInv
    <2> QED
      BY <2>1, <2>2, <2>3, FinishSettles DEF TypeInv
  <1>2. ASSUME NEW x \in Fingerprints, Upserted(t, x.protocol, x.firmware)
        PROVE  OthersStay(t) /\ \A d \in Devices : Settles(t, d)
    BY <1>2, FingerprintFields, UpsertedSettles
  <1> QED
    BY <1>1, <1>2, TopologyUpdateSettles, MovesSettle,
       FetchedSettles, RescoreSettles, HandlerRaisesSettles,
       StatementRaisesSettles DEF TaskSteps

\* No step of a task drops a path.
LEMMA TaskKeepsDropped ==
    ASSUME TypeOK, NEW t \in Tasks, TaskSteps(t)
    PROVE  dropped' = dropped
  <1>1. CASE Finish(t)
    BY <1>1, FinishTyped DEF EdgesGrow
  <1>2. CASE ~Finish(t)
    BY <1>2
    DEF TaskSteps, Lookup, Upserted, TopologyUpdate, Record, Announced, Fetched,
        SelectEdges, MergeBuffer, Rescore, AlertSent, RescoringRaises,
        HandlerRaises, StatementRaises, edges
  <1> QED
    BY <1>1, <1>2

\* A flush changes the peers only of devices of which it drops a path.
LEMMA FlushSettles ==
    ASSUME Settling, Recorded' \subseteq Recorded,
           Recorded \ Recorded' \subseteq dropped', dropped \subseteq dropped',
           UNCHANGED <<inventory, locals, verdicts>>
    PROVE  Settling'
  <1> SUFFICES ASSUME NEW d \in Devices, Known(d), d \notin stale,
                      Peers(d, dropped') = {}
               PROVE  (Right(d) \/ \E t \in Tasks : Pending(t, d))'
    BY DEF Settling, Known, inventory, verdicts
  <1>1. Peers(d, dropped) = {} /\ Peers(d, Recorded') = Peers(d, Recorded)
    BY DEF Peers
  <1>2. Right(d) \/ \E t \in Tasks : Pending(t, d)
    BY <1>1 DEF Settling
  <1> QED
    BY <1>1, <1>2 DEF Right, Pending, inventory, locals, verdicts

SettlingInv == TypeInv /\ Settling

LEMMA SettlingStep == SettlingInv /\ [Next]_vars => SettlingInv'
  <1> SUFFICES ASSUME SettlingInv, [Next]_vars
               PROVE  SettlingInv'
    OBVIOUS
  <1>1. TypeInv'
    BY NextTypes DEF SettlingInv
  <1>2. CASE UNCHANGED vars
    <2>1. Recorded' = Recorded /\ dropped' = dropped
      BY <1>2 DEF vars, edges, Recorded
    <2> QED
      BY <1>1, <1>2, <2>1, FlushSettles DEF vars, SettlingInv
  <1>3. CASE FlushSteps
    BY <1>1, <1>3, FlushLeaves, FlushSettles DEF SettlingInv
  <1>4. ASSUME NEW t \in Tasks, TaskSteps(t)
        PROVE  SettlingInv'
    BY <1>1, <1>4, TaskSettles, StepSettles, TaskKeepsDropped
    DEF SettlingInv, TypeInv
  <1> QED
    BY <1>2, <1>3, <1>4 DEF Next, FlushSteps

\* ScoreSettles: when all tasks about a device are done, its risk score is
\* that of its protocols, its peers and what the database last answered for
\* the firmware it has, unless its last rescoring raised or had read too few
\* peers, or a cancelled flush has dropped a path of it
\* (_recalculate_risk_score).
THEOREM ScoresSettle == Spec => []ScoreSettles
  <1>1. Init => SettlingInv
    <2> SUFFICES ASSUME Init
                 PROVE  SettlingInv
      OBVIOUS
    <2>1. \A d \in Devices : ~Known(d)
      BY DEF Init, Known
    <2> QED
      BY <2>1, InitTypes DEF SettlingInv, Settling
  <1>2. SettlingInv => ScoreSettles
    <2> SUFFICES ASSUME SettlingInv
                 PROVE  ScoreSettles
      OBVIOUS
    <2>1. ASSUME NEW d \in Devices, Known(d), AtRest(d), d \notin stale,
                 Peers(d, dropped) = {}
          PROVE  Right(d)
      <3>1. \A t \in Tasks : ~Pending(t, d)
        BY <2>1 DEF AtRest, Pending
      <3> QED
        BY <2>1, <3>1 DEF SettlingInv, Settling
    <2> QED
      BY <2>1 DEF ScoreSettles, SettlingInv, TypeInv, Right
  <1> QED
    BY <1>1, <1>2, SettlingStep, PTL DEF Spec

-----------------------------------------------------------------------------
(***************************************************************************)
(* ScoreFallsForAReason.  Every score was calculated from protocols that   *)
(* the device still has, and from peers it has or has lost.                *)
(***************************************************************************)
Earlier(d) ==
    \/ score[d] = 0
    \/ \E ps \in SUBSET protocols[d], qs \in SUBSET Peers(d, Ever) :
          score[d] = CalculateScore(ps, answer[d], Cardinality(qs))

FallsInv == TypeInv /\ \A d \in Devices : Earlier(d)

Grows ==
    /\ \A d \in Devices : protocols[d] \subseteq protocols'[d]
    /\ Ever \subseteq Ever'

LEMMA EdgesOnlyGrow ==
    ASSUME TypeInv, EdgesGrow, UNCHANGED inventory
    PROVE  Grows
  BY DEF EdgesGrow, Grows, Ever, inventory

LEMMA TaskGrows ==
    ASSUME TypeInv, NEW t \in Tasks, TaskSteps(t)
    PROVE  \/ Grows /\ ((\E v : Rescore(t, v)) \/ UNCHANGED <<score, answer>>)
           \/ StatementRaises(t)
  <1>1. ASSUME NEW passive \in BOOLEAN, Lookup(t, passive)
        PROVE  Grows /\ UNCHANGED <<score, answer>>
    BY <1>1, SameEdges, EdgesOnlyGrow DEF Lookup, TypeInv, verdicts
  <1>2. ASSUME NEW x \in Fingerprints, Upserted(t, x.protocol, x.firmware)
        PROVE  Grows /\ UNCHANGED <<score, answer>>
    <2>1. Recorded' = Recorded /\ dropped' = dropped
      BY <1>2, SameEdges DEF Upserted, TypeInv, edges
    <2>2. protocols' = [protocols EXCEPT ![device[t]] = @ \cup {x.protocol}]
      BY <1>2 DEF Upserted
    <2>3. \A d \in Devices : protocols[d] \subseteq protocols'[d]
      BY <2>2 DEF TypeInv, TypeOK
    <2> QED
      BY <1>2, <2>1, <2>3 DEF Grows, Ever, Upserted, verdicts
  <1>3. ASSUME NEW e \in Devices, TopologyUpdate(t, e)
        PROVE  Grows /\ UNCHANGED <<score, answer>>
    <2>1. device[t] \in Devices /\ Record(<<device[t], e>>)
      BY <1>3 DEF TopologyUpdate, TypeInv, TypeOK
    <2>2. EdgesGrow
      BY <2>1, RecordGrows DEF TypeInv
    <2> QED
      BY <1>3, <2>2, EdgesOnlyGrow DEF TopologyUpdate, verdicts
  <1>4. CASE Announced(t) \/ Fetched(t) \/ SelectEdges(t) \/ MergeBuffer(t)
    BY <1>4, SameEdges, EdgesOnlyGrow
    DEF Announced, Fetched, SelectEdges, MergeBuffer, TypeInv, verdicts
  <1>5. CASE HandlerRaises(t)
    BY <1>5, SameEdges, EdgesOnlyGrow DEF HandlerRaises, TypeInv
  <1>6. CASE AlertSent(t) \/ RescoringRaises(t)
    BY <1>6, FinishTyped, EdgesOnlyGrow
    DEF AlertSent, RescoringRaises, TypeInv, verdicts
  <1>7. ASSUME NEW v, Rescore(t, v)
        PROVE  Grows
    <2>1. UNCHANGED inventory /\ (UNCHANGED edges \/ Finish(t))
      BY <1>7 DEF Rescore
    <2> QED
      BY <2>1, FinishTyped, SameEdges, EdgesOnlyGrow DEF TypeInv
  <1> QED
    BY <1>1, <1>2, <1>3, <1>4, <1>5, <1>6, <1>7 DEF TaskSteps

LEMMA OnlyRescoreScores ==
    ASSUME NEW t \in Tasks, TaskSteps(t), score' # score, ~StatementRaises(t)
    PROVE  \E v \in VulnerabilitySubScores(firmware[device[t]]) : Rescore(t, v)
  BY DEF TaskSteps, Lookup, Upserted, TopologyUpdate, Announced, Fetched,
         SelectEdges, MergeBuffer, AlertSent, RescoringRaises, HandlerRaises,
         verdicts

LEMMA EarlierKept ==
    ASSUME NEW d \in Devices, Earlier(d), Grows,
           score'[d] = score[d], answer'[d] = answer[d]
    PROVE  Earlier(d)'
  <1>1. /\ protocols[d] \subseteq protocols'[d]
        /\ Peers(d, Ever) \subseteq Peers(d, Ever')
    BY DEF Grows, Peers
  <1>2. CASE score[d] = 0
    BY <1>2 DEF Earlier
  <1>3. ASSUME NEW ps \in SUBSET protocols[d],
               NEW qs \in SUBSET Peers(d, Ever),
               score[d] = CalculateScore(ps, answer[d], Cardinality(qs))
        PROVE  Earlier(d)'
    <2>1. ps \in SUBSET protocols'[d] /\ qs \in SUBSET Peers(d, Ever')
      BY <1>1
    <2>2. score'[d] = CalculateScore(ps, answer'[d], Cardinality(qs))
      BY <1>3
    <2> QED
      BY <2>1, <2>2 DEF Earlier
  <1> QED
    BY <1>2, <1>3 DEF Earlier

\* A rescoring scores the protocols the device has, and peers on record.
LEMMA RescoreEarlier ==
    ASSUME FallsInv, NEW t \in Tasks, NEW v, Rescore(t, v), Grows
    PROVE  \A d \in Devices : Earlier(d)'
  <1> DEFINE c == device[t]
             peers == Peers(c, seen[t])
  <1>1. c \in Devices /\ seen[t] \subseteq Ever
    BY DEF FallsInv, TypeInv, TypeOK
  <1>2. /\ score' = [score EXCEPT ![c] = CalculateScore(protocols[c], v,
                                                        Cardinality(peers))]
        /\ answer' = [answer EXCEPT ![c] = v]
    BY DEF Rescore
  <1> TAKE d \in Devices
  <1>3. CASE d = c
    <2>1. protocols[c] \in SUBSET protocols'[c] /\ peers \in SUBSET Peers(c, Ever')
      BY <1>1 DEF Grows, Peers
    <2>2. score'[c] = CalculateScore(protocols[c], answer'[c], Cardinality(peers))
      BY <1>1, <1>2 DEF FallsInv, TypeInv, TypeOK
    <2> QED
      BY <1>3, <2>1, <2>2 DEF Earlier
  <1>4. CASE d # c
    <2>1. score'[d] = score[d] /\ answer'[d] = answer[d]
      BY <1>2, <1>4 DEF FallsInv, TypeInv, TypeOK
    <2> QED
      BY <2>1, EarlierKept DEF FallsInv
  <1> QED
    BY <1>3, <1>4

LEMMA FallsStep == FallsInv /\ [Next]_vars => FallsInv'
  <1> SUFFICES ASSUME FallsInv, [Next]_vars
               PROVE  FallsInv'
    OBVIOUS
  <1>1. TypeInv'
    BY NextTypes DEF FallsInv
  <1>2. ASSUME Grows, UNCHANGED <<score, answer>>
        PROVE  FallsInv'
    BY <1>1, <1>2, EarlierKept DEF FallsInv
  <1>3. CASE UNCHANGED vars
    BY <1>2, <1>3 DEF vars, inventory, edges, verdicts, Grows, Recorded, Ever
  <1>4. CASE FlushSteps
    BY <1>2, <1>4, FlushLeaves DEF Grows, FallsInv, inventory, verdicts
  <1>5. ASSUME NEW t \in Tasks, TaskSteps(t)
        PROVE  FallsInv'
    <2>1. ASSUME NEW v, Rescore(t, v), Grows
          PROVE  FallsInv'
      BY <1>1, <2>1, RescoreEarlier DEF FallsInv
    <2>2. CASE StatementRaises(t)
      <3>1. \A d \in Devices : score'[d] = 0
        BY <2>2 DEF StatementRaises
      <3> QED
        BY <1>1, <3>1 DEF FallsInv, Earlier
    <2> QED
      BY <1>2, <1>5, <2>1, <2>2, TaskGrows DEF FallsInv
  <1> QED
    BY <1>3, <1>4, <1>5 DEF Next, FlushSteps

\* The rescoring that read all peers of a device that has lost none, and got
\* no smaller an answer, does not lower the score.
LEMMA RescoreFalls ==
    ASSUME FallsInv, NEW t \in Tasks,
           NEW v \in VulnerabilitySubScores(firmware[device[t]]), Rescore(t, v),
           NEW d \in Devices, score'[d] < score[d]
    PROVE  d \in stale' \/ AnswersLess(d) \/ Peers(d, Lost) # {}
  <1> SUFFICES ASSUME d \notin stale', ~AnswersLess(d), Peers(d, Lost) = {}
               PROVE  FALSE
    OBVIOUS
  <1> DEFINE c == device[t]
             peers == Peers(c, seen[t])
             new == CalculateScore(protocols[c], v, Cardinality(peers))
  <1>1. /\ score' = [score EXCEPT ![c] = new]
        /\ answer' = [answer EXCEPT ![c] = v]
        /\ stale' = IF peers = Peers(c, Recorded) THEN stale \ {c} ELSE stale \cup {c}
        /\ score[d] \in Nat
    BY DEF Rescore, FallsInv, TypeInv, TypeOK
  <1>2. d = c /\ score'[d] = new /\ answer'[d] = v
    BY <1>1 DEF FallsInv, TypeInv, TypeOK
  <1>3. peers = Peers(d, Recorded)
    BY <1>1, <1>2
  <1>4. Peers(d, Ever) = peers
    BY <1>3 DEF Peers, Ever, Lost
  <1>5. /\ IsFiniteSet(protocols[d]) /\ IsFiniteSet(peers)
        /\ v \in Answers /\ answer[d] \in Answers
    BY <1>3, AnswersTyped DEF FallsInv, TypeInv, TypeOK, Answers
  <1>6. \/ answer[d] = v
        \/ answer[d] # NoAnswer /\ v # NoAnswer /\ answer[d] <= v
    <2>1. \/ answer[d] = v
          \/ answer[d] # NoAnswer /\ v # NoAnswer /\ ~(v < answer[d])
      BY <1>2 DEF AnswersLess
    <2> QED
      BY <1>5, <2>1 DEF Answers
  <1>7. Cardinality(peers) \in Nat /\ new \in 0 .. 100
    BY <1>2, <1>5, FS_CardinalityType, ScoreType
  <1>8. CASE score[d] = 0
    BY <1>2, <1>7, <1>8
  <1>9. ASSUME NEW ps \in SUBSET protocols[d], NEW qs \in SUBSET peers,
               score[d] = CalculateScore(ps, answer[d], Cardinality(qs))
        PROVE  FALSE
    <2>1. IsFiniteSet(qs) /\ Cardinality(qs) <= Cardinality(peers)
      BY <1>5, FS_Subset
    <2>2. Cardinality(qs) \in Nat
      BY <2>1, FS_CardinalityType
    <2>3. CalculateScore(ps, answer[d], Cardinality(qs)) <= new
      BY <1>2, <1>5, <1>6, <1>7, <2>1, <2>2, ScoreGrows
    <2> HIDE DEF new
    <2> QED
      BY <1>1, <1>2, <1>7, <1>9, <2>3
  <1> QED
    BY <1>4, <1>8, <1>9 DEF FallsInv, Earlier

\* ScoreFallsForAReason: the score of a device in the inventory falls only if
\* the rescoring has read too few peers, the database answers less or with an
\* outage in between, or a cancelled flush has lost a path of the device; more
\* protocols and more peers never lower it (calculate_score,
\* exposure_sub_score).
THEOREM ScoresFallForAReason == Spec => ScoreFallsForAReason
  <1>1. Init => FallsInv
    <2> SUFFICES ASSUME Init
                 PROVE  FallsInv
      OBVIOUS
    <2>1. \A d \in Devices : score[d] = 0
      BY DEF Init
    <2> QED
      BY <2>1, InitTypes DEF FallsInv, Earlier
  <1>2. ASSUME FallsInv, [Next]_vars
        PROVE  [\A d \in Devices :
                   protocols'[d] # {} /\ score'[d] < score[d] =>
                       d \in stale' \/ AnswersLess(d) \/ Peers(d, Lost) # {}]_vars
    <2> SUFFICES ASSUME NEW d \in Devices, protocols'[d] # {},
                        score'[d] < score[d]
                 PROVE  d \in stale' \/ AnswersLess(d) \/ Peers(d, Lost) # {}
      OBVIOUS
    <2>1. score[d] \in Int
      BY <1>2 DEF FallsInv, TypeInv, TypeOK
    <2>2. score' # score
      BY <2>1
    <2>3. ~FlushSteps /\ ~UNCHANGED vars
      BY <1>2, <2>2, FlushLeaves DEF FallsInv, vars, verdicts
    <2>4. PICK t \in Tasks : TaskSteps(t)
      BY <1>2, <2>3 DEF Next, FlushSteps
    <2>5. ~StatementRaises(t)
      BY DEF StatementRaises
    <2>6. PICK v \in VulnerabilitySubScores(firmware[device[t]]) : Rescore(t, v)
      BY <2>2, <2>4, <2>5, OnlyRescoreScores
    <2> QED
      BY <1>2, <2>6, RescoreFalls
  <1> QED
    BY <1>1, <1>2, FallsStep, PTL DEF Spec, ScoreFallsForAReason
=============================================================================
