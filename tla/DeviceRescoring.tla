---------------------------- MODULE DeviceRescoring ----------------------------
(***************************************************************************)
(* The risk score of a device: when DiscoveryEngine of                     *)
(* app/discovery_engine.py recalculates it, from which peers, and what     *)
(* RiskScorer of app/scoring/risk_scorer.py makes of them.                 *)
(*                                                                         *)
(* A task is one call of _handle_passive_discovery,                        *)
(* _handle_active_probe_result or handle_topology_update.  The handlers    *)
(* share one session, and with it one object per device and the            *)
(* transaction that a failing statement loses; the mapper's queries and    *)
(* flushes have sessions of their own.  Alerts of the change detector, the *)
(* statements of the upsert and deletions are those of DiscoveryPipeline,  *)
(* and no part of this.                                                    *)
(***************************************************************************)
EXTENDS Integers, FiniteSets, Sequences

CONSTANTS
    Tasks,        \* calls of the three handlers
    Devices,
    Protocols,    \* protocols that fingerprints name
    Secure,       \* those in SECURE_PROTOCOLS
    Firmwares,
    Unknown,      \* firmware_version of a device of which none is known
    Fingerprints, \* those that arrive: a protocol, and a firmware or Unknown
    HasDatabase,  \* a vulnerability database is configured
    Severities,   \* its answers for a firmware, as sub-scores
    NoAnswer,     \* the answer of a database that cannot be reached
    PeerSteps,    \* numbers of peers above which the exposure is higher
    MaxFailures   \* bound: calls that raise, and flushes that are cancelled

ASSUME RescoringAssumption ==
    /\ Devices \cap {"record", "end"} = {}
    /\ Secure \subseteq Protocols
    /\ Unknown \notin Firmwares
    /\ Fingerprints \subseteq
           [protocol : Protocols, firmware : Firmwares \cup {Unknown}]
    /\ HasDatabase \in BOOLEAN
    /\ Severities \subseteq 0 .. 100
    /\ NoAnswer \notin 0 .. 100
    /\ PeerSteps \subseteq Nat /\ IsFiniteSet(PeerSteps)
    /\ Cardinality(PeerSteps) <= 3
    /\ MaxFailures \in Nat

VARIABLES
    protocols,   \* of each device; {} if it is not in the inventory
    firmware,    \* firmware_version of each device
    usable,      \* the handlers' session has not been broken by a statement
    score,       \* risk_score of each device
    table,       \* pairs of devices in topology_edges
    buffer,      \* those in the mapper's buffer
    flushing,    \* those a flush has taken and not committed
    at,          \* what each task awaits
    device,      \* the device a task rescores now
    after,       \* what it does after the rescoring: "record" or "end", or
                 \* the second device of a topology update
    seen,        \* what get_topology has returned so far
    stale,       \* history: devices whose last rescoring raised, or knew of
                 \* fewer peers than there were when it set the score
    basis,       \* history: the firmware each score was calculated with
    answer,      \* history: the database's answer it was calculated with
    dropped,     \* history: pairs that a cancelled flush has dropped
    failures     \* number of calls that raised, and of cancelled flushes

inventory == <<protocols, firmware, usable>>
edges == <<table, buffer, flushing, dropped>>
locals == <<at, device, after, seen>>
verdicts == <<score, stale, basis, answer>>
vars == <<inventory, edges, locals, verdicts, failures>>

Pairs == Devices \X Devices
Recorded == table \cup buffer \cup flushing
Lost == dropped \ Recorded
Known(d) == protocols[d] # {}

Peers(d, pairs) == {e \in Devices : <<d, e>> \in pairs \/ <<e, d>> \in pairs}

Init ==
    /\ protocols = [d \in Devices |-> {}]
    /\ firmware = [d \in Devices |-> Unknown]
    /\ usable = TRUE
    /\ score = [d \in Devices |-> 0]
    /\ table = {} /\ buffer = {} /\ flushing = {} /\ dropped = {}
    /\ at = [t \in Tasks |-> "new"]
    /\ device \in [Tasks -> Devices]
    /\ after = [t \in Tasks |-> "end"]
    /\ seen = [t \in Tasks |-> {}]
    /\ stale = {}
    /\ basis = firmware
    /\ answer = score
    /\ failures = 0

-----------------------------------------------------------------------------
(***************************************************************************)
(* RiskScorer.                                                             *)
(***************************************************************************)
Least(m, n) == IF m < n THEN m ELSE n

ProtocolSubScore(ps) ==
    Least(100, 5 * Cardinality(ps \cap Secure) + 25 * Cardinality(ps \ Secure))

\* What the vulnerability sub-score may be.  The database is asked at every
\* rescoring, if the firmware is known; without one there is no sub-score,
\* not even of an unknown firmware.
VulnerabilitySubScores(f) ==
    CASE ~HasDatabase -> {NoAnswer}
      [] f = Unknown  -> {0}
      [] OTHER        -> Severities \cup {NoAnswer}

\* Mutant: the classes are ranges that leave out their ends, and what is in
\* none of them is taken for the highest.
ExposureByRanges(n) ==
    CASE n = 0          -> 0
      [] n \in PeerSteps -> 100
      [] OTHER          -> 25 + 25 * Cardinality({s \in PeerSteps : n > s})

ExposureSubScore(n) ==
    IF n = 0 THEN 0 ELSE 25 + 25 * Cardinality({s \in PeerSteps : n > s})

\* round(): to the nearest integer, and to the even one in the middle.
Rounded(n, d) ==
    LET q == n \div d
        r == n % d
    IN  q + (IF 2 * r > d \/ (2 * r = d /\ q % 2 = 1) THEN 1 ELSE 0)

\* The sum with the weights 40, 35 and 25 in a hundred, or 40 and 25 in 65.
\* For these sub-scores the float the code rounds lies on the side of, or on,
\* the middle where the exact sum lies.
CalculateScore(ps, v, n) ==
    LET p == ProtocolSubScore(ps)
        e == ExposureSubScore(n)
    IN  Least(100, IF v = NoAnswer THEN Rounded(40 * p + 25 * e, 65)
                   ELSE Rounded(40 * p + 35 * v + 25 * e, 100))

\* A change that is reported.
Reported(old, new) == new - old > 10 \/ old - new > 10

-----------------------------------------------------------------------------
(***************************************************************************)
(* The mapper: record_communication, and the flush of its buffer.          *)
(***************************************************************************)
\* Whether the path is new: it is if the pair was never recorded, and may be
\* otherwise, by another protocol or because the sniffer was started again.
MaybeNew(pair) == IF pair \in Recorded \cup dropped THEN BOOLEAN ELSE {TRUE}

Record(pair) ==
    /\ buffer' = buffer \cup {pair}
    /\ UNCHANGED <<table, flushing, dropped>>

FlushTakes ==
    /\ flushing = {} /\ buffer # {}
    /\ flushing' = buffer
    /\ buffer' = {}
    /\ UNCHANGED <<inventory, table, dropped, locals, verdicts, failures>>

FlushCommits ==
    /\ flushing # {}
    /\ table' = table \cup flushing
    /\ flushing' = {}
    /\ UNCHANGED <<inventory, buffer, dropped, locals, verdicts, failures>>

FlushRaises ==
    /\ flushing # {}
    /\ failures < MaxFailures
    /\ failures' = failures + 1
    /\ buffer' = buffer \cup flushing
    /\ flushing' = {}
    /\ UNCHANGED <<inventory, table, dropped, locals, verdicts>>

\* stop() cancels the flush task: what its flush has taken is not put back.
FlushCancelled ==
    /\ flushing # {}
    /\ failures < MaxFailures
    /\ failures' = failures + 1
    /\ dropped' = dropped \cup flushing
    /\ flushing' = {}
    /\ UNCHANGED <<inventory, table, buffer, locals, verdicts>>

-----------------------------------------------------------------------------
(***************************************************************************)
(* The beginnings of the three handlers.                                   *)
(***************************************************************************)
MoveTo(t, state) == at' = [at EXCEPT ![t] = state]

\* The lookup of a passive discovery or of a probe result: only a passive
\* discovery of a device that was found records a communication later.
Lookup(t, passive) ==
    /\ usable
    /\ at[t] = "new"
    /\ MoveTo(t, "discovering")
    /\ after' = [after EXCEPT ![t] =
                    IF passive /\ Known(device[t]) THEN "record" ELSE "end"]
    /\ UNCHANGED <<inventory, edges, device, seen, verdicts, failures>>

\* upsert_device has returned.  A firmware that is known stays.
Upserted(t, p, f) ==
    LET d == device[t] IN
    /\ usable
    /\ at[t] = "discovering"
    /\ protocols' = [protocols EXCEPT ![d] = @ \cup {p}]
    /\ firmware' = [firmware EXCEPT ![d] = IF @ = Unknown THEN f ELSE @]
    /\ MoveTo(t, "selecting")
    /\ UNCHANGED <<usable, edges, device, after, seen, verdicts, failures>>

\* handle_topology_update, which rescores both devices in any case.
TopologyUpdate(t, e) ==
    LET pair == <<device[t], e>> IN
    /\ at[t] = "new"
    /\ Record(pair)
    /\ \E new \in MaybeNew(pair) : MoveTo(t, IF new THEN "announcing" ELSE "fetching")
    /\ after' = [after EXCEPT ![t] = e]
    /\ UNCHANGED <<inventory, device, seen, verdicts, failures>>

\* broadcast_json has returned.
Announced(t) ==
    /\ at[t] = "announcing"
    /\ MoveTo(t, IF after[t] \in Devices THEN "fetching" ELSE "selecting")
    /\ UNCHANGED <<inventory, edges, device, after, seen, verdicts, failures>>

\* A task goes on to the second device of a topology update, or ends.
NextDevice(t) ==
    IF after[t] \in Devices
    THEN /\ MoveTo(t, "fetching")
         /\ device' = [device EXCEPT ![t] = after[t]]
         /\ after' = [after EXCEPT ![t] = "end"]
    ELSE MoveTo(t, "done") /\ UNCHANGED <<device, after>>

\* get_device_by_id.
Fetched(t) ==
    /\ usable
    /\ at[t] = "fetching"
    /\ IF Known(device[t]) THEN MoveTo(t, "selecting") /\ UNCHANGED <<device, after>>
                           ELSE NextDevice(t)
    /\ UNCHANGED <<inventory, edges, seen, verdicts, failures>>

-----------------------------------------------------------------------------
(***************************************************************************)
(* _recalculate_risk_score.                                                *)
(***************************************************************************)
\* Mutant: the path is recorded, but nothing is rescored for it.
FinishWithoutRescoring(t) ==
    IF after[t] = "record"
    THEN /\ Record(<<device[t], device[t]>>)
         /\ after' = [after EXCEPT ![t] = "end"]
         /\ MoveTo(t, "done")
         /\ UNCHANGED device
    ELSE NextDevice(t) /\ UNCHANGED edges

\* What follows a rescoring, up to the next await.  A discovery records the
\* device itself at both ends of the path.
Finish(t) ==
    IF after[t] = "record"
    THEN LET pair == <<device[t], device[t]>> IN
         /\ Record(pair)
         /\ after' = [after EXCEPT ![t] = "end"]
         /\ \E new \in MaybeNew(pair) : MoveTo(t, IF new THEN "announcing" ELSE "done")
         /\ UNCHANGED device
    ELSE NextDevice(t) /\ UNCHANGED edges

\* get_topology: the rows, then the buffer, then the devices of both.
SelectEdges(t) ==
    /\ at[t] = "selecting"
    /\ seen' = [seen EXCEPT ![t] = table]
    /\ MoveTo(t, "merging")
    /\ UNCHANGED <<inventory, edges, device, after, verdicts, failures>>

MergeBuffer(t) ==
    /\ at[t] = "merging"
    /\ seen' = [seen EXCEPT ![t] = @ \cup buffer]
    /\ MoveTo(t, "describing")
    /\ UNCHANGED <<inventory, edges, device, after, verdicts, failures>>

\* get_topology has returned: the device is scored as it is now, with the
\* peers it had then and what the database answers.
Rescore(t, v) ==
    LET d == device[t]
        peers == Peers(d, seen[t])
        new == CalculateScore(protocols[d], v, Cardinality(peers))
    IN  /\ at[t] = "describing"
        /\ score' = [score EXCEPT ![d] = new]
        /\ stale' = IF peers = Peers(d, Recorded) THEN stale \ {d} ELSE stale \cup {d}
        /\ basis' = [basis EXCEPT ![d] = firmware[d]]
        /\ answer' = [answer EXCEPT ![d] = v]
        /\ seen' = [seen EXCEPT ![t] = {}]
        /\ \/ /\ Reported(score[d], new)
              /\ MoveTo(t, "alerting")
              /\ UNCHANGED <<device, after, edges>>
           \/ /\ ~Reported(score[d], new)
              /\ Finish(t)
        /\ UNCHANGED <<inventory, failures>>

\* The alert has been broadcast.
AlertSent(t) ==
    /\ at[t] = "alerting"
    /\ Finish(t)
    /\ UNCHANGED <<inventory, seen, verdicts, failures>>

\* get_topology raises, which _recalculate_risk_score passes over.
RescoringRaises(t) ==
    /\ at[t] \in {"selecting", "merging", "describing"}
    /\ failures < MaxFailures
    /\ failures' = failures + 1
    /\ stale' = stale \cup {device[t]}
    /\ seen' = [seen EXCEPT ![t] = {}]
    /\ Finish(t)
    /\ UNCHANGED <<inventory, score, basis, answer>>

\* An exception of the change detector or of the broadcast ends the handler.
HandlerRaises(t) ==
    /\ at[t] \in {"discovering", "announcing"}
    /\ failures < MaxFailures
    /\ failures' = failures + 1
    /\ stale' = stale \cup {device[t]} \cup ({after[t]} \cap Devices)
    /\ MoveTo(t, "done")
    /\ UNCHANGED <<inventory, edges, device, after, seen, score, basis, answer>>

\* A statement that raises loses the transaction, in which all devices are,
\* and breaks the session, so that the statements of others raise, too.
StatementRaises(t) ==
    /\ at[t] \in {"discovering", "fetching"}
    /\ failures' = IF usable THEN failures + 1 ELSE failures
    /\ failures' <= MaxFailures
    /\ usable' = FALSE
    /\ protocols' = [d \in Devices |-> {}]
    /\ firmware' = [d \in Devices |-> Unknown]
    /\ score' = [d \in Devices |-> 0]
    /\ MoveTo(t, "done")
    /\ UNCHANGED <<edges, device, after, seen, stale, basis, answer>>

-----------------------------------------------------------------------------
TaskSteps(t) ==
    \/ \E passive \in BOOLEAN : Lookup(t, passive)
    \/ \E x \in Fingerprints : Upserted(t, x.protocol, x.firmware)
    \/ \E e \in Devices : TopologyUpdate(t, e)
    \/ Announced(t) \/ Fetched(t)
    \/ SelectEdges(t) \/ MergeBuffer(t)
    \/ \E v \in VulnerabilitySubScores(firmware[device[t]]) : Rescore(t, v)
    \/ AlertSent(t)
    \/ RescoringRaises(t) \/ HandlerRaises(t) \/ StatementRaises(t)

Next ==
    \/ FlushTakes \/ FlushCommits \/ FlushRaises \/ FlushCancelled
    \/ \E t \in Tasks : TaskSteps(t)

Spec == Init /\ [][Next]_vars

-----------------------------------------------------------------------------
(***************************************************************************)
(* Properties.                                                             *)
(***************************************************************************)
TypeOK ==
    /\ protocols \in [Devices -> SUBSET Protocols]
    /\ firmware \in [Devices -> Firmwares \cup {Unknown}]
    /\ basis \in [Devices -> Firmwares \cup {Unknown}]
    /\ answer \in [Devices -> (0 .. 100) \cup {NoAnswer}]
    /\ score \in [Devices -> 0 .. 100]
    /\ usable \in BOOLEAN
    /\ table \subseteq Pairs /\ buffer \subseteq Pairs /\ flushing \subseteq Pairs
    /\ dropped \subseteq Pairs
    /\ at \in [Tasks -> {"new", "discovering", "announcing", "fetching", "selecting",
                         "merging", "describing", "alerting", "done"}]
    /\ device \in [Tasks -> Devices]
    /\ after \in [Tasks -> {"record", "end"} \cup Devices]
    /\ seen \in [Tasks -> SUBSET Pairs]
    /\ stale \subseteq Devices
    /\ failures \in 0 .. MaxFailures

\* No task that may still rescore the device is under way.
AtRest(d) == \A t \in Tasks : at[t] \notin {"new", "done"} => d \notin {device[t], after[t]}

\* Every change of what a score is made of is followed by a rescoring: when
\* all tasks about a device are done, its score is that of its protocols, its
\* peers and what the database last answered, and the database was asked for
\* the firmware the device has.  Not so if the last rescoring raised or had
\* read too few peers, or once a cancelled flush has dropped a path of the
\* device: its peers change without a rescoring then, and again when the path
\* is recorded anew, which is not announced (Requirement 7.7,
\* _recalculate_risk_score).
ScoreSettles ==
    /\ TypeOK
    /\ \A d \in Devices :
          Known(d) /\ AtRest(d) /\ d \notin stale /\ Peers(d, dropped) = {} =>
              /\ score[d] = CalculateScore(protocols[d], answer[d],
                                          Cardinality(Peers(d, Recorded)))
              /\ basis[d] = firmware[d]

\* The database answers less than at the last rescoring of the device, or
\* one of the two got no answer, and the other weights.
AnswersLess(d) ==
    /\ answer'[d] # answer[d]
    /\ NoAnswer \in {answer[d], answer'[d]} \/ answer'[d] < answer[d]

\* More protocols and more peers never lower a score.  The score of a device
\* in the inventory falls in three cases only: the rescoring has read too few
\* peers, the database answers less or with an outage in between, or a
\* cancelled flush has lost a path of the device (calculate_score,
\* exposure_sub_score).
ScoreFallsForAReason ==
    [][\A d \in Devices :
          protocols'[d] # {} /\ score'[d] < score[d] =>
              d \in stale' \/ AnswersLess(d) \/ Peers(d, Lost) # {}]_vars

\* At rest, a score is always that of the device, if nothing has raised and
\* no flush was cancelled.  Overlapping rescorings and flushes violate it: the
\* one that had read the older peers may be the last to set the score.  Add it
\* to the run's cfg to see how (_recalculate_risk_score,
\* handle_topology_update).
ScoreFollowsDevice ==
    failures = 0 =>
        \A d \in Devices : Known(d) /\ AtRest(d) =>
            score[d] = CalculateScore(protocols[d], answer[d],
                                      Cardinality(Peers(d, Recorded)))
=============================================================================
