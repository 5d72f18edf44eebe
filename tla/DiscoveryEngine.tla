--------------------------- MODULE DiscoveryEngine --------------------------
(***************************************************************************)
(* The life cycle of app/discovery_engine.py around the topology mapper:   *)
(* start() with its periodic flush task, stop() with the cancellation of   *)
(* that task and the final flush, packets recorded at any moment of it,    *)
(* and devices deleted through the API meanwhile.                          *)
(*                                                                         *)
(* One caller at a time starts and stops the engine.                       *)
(***************************************************************************)
EXTENDS TopologyMapper

CONSTANTS
    MaxStarts,     \* bound: calls of start()
    MaxFailures    \* bound: database failures with no cause in the data

ASSUME EngineAssumption == MaxStarts \in Nat /\ MaxFailures \in Nat

VARIABLES
    engine,        \* where start() and stop() are
    starts,        \* calls of start() so far
    failures       \* database failures so far

lifeVars == <<engine, starts, failures>>
vars == <<buffer, observedTriples, snifferRunning, edgesTable, devices, phase,
          edgesToFlush, staged, observed, announced, dropped, recounted,
          purged, engine, starts, failures>>

\* "cancelling": stop() awaits the flush task it has cancelled;
\* "stopping": it awaits sniffer.stop(); "flushing": the final flush.
EngineStates == {"stopped", "running", "cancelling", "stopping", "flushing"}

Init ==
    /\ TopologyInit
    /\ engine = "stopped"
    /\ starts = 0
    /\ failures = 0

-----------------------------------------------------------------------------
(***************************************************************************)
(* start() and stop().                                                     *)
(***************************************************************************)
Start ==
    /\ engine = "stopped"
    /\ starts < MaxStarts
    /\ SetSnifferRunning(TRUE)
    /\ engine' = "running"
    /\ starts' = starts + 1
    /\ UNCHANGED <<buffer, edgesTable, devices, phase, edgesToFlush, staged,
                   observed, dropped, recounted, purged, failures>>

\* Mutant: stop() cancels the task without awaiting it.
StopWithoutAwait ==
    /\ engine = "running"
    /\ engine' = "stopping"
    /\ UNCHANGED topologyVars
    /\ UNCHANGED <<starts, failures>>

Stop ==
    /\ engine = "running"
    /\ engine' = "cancelling"
    /\ UNCHANGED topologyVars
    /\ UNCHANGED <<starts, failures>>

\* CancelledError reaches the task at the await it is suspended in: its
\* sleep, or the database operation of a flush.
TaskCancelled ==
    /\ engine = "cancelling"
    /\ CancelFlush("periodic")
    /\ engine' = "stopping"
    /\ UNCHANGED <<starts, failures>>

\* Nothing suspends between the return of sniffer.stop(), the setter and the
\* snapshot of the final flush.
SnifferStopped ==
    /\ engine = "stopping"
    /\ SetSnifferRunning(FALSE)
    /\ TakeBuffer("final")
    /\ engine' = IF buffer = NoEdges THEN "stopped" ELSE "flushing"
    /\ UNCHANGED <<edgesTable, devices, staged, observed, dropped, recounted,
                   purged, starts, failures>>

(***************************************************************************)
(* The flush task and the final flush.                                     *)
(***************************************************************************)

\* A cancelled task does nothing more of its own.
Runs(f) == f = "periodic" => engine # "cancelling"

\* Mutant: stop() does not end with its flush.
AfterFlushStays(f) == engine

\* stop() ends with its flush, whether that succeeded or raised.
AfterFlush(f) == IF f = "final" THEN "stopped" ELSE engine

\* asyncio.sleep(topology_flush_interval) is over.
PeriodicFlush ==
    /\ engine = "running"
    /\ buffer # NoEdges
    /\ TakeBuffer("periodic")
    /\ UNCHANGED <<observedTriples, snifferRunning, edgesTable, devices,
                   staged>>
    /\ UNCHANGED historyVars
    /\ UNCHANGED lifeVars

Persist(f) ==
    /\ Runs(f)
    /\ PersistEdges(f)
    /\ UNCHANGED lifeVars

Commit(f) ==
    /\ Runs(f)
    /\ CommitFlush(f)
    /\ engine' = AfterFlush(f)
    /\ UNCHANGED <<starts, failures>>

\* A failure of the database, of which there are MaxFailures.
Fail(f) ==
    /\ Runs(f)
    /\ failures < MaxFailures
    /\ failures' = failures + 1
    /\ FlushRaises(f) \/ CommitUnacknowledged(f)
    /\ UNCHANGED <<engine, starts>>

\* A row of the transaction names a device that is gone: always fails.
KeyViolation(f) ==
    /\ Runs(f)
    /\ phase[f] = "committing"
    /\ ~KeysHold(f)
    /\ FlushRaises(f)
    /\ UNCHANGED lifeVars

\* Mutant: the exception handler of flush_updates gives nothing back.
ForgetFlush(f) ==
    /\ phase[f] = "failed"
    /\ Runs(f)
    /\ FlushReturns(f)
    /\ engine' = AfterFlush(f)
    /\ UNCHANGED <<buffer, observedTriples, snifferRunning, edgesTable,
                   devices>>
    /\ UNCHANGED historyVars
    /\ UNCHANGED <<starts, failures>>

\* Both callers log the exception flush_updates re-raises and go on.
GiveBack(f) ==
    /\ Runs(f)
    /\ PutBack(f)
    /\ engine' = AfterFlush(f)
    /\ UNCHANGED <<starts, failures>>

(***************************************************************************)
(* Packets and the API.  Discovery handlers outlive the sniffer, and       *)
(* handle_topology_update is public: a triple may be recorded at any time, *)
(* also after one of its devices was deleted.                              *)
(***************************************************************************)
Record(t) ==
    /\ RecordCommunication(t)
    /\ UNCHANGED lifeVars

Delete(d) ==
    /\ DeleteDevice(d)
    /\ UNCHANGED lifeVars

FlushStep(f) ==
    Persist(f) \/ Commit(f) \/ Fail(f) \/ KeyViolation(f) \/ GiveBack(f)

Next ==
    \/ Start
    \/ Stop
    \/ TaskCancelled
    \/ SnifferStopped
    \/ PeriodicFlush
    \/ \E f \in Flushers : FlushStep(f)
    \/ \E t \in Triples : Record(t)
    \/ \E d \in Devices : Delete(d)

\* The event loop runs what is ready: timers fire, the database answers, a
\* cancellation is delivered.  Nobody has to call start() or stop(), send a
\* packet or delete a device.
Fairness ==
    /\ WF_vars(TaskCancelled)
    /\ WF_vars(SnifferStopped)
    /\ WF_vars(PeriodicFlush)
    /\ \A f \in Flushers : WF_vars(FlushStep(f))

Spec == Init /\ [][Next]_vars /\ Fairness

-----------------------------------------------------------------------------
TypeOK ==
    /\ buffer \in [Triples -> Edge]
    /\ observedTriples \in SUBSET Triples
    /\ snifferRunning \in BOOLEAN
    /\ edgesTable \in [Triples -> Edge]
    /\ devices \in SUBSET Devices
    /\ phase \in [Flushers -> {"idle", "persisting", "committing", "failed"}]
    /\ edgesToFlush \in [Flushers -> [Triples -> Edge]]
    /\ staged \in [Flushers -> [Triples -> Edge]]
    /\ observed \in [Triples -> Nat]
    /\ announced \in [Triples -> Nat]
    /\ dropped \in [Triples -> Nat]
    /\ recounted \in [Triples -> Nat]
    /\ purged \in [Triples -> Nat]
    /\ engine \in EngineStates
    /\ starts \in Nat
    /\ failures \in Nat

Total(t) ==
    buffer[t].count + edgesToFlush["periodic"][t].count
        + edgesToFlush["final"][t].count + edgesTable[t].count

\* Every packet recorded for a triple is at each moment in exactly one of
\* the buffer, a flush in progress and the table.  The exceptions are the
\* packets a cancelled flush took along, those a commit that was reported as
\* failed counts twice, and those deleted with a device.
Accounting ==
    \A t \in Triples :
        observed[t] + recounted[t] = Total(t) + dropped[t] + purged[t]

\* The periodic flush and the flush of stop() never run at the same time:
\* _persist_edge adds to a count it has read before, so that two flushes of
\* one triple would overwrite each other's sum.
FlushesNeverOverlap ==
    ~(phase["periodic"] # "idle" /\ phase["final"] # "idle")

(***************************************************************************)
(* What makes Accounting inductive: which flush may be in progress in      *)
(* which state of the engine, that a flush not in progress holds nothing,  *)
(* and that the rows a transaction is about to write are still the sum of  *)
(* the committed ones and of what it took from the buffer.                 *)
(***************************************************************************)
FlushesFollowEngine ==
    /\ phase["periodic"] # "idle" => engine \in {"running", "cancelling"}
    /\ phase["final"] # "idle" => engine = "flushing"

IdleFlushesEmpty ==
    \A f \in Flushers : phase[f] = "idle" => edgesToFlush[f] = NoEdges

StagedIsSum ==
    \A f \in Flushers : \A t \in Triples :
        phase[f] = "committing" /\ edgesToFlush[f][t].count > 0
            /\ Endpoints[t] \subseteq devices =>
                staged[f][t].count =
                    edgesTable[t].count + edgesToFlush[f][t].count

AccountingInv ==
    FlushesFollowEngine /\ IdleFlushesEmpty /\ StagedIsSum /\ Accounting

\* Makes AnnouncedOnce inductive.
AnnouncedInv ==
    \A t \in Triples :
        /\ t \in observedTriples => announced[t] = 1
        /\ t \notin observedTriples => announced[t] = 0

\* Where no packet was lost, the earliest entry of a triple carries its first
\* observation and the latest entry its latest one, through any number of
\* failed and merged flushes; and a row is as old as the triple.
TimestampsExact ==
    \A t \in Triples :
        LET entries == {e \in {buffer[t], edgesTable[t],
                               edgesToFlush["periodic"][t],
                               edgesToFlush["final"][t]} : e.count > 0}
        IN  observed[t] > 0 /\ dropped[t] = 0 /\ purged[t] = 0 =>
                /\ \E e \in entries : e.first = 1
                /\ \E e \in entries : e.last = observed[t]
                /\ edgesTable[t].count > 0 => edgesTable[t].first = 1

\* A communication path is announced once per run of the sniffer, however
\* often it is recorded before, during and after stop().
AnnouncedOnce == \A t \in Triples : announced[t] <= 1

\* stop() returns: neither a flush that keeps failing nor the cancellation
\* of a flush in progress holds it up forever.
StopCompletes == engine = "cancelling" ~> engine = "stopped"

\* While the engine runs and every device stays in the inventory, each
\* recorded packet reaches the table, although the database fails sometimes.
EventuallyPersisted ==
    \A t \in Triples : \A n \in 1 .. MaxObservations :
        (engine = "running" /\ observed[t] >= n) ~>
            \/ edgesTable[t].count + dropped[t] >= n
            \/ engine # "running"
            \/ devices # Devices

\* The mapper, its flushes and the engine around them implement the ledger:
\* a flush changes what is durable and never what is known, in whatever
\* order its steps and those of the others come.
Ledger == INSTANCE CommunicationLedger
    WITH known <- [t \in Triples |-> Total(t)],
         durable <- [t \in Triples |-> edgesTable[t].count]
ImplementsLedger == Ledger!Spec

-----------------------------------------------------------------------------
(***************************************************************************)
(* What the comments of the code promise, and the code does not keep.      *)
(***************************************************************************)

\* "put edges back into the buffer so they aren't lost": when stop() is
\* done, every recorded packet is in the table or still in the buffer.
\* stop() cancels the flush task in the middle of a transaction, and the
\* handler that puts the edges back is not run for CancelledError.
StopLosesNothing ==
    engine = "stopped" =>
        \A t \in Triples : purged[t] = 0 => observed[t] <= Total(t)

\* "periodically flushes them to the database at intervals no greater than
\* 60 seconds": a packet between two devices of the inventory reaches the
\* table.  One buffered edge of a deleted device makes every transaction
\* fail, and is put back into the buffer for the next one each time.
LiveEdgesPersisted ==
    \A t \in Triples :
        (engine = "running" /\ observed[t] >= 1) ~>
            \/ edgesTable[t].count + dropped[t] >= 1
            \/ engine # "running"
            \/ ~(Endpoints[t] \subseteq devices)
=============================================================================
