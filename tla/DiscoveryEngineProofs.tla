------------------------ MODULE DiscoveryEngineProofs -----------------------
(***************************************************************************)
(* Proofs about DiscoveryEngine for every set of triples and devices and   *)
(* every bound: its type, the accounting of recorded packets, the mutual   *)
(* exclusion of flushes it rests on, the announcement of a path, that      *)
(* mapper and engine implement CommunicationLedger, and what the queries   *)
(* of TopologyQuery return while the engine's flushes go on.               *)
(***************************************************************************)
EXTENDS TopologyQuery, TLAPS

(***************************************************************************)
(* What the operations on one edge return: an edge whose count is the sum  *)
(* of what went into it.                                                   *)
(***************************************************************************)

\* _persist_edge adds the buffered count to the row's.
LEMMA PersistedRowSum ==
    ASSUME NEW row \in Edge, NEW edge \in Edge
    PROVE  /\ PersistedRow(row, edge) \in Edge
           /\ PersistedRow(row, edge).count = row.count + edge.count
  BY DEF PersistedRow, Edge, Later

\* The merge after a failed flush adds the counts.
LEMMA RestoredSum ==
    ASSUME NEW edge \in Edge, NEW back \in Edge
    PROVE  /\ Restored(edge, back) \in Edge
           /\ Restored(edge, back).count = edge.count + back.count
  BY DEF Restored, Edge, Earlier

\* record_communication adds one.
LEMMA CountedSum ==
    ASSUME NEW edge \in Edge, NEW now \in Nat
    PROVE  /\ Counted(edge, now) \in Edge
           /\ Counted(edge, now).count = edge.count + 1
  BY DEF Counted, Edge

LEMMA NoEdgesType == NoEdge \in Edge /\ NoEdges \in [Triples -> Edge]
  <1>1. NoEdge \in Edge
    BY DEF NoEdge, Edge
  <1>2. NoEdges \in [Triples -> Edge]
    BY <1>1 DEF NoEdges
  <1> QED
    BY <1>1, <1>2

-----------------------------------------------------------------------------
(***************************************************************************)
(* Type correctness.                                                       *)
(***************************************************************************)
LEMMA InitType == Init => TypeOK
  <1> SUFFICES ASSUME Init
               PROVE  TypeOK
    OBVIOUS
  <1>1. /\ edgesToFlush \in [Flushers -> [Triples -> Edge]]
        /\ staged \in [Flushers -> [Triples -> Edge]]
        /\ phase \in [Flushers ->
                        {"idle", "persisting", "committing", "failed"}]
    BY NoEdgesType DEF Init, TopologyInit
  <1>2. /\ observed \in [Triples -> Nat]
        /\ announced \in [Triples -> Nat]
        /\ dropped \in [Triples -> Nat]
        /\ recounted \in [Triples -> Nat]
        /\ purged \in [Triples -> Nat]
    BY DEF Init, TopologyInit
  <1> QED
    BY <1>1, <1>2, NoEdgesType
       DEF Init, TopologyInit, TypeOK, EngineStates

LEMMA SetterType ==
    ASSUME TypeOK, NEW value \in BOOLEAN, SetSnifferRunning(value)
    PROVE  /\ observedTriples' \in SUBSET Triples
           /\ announced' \in [Triples -> Nat]
           /\ snifferRunning' \in BOOLEAN
  BY DEF TypeOK, SetSnifferRunning

LEMMA TakeBufferType ==
    ASSUME TypeOK, NEW f \in Flushers, TakeBuffer(f)
    PROVE  /\ buffer' \in [Triples -> Edge]
           /\ phase' \in [Flushers ->
                            {"idle", "persisting", "committing", "failed"}]
           /\ edgesToFlush' \in [Flushers -> [Triples -> Edge]]
  BY NoEdgesType DEF TypeOK, TakeBuffer

LEMMA FlushReturnsType ==
    ASSUME TypeOK, NEW f \in Flushers, FlushReturns(f)
    PROVE  /\ phase' \in [Flushers ->
                            {"idle", "persisting", "committing", "failed"}]
           /\ edgesToFlush' \in [Flushers -> [Triples -> Edge]]
           /\ staged' \in [Flushers -> [Triples -> Edge]]
  BY NoEdgesType DEF TypeOK, FlushReturns

LEMMA WriteRowsType ==
    ASSUME TypeOK, NEW f \in Flushers, WriteRows(f)
    PROVE  edgesTable' \in [Triples -> Edge]
  BY DEF TypeOK, WriteRows

LEMMA NextType == TypeOK /\ [Next]_vars => TypeOK'
  <1> SUFFICES ASSUME TypeOK, [Next]_vars
               PROVE  TypeOK'
    OBVIOUS
  <1>1. CASE Start
    <2>1. /\ observedTriples' \in SUBSET Triples
          /\ announced' \in [Triples -> Nat]
          /\ snifferRunning' \in BOOLEAN
      BY <1>1, SetterType DEF Start
    <2> QED
      BY <1>1, <2>1 DEF Start, TypeOK, EngineStates
  <1>2. CASE Stop
    BY <1>2 DEF Stop, topologyVars, TypeOK, EngineStates
  <1>3. CASE TaskCancelled
    <2>0. "periodic" \in Flushers
      BY DEF Flushers
    <2>1. /\ phase' \in [Flushers ->
                           {"idle", "persisting", "committing", "failed"}]
          /\ edgesToFlush' \in [Flushers -> [Triples -> Edge]]
          /\ staged' \in [Flushers -> [Triples -> Edge]]
      BY <1>3, <2>0, FlushReturnsType DEF TaskCancelled, CancelFlush
    <2>2. edgesTable' \in [Triples -> Edge] /\ dropped' \in [Triples -> Nat]
      <3>1. CASE UNCHANGED edgesTable
                 /\ dropped' = [t \in Triples |->
                           dropped[t] + IF phase["periodic"] = "idle" THEN 0
                                  ELSE edgesToFlush["periodic"][t].count]
        BY <3>1, <2>0 DEF TypeOK, Edge
      <3>2. CASE WriteRows("periodic") /\ UNCHANGED dropped
        BY <3>2, <2>0, WriteRowsType DEF TypeOK
      <3> QED
        BY <1>3, <3>1, <3>2 DEF TaskCancelled, CancelFlush
    <2> QED
      BY <1>3, <2>1, <2>2 DEF TaskCancelled, CancelFlush, TypeOK, EngineStates
  <1>4. CASE SnifferStopped
    <2>1. "final" \in Flushers
      BY DEF Flushers
    <2> QED
      BY <1>4, <2>1, SetterType, TakeBufferType
         DEF SnifferStopped, TypeOK, EngineStates
  <1>5. CASE PeriodicFlush
    <2>1. "periodic" \in Flushers
      BY DEF Flushers
    <2> QED
      BY <1>5, <2>1, TakeBufferType
         DEF PeriodicFlush, TypeOK, historyVars, lifeVars
  <1>6. ASSUME NEW f \in Flushers, FlushStep(f)
        PROVE  TypeOK'
    <2>1. CASE Persist(f)
      <3>1. staged' \in [Flushers -> [Triples -> Edge]]
        BY <2>1, PersistedRowSum DEF Persist, PersistEdges, TypeOK
      <3> QED
        BY <2>1, <3>1
           DEF Persist, PersistEdges, TypeOK, historyVars, lifeVars
    <2>2. CASE Commit(f)
      BY <2>2, FlushReturnsType, WriteRowsType
         DEF Commit, CommitFlush, AfterFlush, TypeOK, EngineStates, historyVars
    <2>3. CASE Fail(f)
      <3>1. CASE FlushRaises(f)
        BY <2>3, <3>1 DEF Fail, FlushRaises, TypeOK, historyVars
      <3>2. CASE CommitUnacknowledged(f)
        <4>1. recounted' \in [Triples -> Nat]
          BY <3>2 DEF CommitUnacknowledged, TypeOK, Edge
        <4> QED
          BY <2>3, <3>2, <4>1, WriteRowsType
             DEF Fail, CommitUnacknowledged, TypeOK
      <3> QED
        BY <2>3, <3>1, <3>2 DEF Fail
    <2>4. CASE KeyViolation(f)
      BY <2>4 DEF KeyViolation, FlushRaises, TypeOK, historyVars, lifeVars
    <2>5. CASE GiveBack(f)
      <3>1. buffer' \in [Triples -> Edge]
        BY <2>5, RestoredSum DEF GiveBack, PutBack, TypeOK
      <3> QED
        BY <2>5, <3>1, FlushReturnsType
           DEF GiveBack, PutBack, AfterFlush, TypeOK, EngineStates, historyVars
    <2> QED
      BY <1>6, <2>1, <2>2, <2>3, <2>4, <2>5 DEF FlushStep
  <1>7. ASSUME NEW t \in Triples, Record(t)
        PROVE  TypeOK'
    <2>1. Counted(buffer[t], observed[t] + 1) \in Edge
      BY CountedSum DEF TypeOK
    <2> QED
      BY <1>7, <2>1 DEF Record, RecordCommunication, TypeOK, lifeVars
  <1>8. ASSUME NEW d \in Devices, Delete(d)
        PROVE  TypeOK'
    <2>1. purged' \in [Triples -> Nat]
      BY <1>8 DEF Delete, DeleteDevice, TypeOK, Edge
    <2>2. edgesTable' \in [Triples -> Edge]
      BY <1>8, NoEdgesType DEF Delete, DeleteDevice, TypeOK
    <2> QED
      BY <1>8, <2>1, <2>2 DEF Delete, DeleteDevice, TypeOK, lifeVars
  <1>9. CASE UNCHANGED vars
    BY <1>9 DEF vars, TypeOK
  <1> QED
    BY <1>1, <1>2, <1>3, <1>4, <1>5, <1>6, <1>7, <1>8, <1>9 DEF Next

\* Every variable keeps its type; in particular no count ever goes below 0.
THEOREM TypeCorrect == Spec => []TypeOK
  BY InitType, NextType, PTL DEF Spec
-----------------------------------------------------------------------------
(***************************************************************************)
(* The accounting of packets.  Each step of a flush moves one call's edges *)
(* between buffer, flight and table; StagedIsSum makes the committed rows  *)
(* the sum of the old ones and the edges, and it survives because the      *)
(* other call is idle and a deleted device keeps the commit from happening.*)
(***************************************************************************)
LEMMA InitAccounting == Init => AccountingInv
  BY DEF Init, TopologyInit, AccountingInv, FlushesFollowEngine,
         IdleFlushesEmpty, StagedIsSum, Accounting, Total, Flushers, NoEdges,
         NoEdge

\* What the rows of a flush's transaction hold when it may commit.
LEMMA WrittenRows ==
    ASSUME TypeOK, AccountingInv, NEW f \in Flushers, phase[f] = "committing",
           KeysHold(f), WriteRows(f)
    PROVE  \A t \in Triples :
             edgesTable'[t].count =
                 edgesTable[t].count + edgesToFlush[f][t].count
  <1> TAKE t \in Triples
  <1>1. edgesTable[t] \in Edge /\ edgesToFlush[f][t] \in Edge
    BY DEF TypeOK
  <1>2. CASE edgesToFlush[f][t].count > 0
    BY <1>2 DEF KeysHold, WriteRows, AccountingInv, StagedIsSum
  <1>3. CASE edgesToFlush[f][t].count = 0
    BY <1>1, <1>3 DEF WriteRows, Edge
  <1> QED
    BY <1>1, <1>2, <1>3 DEF Edge

\* A call that returns or ends leaves nothing in flight and nothing staged.
LEMMA ReturnedFlush ==
    ASSUME TypeOK, AccountingInv, NEW f \in Flushers, FlushReturns(f)
    PROVE  /\ phase'[f] = "idle" /\ edgesToFlush'[f] = NoEdges
           /\ \A g \in Flushers \ {f} :
                 /\ phase'[g] = phase[g]
                 /\ edgesToFlush'[g] = edgesToFlush[g]
                 /\ staged'[g] = staged[g]
  BY DEF FlushReturns, TypeOK

\* While one call is in progress, the other is idle and holds nothing.
LEMMA OtherFlushIdle ==
    ASSUME TypeOK, AccountingInv, NEW f \in Flushers, phase[f] # "idle",
           NEW g \in Flushers \ {f}
    PROVE  phase[g] = "idle" /\ edgesToFlush[g] = NoEdges
  BY DEF AccountingInv, FlushesFollowEngine, IdleFlushesEmpty, Flushers

\* The packets in memory, in the buffer or taken from it.
LEMMA TakenBuffer ==
    ASSUME TypeOK, AccountingInv, NEW f \in Flushers, TakeBuffer(f),
           NEW t \in Triples
    PROVE  buffer'[t].count + edgesToFlush'["periodic"][t].count
               + edgesToFlush'["final"][t].count =
           buffer[t].count + edgesToFlush["periodic"][t].count
               + edgesToFlush["final"][t].count
  <1>1. CASE buffer = NoEdges
    BY <1>1 DEF TakeBuffer
  <1>2. CASE buffer # NoEdges
    <2>1. /\ buffer' = NoEdges
          /\ edgesToFlush' = [edgesToFlush EXCEPT ![f] = buffer]
          /\ edgesToFlush[f] = NoEdges
      BY <1>2 DEF TakeBuffer, AccountingInv, IdleFlushesEmpty
    <2>2. NoEdges[t].count = 0
      BY DEF NoEdges, NoEdge
    <2>3. /\ buffer[t].count \in Nat
          /\ edgesToFlush["periodic"][t].count \in Nat
          /\ edgesToFlush["final"][t].count \in Nat
      BY DEF TypeOK, Edge, Flushers
    <2>4. CASE f = "periodic"
      BY <2>1, <2>2, <2>3, <2>4 DEF TypeOK, Flushers
    <2>5. CASE f = "final"
      BY <2>1, <2>2, <2>3, <2>5 DEF TypeOK, Flushers
    <2> QED
      BY <2>4, <2>5 DEF Flushers
  <1> QED
    BY <1>1, <1>2

LEMMA NextAccounting ==
    TypeOK /\ AccountingInv /\ [Next]_vars => AccountingInv'
  <1> SUFFICES ASSUME TypeOK, AccountingInv, [Next]_vars
               PROVE  AccountingInv'
    OBVIOUS
  <1> USE DEF AccountingInv
  <1>0. "periodic" \in Flushers /\ "final" \in Flushers
    BY DEF Flushers
  <1>1. CASE Start
    BY <1>1 DEF Start, FlushesFollowEngine, IdleFlushesEmpty, StagedIsSum,
                Accounting, Total, KeysHold
  <1>2. CASE Stop
    BY <1>2 DEF Stop, topologyVars, FlushesFollowEngine, IdleFlushesEmpty,
                StagedIsSum, Accounting, Total
  <1>3. CASE TaskCancelled
    <2>1. /\ phase'["periodic"] = "idle"
          /\ edgesToFlush'["periodic"] = NoEdges
          /\ phase'["final"] = phase["final"]
          /\ edgesToFlush'["final"] = edgesToFlush["final"]
          /\ phase["final"] = "idle"
      BY <1>3, <1>0, ReturnedFlush
         DEF TaskCancelled, CancelFlush, FlushesFollowEngine, Flushers
    <2>2. FlushesFollowEngine' /\ IdleFlushesEmpty' /\ StagedIsSum'
      BY <1>3, <2>1 DEF FlushesFollowEngine, IdleFlushesEmpty, StagedIsSum,
                        Flushers
    <2>3. Accounting'
      <3> SUFFICES ASSUME NEW t \in Triples
                   PROVE  observed'[t] + recounted'[t] =
                            Total(t)' + dropped'[t] + purged'[t]
        BY DEF Accounting
      <3>1. edgesToFlush'["periodic"][t].count = 0
        BY <2>1 DEF NoEdges, NoEdge
      <3>2. CASE UNCHANGED edgesTable
                 /\ dropped' = [u \in Triples |->
                           dropped[u] + IF phase["periodic"] = "idle" THEN 0
                                  ELSE edgesToFlush["periodic"][u].count]
        <4>1. phase["periodic"] = "idle" =>
                edgesToFlush["periodic"][t].count = 0
          BY <1>0 DEF IdleFlushesEmpty, NoEdges, NoEdge
        <4> QED
          BY <1>0, <1>3, <2>1, <3>1, <3>2, <4>1
             DEF TaskCancelled, CancelFlush, Accounting, Total, TypeOK, Edge
      <3>3. CASE /\ phase["periodic"] = "committing"
                 /\ KeysHold("periodic")
                 /\ WriteRows("periodic")
                 /\ UNCHANGED dropped
        <4>1. edgesTable'[t].count =
                edgesTable[t].count + edgesToFlush["periodic"][t].count
          BY <1>0, <3>3, WrittenRows
        <4> QED
          BY <1>0, <1>3, <2>1, <3>1, <3>3, <4>1
             DEF TaskCancelled, CancelFlush, Accounting, Total, TypeOK, Edge
      <3> QED
        BY <1>3, <3>2, <3>3 DEF TaskCancelled, CancelFlush
    <2> QED
      BY <2>2, <2>3
  <1>4. CASE SnifferStopped
    <2>1. TakeBuffer("final") /\ phase["periodic"] = "idle"
      BY <1>4 DEF SnifferStopped, FlushesFollowEngine
    <2>2. FlushesFollowEngine' /\ IdleFlushesEmpty' /\ StagedIsSum'
      BY <1>4, <2>1, <1>0
         DEF SnifferStopped, TakeBuffer, FlushesFollowEngine, IdleFlushesEmpty,
             StagedIsSum, Flushers, TypeOK
    <2>3. Accounting'
      <3>1. UNCHANGED <<edgesTable, observed, dropped, recounted, purged>>
        BY <1>4 DEF SnifferStopped
      <3> SUFFICES ASSUME NEW t \in Triples
                   PROVE  observed'[t] + recounted'[t] =
                            Total(t)' + dropped'[t] + purged'[t]
        BY DEF Accounting
      <3> QED
        BY <1>0, <2>1, <3>1, TakenBuffer DEF Accounting, Total
    <2> QED
      BY <2>2, <2>3
  <1>5. CASE PeriodicFlush
    <2>1. TakeBuffer("periodic") /\ phase["final"] = "idle"
      BY <1>5 DEF PeriodicFlush, FlushesFollowEngine
    <2>2. FlushesFollowEngine' /\ IdleFlushesEmpty' /\ StagedIsSum'
      BY <1>5, <2>1, <1>0
         DEF PeriodicFlush, TakeBuffer, FlushesFollowEngine, IdleFlushesEmpty,
             StagedIsSum, Flushers, TypeOK, lifeVars
    <2>3. Accounting'
      <3>1. UNCHANGED <<edgesTable, observed, dropped, recounted, purged>>
        BY <1>5 DEF PeriodicFlush, historyVars
      <3> SUFFICES ASSUME NEW t \in Triples
                   PROVE  observed'[t] + recounted'[t] =
                            Total(t)' + dropped'[t] + purged'[t]
        BY DEF Accounting
      <3> QED
        BY <1>0, <2>1, <3>1, TakenBuffer DEF Accounting, Total
    <2> QED
      BY <2>2, <2>3

  <1>6. ASSUME NEW f \in Flushers, FlushStep(f)
        PROVE  AccountingInv'
    <2> DEFINE Held(t) == edgesToFlush["periodic"][t].count
                              + edgesToFlush["final"][t].count
    <2>0. \A t \in Triples :
             /\ buffer[t] \in Edge /\ edgesTable[t] \in Edge
             /\ buffer[t].count \in Nat /\ edgesTable[t].count \in Nat
             /\ edgesToFlush["periodic"][t].count \in Nat
             /\ edgesToFlush["final"][t].count \in Nat
             /\ edgesToFlush[f][t].count \in Nat
             /\ observed[t] \in Nat /\ recounted[t] \in Nat
             /\ dropped[t] \in Nat /\ purged[t] \in Nat
             /\ observed[t] + recounted[t] =
                  Total(t) + dropped[t] + purged[t]
      BY <1>0 DEF TypeOK, Edge, Accounting
    \* The flush in progress holds all there is in flight, and it returns or
    \* keeps it.
    <2>1. ASSUME phase[f] # "idle"
          PROVE  \A t \in Triples :
                    /\ Held(t) = edgesToFlush[f][t].count
                    /\ FlushReturns(f) =>
                         /\ edgesToFlush'["periodic"][t].count = 0
                         /\ edgesToFlush'["final"][t].count = 0
      <3>1. CASE f = "periodic"
        BY <1>0, <2>0, <2>1, <3>1, OtherFlushIdle, ReturnedFlush
           DEF Flushers, NoEdges, NoEdge, Edge
      <3>2. CASE f = "final"
        BY <1>0, <2>0, <2>1, <3>2, OtherFlushIdle, ReturnedFlush
           DEF Flushers, NoEdges, NoEdge, Edge
      <3> QED
        BY <3>1, <3>2 DEF Flushers
    \* After a flush has returned, the facts about flushes hold of the other.
    <2>2. ASSUME phase[f] # "idle", FlushReturns(f), engine' = AfterFlush(f)
          PROVE  FlushesFollowEngine' /\ IdleFlushesEmpty' /\ StagedIsSum'
      <3>1. \A g \in Flushers : phase'[g] = "idle" /\ edgesToFlush'[g] = NoEdges
        BY <2>2, ReturnedFlush, OtherFlushIdle
      <3> QED
        BY <3>1, <1>0
           DEF FlushesFollowEngine, IdleFlushesEmpty, StagedIsSum
    <2>3. CASE Persist(f)
      <3>1. /\ phase[f] = "persisting"
            /\ phase' = [phase EXCEPT ![f] = "committing"]
            /\ UNCHANGED <<buffer, edgesTable, devices, edgesToFlush, engine>>
            /\ UNCHANGED <<observed, recounted, dropped, purged>>
            /\ staged' = [staged EXCEPT ![f] =
                  [t \in Triples |->
                     PersistedRow(edgesTable[t], edgesToFlush[f][t])]]
        BY <2>3 DEF Persist, PersistEdges, historyVars, lifeVars
      <3>2. FlushesFollowEngine' /\ IdleFlushesEmpty'
        BY <3>1, <1>0 DEF FlushesFollowEngine, IdleFlushesEmpty, TypeOK
      <3>3. StagedIsSum'
        <4> SUFFICES ASSUME NEW g \in Flushers, NEW t \in Triples,
                            phase'[g] = "committing"
                     PROVE  staged'[g][t].count =
                              edgesTable'[t].count + edgesToFlush'[g][t].count
          BY DEF StagedIsSum
        <4>1. g = f
          BY <3>1, OtherFlushIdle DEF TypeOK
        <4>2. staged'[f][t] = PersistedRow(edgesTable[t], edgesToFlush[f][t])
          BY <3>1 DEF TypeOK
        <4>3. edgesTable[t] \in Edge /\ edgesToFlush[f][t] \in Edge
          BY DEF TypeOK
        <4> QED
          BY <3>1, <4>1, <4>2, <4>3, PersistedRowSum
      <3>4. Accounting'
        BY <3>1 DEF Accounting, Total
      <3> QED
        BY <3>2, <3>3, <3>4
    <2>4. CASE Commit(f)
      <3>1. /\ phase[f] = "committing"
            /\ KeysHold(f)
            /\ WriteRows(f)
            /\ FlushReturns(f)
            /\ engine' = AfterFlush(f)
            /\ UNCHANGED <<buffer, observed, recounted, dropped, purged>>
        BY <2>4 DEF Commit, CommitFlush, historyVars
      <3>2. ASSUME NEW t \in Triples
            PROVE  observed'[t] + recounted'[t] =
                     Total(t)' + dropped'[t] + purged'[t]
        <4>1. edgesTable'[t].count =
                edgesTable[t].count + edgesToFlush[f][t].count
          BY <3>1, WrittenRows
        <4>2. /\ Held(t) = edgesToFlush[f][t].count
              /\ edgesToFlush'["periodic"][t].count = 0
              /\ edgesToFlush'["final"][t].count = 0
          BY <2>1, <3>1
        <4>3. Total(t) = buffer[t].count + edgesToFlush[f][t].count
                             + edgesTable[t].count
          BY <2>0, <4>2 DEF Total
        <4>4. Total(t)' = buffer[t].count + edgesTable[t].count
                              + edgesToFlush[f][t].count
          BY <2>0, <3>1, <4>1, <4>2 DEF Total
        <4> QED
          BY <2>0, <3>1, <4>3, <4>4
      <3> QED
        BY <2>2, <3>1, <3>2 DEF Accounting
    <2>5. ASSUME FlushRaises(f), UNCHANGED engine
          PROVE  AccountingInv'
      <3>1. /\ phase[f] # "idle"
            /\ phase' = [phase EXCEPT ![f] = "failed"]
            /\ UNCHANGED <<buffer, edgesTable, devices, edgesToFlush, staged>>
            /\ UNCHANGED <<observed, recounted, dropped, purged>>
        BY <2>5 DEF FlushRaises, historyVars
      <3>2. FlushesFollowEngine' /\ IdleFlushesEmpty' /\ StagedIsSum'
        BY <2>5, <3>1, <1>0
           DEF FlushesFollowEngine, IdleFlushesEmpty, StagedIsSum, TypeOK
      <3>3. Accounting'
        BY <3>1 DEF Accounting, Total
      <3> QED
        BY <3>2, <3>3
    <2>6. CASE Fail(f)
      <3>1. CASE CommitUnacknowledged(f)
        <4>1. /\ phase[f] = "committing"
              /\ KeysHold(f)
              /\ WriteRows(f)
              /\ phase' = [phase EXCEPT ![f] = "failed"]
              /\ recounted' = [t \in Triples |->
                                  recounted[t] + edgesToFlush[f][t].count]
              /\ UNCHANGED <<buffer, edgesToFlush, staged, devices, engine>>
              /\ UNCHANGED <<observed, dropped, purged>>
          BY <2>6, <3>1 DEF Fail, CommitUnacknowledged
        <4>2. FlushesFollowEngine' /\ IdleFlushesEmpty'
          BY <4>1, <1>0 DEF FlushesFollowEngine, IdleFlushesEmpty, TypeOK
        <4>3. \A g \in Flushers : phase'[g] # "committing"
          BY <4>1, OtherFlushIdle DEF TypeOK
        <4>4. ASSUME NEW t \in Triples
              PROVE  observed'[t] + recounted'[t] =
                       Total(t)' + dropped'[t] + purged'[t]
          <5>1. edgesTable'[t].count =
                  edgesTable[t].count + edgesToFlush[f][t].count
            BY <4>1, WrittenRows
          <5>2. recounted'[t] = recounted[t] + edgesToFlush[f][t].count
            BY <4>1
          <5>3. Total(t)' = Total(t) + edgesToFlush[f][t].count
            BY <2>0, <4>1, <5>1 DEF Total
          <5>4. /\ Total(t) \in Nat /\ edgesToFlush[f][t].count \in Nat
                /\ observed[t] \in Nat /\ recounted[t] \in Nat
                /\ dropped[t] \in Nat /\ purged[t] \in Nat
                /\ observed[t] + recounted[t] =
                     Total(t) + dropped[t] + purged[t]
            BY <2>0 DEF Total
          <5>5. /\ observed'[t] = observed[t] /\ dropped'[t] = dropped[t]
                /\ purged'[t] = purged[t]
            BY <4>1
          <5> QED
            BY <5>2, <5>3, <5>4, <5>5
        <4> QED
          BY <4>2, <4>3, <4>4 DEF StagedIsSum, Accounting
      <3> QED
        BY <2>5, <2>6, <3>1 DEF Fail
    <2>7. CASE KeyViolation(f)
      BY <2>5, <2>7 DEF KeyViolation, lifeVars
    <2>8. CASE GiveBack(f)
      <3>1. /\ phase[f] = "failed"
            /\ buffer' = [t \in Triples |->
                             Restored(buffer[t], edgesToFlush[f][t])]
            /\ FlushReturns(f)
            /\ engine' = AfterFlush(f)
            /\ UNCHANGED <<edgesTable, observed, recounted, dropped, purged>>
        BY <2>8 DEF GiveBack, PutBack, historyVars
      <3>2. ASSUME NEW t \in Triples
            PROVE  observed'[t] + recounted'[t] =
                     Total(t)' + dropped'[t] + purged'[t]
        <4>1. edgesToFlush[f][t] \in Edge
          BY DEF TypeOK
        <4>2. buffer'[t].count = buffer[t].count + edgesToFlush[f][t].count
          BY <2>0, <3>1, <4>1, RestoredSum
        <4>3. /\ Held(t) = edgesToFlush[f][t].count
              /\ edgesToFlush'["periodic"][t].count = 0
              /\ edgesToFlush'["final"][t].count = 0
          BY <2>1, <3>1
        <4>4. Total(t) = buffer[t].count + edgesToFlush[f][t].count
                             + edgesTable[t].count
          BY <2>0, <4>3 DEF Total
        <4>5. Total(t)' = buffer[t].count + edgesToFlush[f][t].count
                              + edgesTable[t].count
          BY <2>0, <3>1, <4>2, <4>3 DEF Total
        <4> QED
          BY <2>0, <3>1, <4>4, <4>5
      <3> QED
        BY <2>2, <3>1, <3>2 DEF Accounting
    <2> QED
      BY <1>6, <2>3, <2>4, <2>6, <2>7, <2>8 DEF FlushStep
  <1>7. ASSUME NEW t \in Triples, Record(t)
        PROVE  AccountingInv'
    <2>1. /\ buffer' = [buffer EXCEPT ![t] = Counted(@, observed[t] + 1)]
          /\ observed' = [observed EXCEPT ![t] = @ + 1]
          /\ UNCHANGED <<edgesTable, devices, phase, edgesToFlush, staged,
                         dropped, recounted, purged, engine>>
      BY <1>7 DEF Record, RecordCommunication, lifeVars
    <2>2. FlushesFollowEngine' /\ IdleFlushesEmpty' /\ StagedIsSum'
      BY <2>1 DEF FlushesFollowEngine, IdleFlushesEmpty, StagedIsSum
    <2>3. ASSUME NEW u \in Triples
          PROVE  observed'[u] + recounted'[u] =
                   Total(u)' + dropped'[u] + purged'[u]
      <3>1. observed[t] + 1 \in Nat /\ buffer[t] \in Edge
        BY DEF TypeOK
      <3>2. Counted(buffer[t], observed[t] + 1).count = buffer[t].count + 1
        BY <3>1, CountedSum
      <3>3. CASE u = t
        <4>1. /\ buffer'[t].count = buffer[t].count + 1
              /\ observed'[t] = observed[t] + 1
          BY <2>1, <3>2 DEF TypeOK
        <4>2. /\ buffer[t].count \in Nat /\ edgesTable[t].count \in Nat
              /\ edgesToFlush["periodic"][t].count \in Nat
              /\ edgesToFlush["final"][t].count \in Nat
              /\ observed[t] \in Nat /\ recounted[t] \in Nat
              /\ dropped[t] \in Nat /\ purged[t] \in Nat
          BY <1>0 DEF TypeOK, Edge
        <4>3. observed[t] + recounted[t] = Total(t) + dropped[t] + purged[t]
          BY DEF Accounting
        <4> QED
          BY <2>1, <3>3, <4>1, <4>2, <4>3 DEF Total
      <3>4. CASE u # t
        BY <2>1, <3>4 DEF Accounting, Total, TypeOK
      <3> QED
        BY <3>3, <3>4
    <2> QED
      BY <2>2, <2>3 DEF Accounting
  <1>8. ASSUME NEW d \in Devices, Delete(d)
        PROVE  AccountingInv'
    <2>1. /\ devices' = devices \ {d}
          /\ edgesTable' = [t \in Triples |-> IF d \in Endpoints[t]
                                              THEN NoEdge ELSE edgesTable[t]]
          /\ purged' = [t \in Triples |->
                          purged[t] + IF d \in Endpoints[t]
                                      THEN edgesTable[t].count ELSE 0]
          /\ UNCHANGED <<buffer, phase, edgesToFlush, staged, observed,
                         dropped, recounted, engine>>
      BY <1>8 DEF Delete, DeleteDevice, lifeVars
    <2>2. FlushesFollowEngine' /\ IdleFlushesEmpty'
      BY <2>1 DEF FlushesFollowEngine, IdleFlushesEmpty
    <2>3. StagedIsSum'
      BY <2>1 DEF StagedIsSum
    <2>4. Accounting'
      BY <1>0, <2>1 DEF Accounting, Total, TypeOK, Edge, NoEdge
    <2> QED
      BY <2>2, <2>3, <2>4
  <1>9. CASE UNCHANGED vars
    BY <1>9 DEF vars, FlushesFollowEngine, IdleFlushesEmpty, StagedIsSum,
                Accounting, Total
  <1> QED
    BY <1>1, <1>2, <1>3, <1>4, <1>5, <1>6, <1>7, <1>8, <1>9 DEF Next

\* No packet is lost or counted twice by flushing, whatever fails and in
\* whatever order packets, flushes, stops and deletions come, other than in
\* the three ways Accounting names.
THEOREM PacketsAccounted == Spec => []Accounting
  <1>1. AccountingInv => Accounting
    BY DEF AccountingInv
  <1> QED
    BY <1>1, InitAccounting, NextAccounting, TypeCorrect, PTL DEF Spec

\* stop() awaits the end of the cancelled flush before it starts its own.
THEOREM NoOverlap == Spec => []FlushesNeverOverlap
  <1>1. AccountingInv => FlushesNeverOverlap
    BY DEF AccountingInv, FlushesFollowEngine, FlushesNeverOverlap
  <1> QED
    BY <1>1, InitAccounting, NextAccounting, TypeCorrect, PTL DEF Spec

-----------------------------------------------------------------------------
(***************************************************************************)
(* Announcements: a triple is in the observed set exactly if it has been   *)
(* announced in this run of the sniffer, since the setter empties the set  *)
(* only where a run begins.                                                *)
(***************************************************************************)
THEOREM PathAnnouncedOnce == Spec => []AnnouncedOnce
  <1>1. Init => AnnouncedInv
    BY DEF Init, TopologyInit, AnnouncedInv
  <1>2. TypeOK /\ AnnouncedInv /\ [Next]_vars => AnnouncedInv'
    <2> SUFFICES ASSUME TypeOK, AnnouncedInv, [Next]_vars
                 PROVE  AnnouncedInv'
      OBVIOUS
    <2>1. CASE Start \/ SnifferStopped
      <3>1. SetSnifferRunning(TRUE) \/ SetSnifferRunning(FALSE)
        BY <2>1 DEF Start, SnifferStopped
      <3> QED
        BY <3>1 DEF SetSnifferRunning, AnnouncedInv
    <2>2. ASSUME NEW t \in Triples, Record(t)
          PROVE  AnnouncedInv'
      BY <2>2 DEF Record, RecordCommunication, AnnouncedInv, TypeOK
    <2>3. ASSUME NEW f \in Flushers, FlushStep(f)
          PROVE  UNCHANGED <<announced, observedTriples>>
      BY <2>3 DEF FlushStep, Persist, PersistEdges, Commit, CommitFlush, Fail,
                  FlushRaises, CommitUnacknowledged, KeyViolation, GiveBack,
                  PutBack, historyVars
    <2>4. CASE Stop \/ TaskCancelled \/ PeriodicFlush
               \/ \E d \in Devices : Delete(d)
      BY <2>4 DEF Stop, TaskCancelled, CancelFlush, PeriodicFlush, Delete,
                  DeleteDevice, topologyVars, historyVars, AnnouncedInv
    <2>5. CASE UNCHANGED vars
      BY <2>5 DEF vars, AnnouncedInv
    <2> QED
      BY <2>1, <2>2, <2>3, <2>4, <2>5 DEF Next, AnnouncedInv
  <1>3. AnnouncedInv => AnnouncedOnce
    <2> SUFFICES ASSUME AnnouncedInv, NEW t \in Triples
                 PROVE  announced[t] <= 1
      BY DEF AnnouncedOnce
    <2>1. announced[t] = 0 \/ announced[t] = 1
      BY DEF AnnouncedInv
    <2> QED
      BY <2>1
  <1> QED
    BY <1>1, <1>2, <1>3, TypeCorrect, PTL DEF Spec

-----------------------------------------------------------------------------
(***************************************************************************)
(* The refinement.  Accounting says by how much a step changes what is     *)
(* known: by the packets it records, counts twice, drops or deletes.  So   *)
(* it is enough to look at these and at the table.                         *)
(***************************************************************************)
LEMMA KnownPackets ==
    ASSUME TypeOK, AccountingInv, NEW t \in Triples
    PROVE  /\ Total(t) \in Nat /\ edgesTable[t].count \in Nat
           /\ edgesTable[t].count <= Total(t)
           /\ observed[t] \in Nat /\ recounted[t] \in Nat
           /\ dropped[t] \in Nat /\ purged[t] \in Nat
           /\ observed[t] + recounted[t] = Total(t) + dropped[t] + purged[t]
           /\ \A f \in Flushers :
                 /\ edgesToFlush[f][t].count \in Nat
                 /\ edgesTable[t].count + edgesToFlush[f][t].count <= Total(t)
  <1>1. /\ "periodic" \in Flushers /\ "final" \in Flushers
        /\ \A f \in Flushers : f = "periodic" \/ f = "final"
    BY DEF Flushers
  <1>2. /\ buffer[t].count \in Nat /\ edgesTable[t].count \in Nat
        /\ edgesToFlush["periodic"][t].count \in Nat
        /\ edgesToFlush["final"][t].count \in Nat
        /\ observed[t] \in Nat /\ recounted[t] \in Nat
        /\ dropped[t] \in Nat /\ purged[t] \in Nat
    BY <1>1 DEF TypeOK, Edge
  <1>3. observed[t] + recounted[t] = Total(t) + dropped[t] + purged[t]
    BY DEF AccountingInv, Accounting
  <1> QED
    BY <1>1, <1>2, <1>3 DEF Total

\* A step that changes neither the table nor any of these is no step of the
\* ledger.
LEMMA SameLedger ==
    ASSUME TypeOK, TypeOK', AccountingInv, AccountingInv',
           UNCHANGED <<edgesTable, observed, recounted, dropped, purged>>
    PROVE  UNCHANGED <<[t \in Triples |-> Total(t)],
                       [t \in Triples |-> edgesTable[t].count]>>
  <1>1. \A t \in Triples : Total(t)' = Total(t)
    <2> TAKE t \in Triples
    <2>1. /\ Total(t) \in Nat
          /\ observed[t] + recounted[t] = Total(t) + dropped[t] + purged[t]
          /\ dropped[t] \in Nat /\ purged[t] \in Nat
      BY KnownPackets
    <2>2. /\ Total(t)' \in Nat
          /\ observed[t] + recounted[t] = Total(t)' + dropped[t] + purged[t]
      BY DEF TypeOK, AccountingInv, Accounting, Total, Edge, Flushers
    <2> QED
      BY <2>1, <2>2
  <1> QED
    BY <1>1

LEMMA RecordObserves ==
    ASSUME TypeOK, TypeOK', AccountingInv, AccountingInv',
           NEW t \in Triples, Record(t)
    PROVE  Ledger!Observe
  <1>1. /\ observed' = [observed EXCEPT ![t] = @ + 1]
        /\ UNCHANGED <<edgesTable, recounted, dropped, purged>>
    BY DEF Record, RecordCommunication
  <1>2. ASSUME NEW u \in Triples
        PROVE  Total(u)' = IF u = t THEN Total(u) + 1 ELSE Total(u)
    <2>1. /\ Total(u) \in Nat /\ observed[u] \in Nat /\ recounted[u] \in Nat
          /\ dropped[u] \in Nat /\ purged[u] \in Nat
          /\ observed[u] + recounted[u] = Total(u) + dropped[u] + purged[u]
      BY KnownPackets
    <2>2. /\ Total(u)' \in Nat
          /\ observed'[u] + recounted[u] = Total(u)' + dropped[u] + purged[u]
      BY <1>1 DEF TypeOK, AccountingInv, Accounting, Total, Edge, Flushers
    <2>3. CASE u = t
      <3>1. observed'[u] = observed[u] + 1 /\ observed'[u] \in Nat
        BY <1>1, <2>1, <2>3 DEF TypeOK
      <3>2. Total(u)' = Total(u) + 1
        BY <2>1, <2>2, <3>1
      <3> QED
        BY <2>3, <3>2
    <2>4. CASE u # t
      <3>1. observed'[u] = observed[u]
        BY <1>1, <2>4 DEF TypeOK
      <3>2. Total(u)' = Total(u)
        BY <2>1, <2>2, <3>1
      <3> QED
        BY <2>4, <3>2
    <2> QED
      BY <2>3, <2>4
  <1>3. [u \in Triples |-> Total(u)]' =
          [[u \in Triples |-> Total(u)] EXCEPT ![t] = @ + 1]
    BY <1>2
  <1> QED
    BY <1>1, <1>3 DEF Ledger!Observe

\* A flush whose rows were written, and whose call knows it or is cancelled.
LEMMA CommitSaves ==
    ASSUME TypeOK, TypeOK', AccountingInv, AccountingInv',
           NEW f \in Flushers, phase[f] = "committing", KeysHold(f),
           WriteRows(f), UNCHANGED <<observed, recounted, dropped, purged>>
    PROVE  Ledger!Save
  <1>1. ASSUME NEW t \in Triples
        PROVE  /\ Total(t)' = Total(t)
               /\ edgesTable'[t].count \in Nat
               /\ edgesTable[t].count <= edgesTable'[t].count
               /\ edgesTable'[t].count <= Total(t)
    <2>1. /\ Total(t) \in Nat /\ edgesTable[t].count \in Nat
          /\ dropped[t] \in Nat /\ purged[t] \in Nat
          /\ observed[t] + recounted[t] = Total(t) + dropped[t] + purged[t]
          /\ edgesToFlush[f][t].count \in Nat
          /\ edgesTable[t].count + edgesToFlush[f][t].count <= Total(t)
      BY KnownPackets
    <2>2. /\ Total(t)' \in Nat
          /\ observed[t] + recounted[t] = Total(t)' + dropped[t] + purged[t]
      BY DEF TypeOK, AccountingInv, Accounting, Total, Edge, Flushers
    <2>3. edgesTable'[t].count =
            edgesTable[t].count + edgesToFlush[f][t].count
      BY WrittenRows
    <2> QED
      BY <2>1, <2>2, <2>3
  <1> QED
    BY <1>1 DEF Ledger!Save

LEMMA UnacknowledgedSavesTwice ==
    ASSUME TypeOK, TypeOK', AccountingInv, AccountingInv',
           NEW f \in Flushers, CommitUnacknowledged(f)
    PROVE  Ledger!SaveTwice
  <1>1. /\ phase[f] = "committing" /\ KeysHold(f) /\ WriteRows(f)
        /\ recounted' = [t \in Triples |->
                           recounted[t] + edgesToFlush[f][t].count]
        /\ UNCHANGED <<observed, dropped, purged>>
    BY DEF CommitUnacknowledged
  <1>2. ASSUME NEW t \in Triples
        PROVE  /\ Total(t)' \in Nat /\ edgesTable'[t].count \in Nat
               /\ edgesTable[t].count <= edgesTable'[t].count
               /\ edgesTable'[t].count <= Total(t)
               /\ Total(t)' - Total(t) =
                    edgesTable'[t].count - edgesTable[t].count
    <2>1. /\ Total(t) \in Nat /\ edgesTable[t].count \in Nat
          /\ observed[t] \in Nat /\ recounted[t] \in Nat
          /\ dropped[t] \in Nat /\ purged[t] \in Nat
          /\ observed[t] + recounted[t] = Total(t) + dropped[t] + purged[t]
          /\ edgesToFlush[f][t].count \in Nat
          /\ edgesTable[t].count + edgesToFlush[f][t].count <= Total(t)
      BY KnownPackets
    <2>2. /\ Total(t)' \in Nat
          /\ observed[t] + recounted'[t] = Total(t)' + dropped[t] + purged[t]
      BY <1>1 DEF TypeOK, AccountingInv, Accounting, Total, Edge, Flushers
    <2>3. edgesTable'[t].count =
            edgesTable[t].count + edgesToFlush[f][t].count
      BY <1>1, WrittenRows
    <2>4. recounted'[t] = recounted[t] + edgesToFlush[f][t].count
      BY <1>1
    <2> QED
      BY <2>1, <2>2, <2>3, <2>4
  <1> QED
    BY <1>2 DEF Ledger!SaveTwice

LEMMA CancellationDrops ==
    ASSUME TypeOK, TypeOK', AccountingInv, AccountingInv', TaskCancelled
    PROVE  Ledger!Drop \/ Ledger!Save
  <1>0. "periodic" \in Flushers
    BY DEF Flushers
  <1>1. CASE /\ dropped' = [t \in Triples |->
                     dropped[t] + IF phase["periodic"] = "idle" THEN 0
                                  ELSE edgesToFlush["periodic"][t].count]
             /\ UNCHANGED edgesTable
    <2>1. UNCHANGED <<observed, recounted, purged>>
      BY DEF TaskCancelled, CancelFlush
    <2>2. ASSUME NEW t \in Triples
          PROVE  /\ Total(t)' \in Nat
                 /\ edgesTable[t].count <= Total(t)'
                 /\ Total(t)' <= Total(t)
      <3>1. /\ Total(t) \in Nat /\ edgesTable[t].count \in Nat
            /\ dropped[t] \in Nat /\ purged[t] \in Nat
            /\ observed[t] + recounted[t] = Total(t) + dropped[t] + purged[t]
            /\ edgesToFlush["periodic"][t].count \in Nat
        BY <1>0, KnownPackets
      <3>2. /\ Total(t)' \in Nat
            /\ observed[t] + recounted[t] = Total(t)' + dropped'[t] + purged[t]
            /\ edgesTable[t].count <= Total(t)'
        BY <1>1, <2>1
           DEF TypeOK, AccountingInv, Accounting, Total, Edge, Flushers
      <3>3. dropped'[t] \in Nat /\ dropped[t] <= dropped'[t]
        BY <1>1, <3>1
      <3> QED
        BY <3>1, <3>2, <3>3
    <2> QED
      BY <1>1, <2>2 DEF Ledger!Drop
  <1>2. CASE /\ phase["periodic"] = "committing"
             /\ KeysHold("periodic")
             /\ WriteRows("periodic")
             /\ UNCHANGED dropped
    <2>1. UNCHANGED <<observed, recounted, dropped, purged>>
      BY <1>2 DEF TaskCancelled, CancelFlush
    <2> QED
      BY <1>0, <1>2, <2>1, CommitSaves
  <1> QED
    BY <1>1, <1>2 DEF TaskCancelled, CancelFlush

LEMMA DeletionDeletes ==
    ASSUME TypeOK, TypeOK', AccountingInv, AccountingInv',
           NEW d \in Devices, Delete(d)
    PROVE  Ledger!Delete
  <1> DEFINE gone == {t \in Triples : d \in Endpoints[t]}
  <1>1. /\ edgesTable' = [t \in Triples |-> IF d \in Endpoints[t]
                                            THEN NoEdge ELSE edgesTable[t]]
        /\ purged' = [t \in Triples |->
                        purged[t] + IF d \in Endpoints[t]
                                    THEN edgesTable[t].count ELSE 0]
        /\ UNCHANGED <<observed, recounted, dropped>>
    BY DEF Delete, DeleteDevice
  <1>2. ASSUME NEW t \in Triples
        PROVE  /\ edgesTable'[t].count = IF t \in gone THEN 0
                                         ELSE edgesTable[t].count
               /\ Total(t)' = IF t \in gone THEN Total(t) - edgesTable[t].count
                              ELSE Total(t)
    <2>1. /\ Total(t) \in Nat /\ edgesTable[t].count \in Nat
          /\ dropped[t] \in Nat /\ purged[t] \in Nat
          /\ observed[t] + recounted[t] = Total(t) + dropped[t] + purged[t]
      BY KnownPackets
    <2>2. /\ Total(t)' \in Nat
          /\ observed[t] + recounted[t] = Total(t)' + dropped[t] + purged'[t]
      BY <1>1 DEF TypeOK, AccountingInv, Accounting, Total, Edge, Flushers
    <2>3. /\ purged'[t] = purged[t] + IF t \in gone
                                      THEN edgesTable[t].count ELSE 0
          /\ edgesTable'[t].count = IF t \in gone THEN 0
                                    ELSE edgesTable[t].count
      BY <1>1 DEF NoEdge
    <2> QED
      BY <2>1, <2>2, <2>3
  <1>3. gone \in SUBSET Triples
    OBVIOUS
  <1> HIDE DEF gone
  <1> QED
    BY <1>2, <1>3 DEF Ledger!Delete

LEMMA LedgerStep ==
    ASSUME TypeOK, TypeOK', AccountingInv, AccountingInv', [Next]_vars
    PROVE  [Ledger!Next]_<<[t \in Triples |-> Total(t)],
                           [t \in Triples |-> edgesTable[t].count]>>
  <1>1. CASE Start \/ Stop \/ SnifferStopped \/ PeriodicFlush
             \/ UNCHANGED vars
    <2>1. UNCHANGED <<edgesTable, observed, recounted, dropped, purged>>
      BY <1>1 DEF Start, Stop, SnifferStopped, PeriodicFlush, topologyVars,
                  historyVars, vars
    <2> QED
      BY <2>1, SameLedger
  <1>2. CASE TaskCancelled
    BY <1>2, CancellationDrops DEF Ledger!Next
  <1>3. ASSUME NEW f \in Flushers, FlushStep(f)
        PROVE  [Ledger!Next]_<<[t \in Triples |-> Total(t)],
                               [t \in Triples |-> edgesTable[t].count]>>
    <2>1. CASE Commit(f)
      <3>1. /\ phase[f] = "committing" /\ KeysHold(f) /\ WriteRows(f)
            /\ UNCHANGED <<observed, recounted, dropped, purged>>
        BY <2>1 DEF Commit, CommitFlush, historyVars
      <3> QED
        BY <3>1, CommitSaves DEF Ledger!Next
    <2>2. CASE CommitUnacknowledged(f)
      BY <2>2, UnacknowledgedSavesTwice DEF Ledger!Next
    <2>3. CASE Persist(f) \/ FlushRaises(f) \/ GiveBack(f)
      <3>1. UNCHANGED <<edgesTable, observed, recounted, dropped, purged>>
        BY <2>3 DEF Persist, PersistEdges, FlushRaises, GiveBack, PutBack,
                    historyVars
      <3> QED
        BY <3>1, SameLedger
    <2> QED
      BY <1>3, <2>1, <2>2, <2>3 DEF FlushStep, Fail, KeyViolation
  <1>4. ASSUME NEW t \in Triples, Record(t)
        PROVE  Ledger!Next
    BY <1>4, RecordObserves DEF Ledger!Next
  <1>5. ASSUME NEW d \in Devices, Delete(d)
        PROVE  Ledger!Next
    BY <1>5, DeletionDeletes DEF Ledger!Next
  <1> QED
    BY <1>1, <1>2, <1>3, <1>4, <1>5 DEF Next

\* The mapper with its flushes, failures, cancellations and deletions is a
\* ledger, for any triples and devices: a flush changes what is durable and
\* never what is known, and a count goes wrong only in the ledger's ways.
THEOREM MapperIsLedger == Spec => ImplementsLedger
  <1>1. Init => Ledger!Init
    BY DEF Init, TopologyInit, Ledger!Init, Total, NoEdges, NoEdge, Flushers
  <1>2. TypeOK /\ TypeOK' /\ AccountingInv /\ AccountingInv' /\ [Next]_vars =>
          [Ledger!Next]_<<[t \in Triples |-> Total(t)],
                          [t \in Triples |-> edgesTable[t].count]>>
    BY LedgerStep
  <1> QED
    BY <1>1, <1>2, InitAccounting, NextAccounting, TypeCorrect, PTL
       DEF Spec, ImplementsLedger, Ledger!Spec

-----------------------------------------------------------------------------
(***************************************************************************)
(* Timestamps.  Of a triple nothing was lost of, the row is older than the *)
(* entry in flight, and that one older than the buffer's: so the first     *)
(* observation is in the first of them there is, and the latest in the     *)
(* last.  An edge with count 0 is none.                                    *)
(***************************************************************************)
InTimeOrder(row, taken, entry, n) ==
    /\ \A e \in {row, taken, entry} : e.count > 0 => 1 <= e.first /\ e.last <= n
    /\ row.count > 0 => row.first = 1
    /\ row.count = 0 /\ taken.count > 0 => taken.first = 1
    /\ row.count = 0 /\ taken.count = 0 /\ entry.count > 0 => entry.first = 1
    /\ entry.count > 0 => entry.last = n
    /\ entry.count = 0 /\ taken.count > 0 => taken.last = n
    /\ entry.count = 0 /\ taken.count = 0 /\ row.count > 0 => row.last = n

InFlight(t) ==
    IF edgesToFlush["periodic"][t].count > 0 THEN edgesToFlush["periodic"][t]
                                             ELSE edgesToFlush["final"][t]

TimesOrdered ==
    \A t \in Triples :
        dropped[t] = 0 /\ purged[t] = 0 =>
            InTimeOrder(edgesTable[t], InFlight(t), buffer[t], observed[t])

\* Stronger than StagedIsSum.
StagedIsRow ==
    \A f \in Flushers : \A t \in Triples :
        phase[f] = "committing" /\ edgesToFlush[f][t].count > 0
            /\ Endpoints[t] \subseteq devices =>
                staged[f][t] = PersistedRow(edgesTable[t], edgesToFlush[f][t])

TimesInv == TimesOrdered /\ StagedIsRow

LEMMA CountedInOrder ==
    ASSUME NEW row \in Edge, NEW taken \in Edge, NEW entry \in Edge,
           NEW n \in Nat, InTimeOrder(row, taken, entry, n),
           row.count = 0 /\ taken.count = 0 /\ entry.count = 0 => n = 0
    PROVE  InTimeOrder(row, taken, Counted(entry, n + 1), n + 1)
  BY DEF InTimeOrder, Counted, Edge

LEMMA PersistedInOrder ==
    ASSUME NEW row \in Edge, NEW taken \in Edge, NEW entry \in Edge,
           NEW n \in Nat, InTimeOrder(row, taken, entry, n), taken.count > 0,
           NEW rest \in Edge, rest = taken \/ rest.count = 0
    PROVE  InTimeOrder(PersistedRow(row, taken), rest, entry, n)
  BY DEF InTimeOrder, PersistedRow, Later, Edge

LEMMA RestoredInOrder ==
    ASSUME NEW row \in Edge, NEW taken \in Edge, NEW entry \in Edge,
           NEW n \in Nat, InTimeOrder(row, taken, entry, n),
           NEW rest \in Edge, rest.count = 0
    PROVE  InTimeOrder(row, rest, Restored(entry, taken), n)
  BY DEF InTimeOrder, Restored, Earlier, Edge

LEMMA TakenInOrder ==
    ASSUME NEW row \in Edge, NEW taken \in Edge, NEW entry \in Edge,
           NEW n \in Nat, InTimeOrder(row, taken, entry, n), taken.count = 0,
           NEW rest \in Edge, rest.count = 0
    PROVE  InTimeOrder(row, entry, rest, n)
  BY DEF InTimeOrder, Edge

LEMMA NothingInOrder ==
    ASSUME NEW row \in Edge, NEW taken \in Edge, NEW entry \in Edge,
           NEW n \in Nat, InTimeOrder(row, taken, entry, n), taken.count = 0,
           NEW rest \in Edge, rest.count = 0
    PROVE  InTimeOrder(row, rest, entry, n)
  BY DEF InTimeOrder, Edge

LEMMA TimesTypes ==
    ASSUME TypeOK, NEW t \in Triples
    PROVE  /\ edgesTable[t] \in Edge /\ buffer[t] \in Edge
           /\ InFlight(t) \in Edge /\ observed[t] \in Nat
           /\ \A f \in Flushers : edgesToFlush[f][t] \in Edge
           /\ dropped[t] \in Nat /\ purged[t] \in Nat
  BY DEF TypeOK, InFlight, Flushers

\* The flush in progress has what is in flight.
LEMMA WhatIsInFlight ==
    ASSUME TypeOK, AccountingInv, NEW f \in Flushers, phase[f] # "idle",
           NEW t \in Triples
    PROVE  IF edgesToFlush[f][t].count > 0
           THEN InFlight(t) = edgesToFlush[f][t]
           ELSE InFlight(t).count = 0
  <1>1. /\ edgesToFlush[f][t].count \in Nat
        /\ NoEdges[t].count = 0
    BY TimesTypes DEF Edge, NoEdges, NoEdge
  <1>2. \A g \in Flushers \ {f} : edgesToFlush[g] = NoEdges
    BY OtherFlushIdle
  <1>3. CASE f = "periodic"
    BY <1>1, <1>2, <1>3 DEF InFlight, Flushers
  <1>4. CASE f = "final"
    BY <1>1, <1>2, <1>4 DEF InFlight, Flushers
  <1> QED
    BY <1>3, <1>4 DEF Flushers

LEMMA NothingInFlight ==
    ASSUME NEW t \in Triples, \A f \in Flushers : edgesToFlush[f] = NoEdges
    PROVE  InFlight(t).count = 0
  BY DEF InFlight, Flushers, NoEdges, NoEdge

LEMMA InitTimes == Init => TimesInv
  BY DEF Init, TopologyInit, TimesInv, TimesOrdered, StagedIsRow, InTimeOrder,
         InFlight, Flushers, NoEdges, NoEdge

\* A step that leaves table, buffer, flushes and counts as they are.
LEMMA SameTimes ==
    ASSUME TimesInv,
           UNCHANGED <<edgesTable, buffer, edgesToFlush, observed, dropped,
                       purged, devices, staged>>,
           \A f \in Flushers : phase'[f] = "committing" => phase[f] = "committing"
    PROVE  TimesInv'
  BY DEF TimesInv, TimesOrdered, StagedIsRow, InFlight

LEMMA RecordTimes ==
    ASSUME TypeOK, AccountingInv, TimesInv, NEW t \in Triples, Record(t)
    PROVE  TimesInv'
  <1>1. /\ buffer' = [buffer EXCEPT ![t] = Counted(@, observed[t] + 1)]
        /\ observed' = [observed EXCEPT ![t] = @ + 1]
        /\ UNCHANGED <<edgesTable, devices, phase, edgesToFlush, staged,
                       dropped, purged>>
    BY DEF Record, RecordCommunication
  <1>2. ASSUME NEW u \in Triples, dropped[u] = 0, purged[u] = 0
        PROVE  InTimeOrder(edgesTable[u], InFlight(u), buffer'[u], observed'[u])
    <2>1. InTimeOrder(edgesTable[u], InFlight(u), buffer[u], observed[u])
      BY <1>2 DEF TimesInv, TimesOrdered
    <2>2. CASE u = t
      <3>1. /\ buffer'[u] = Counted(buffer[u], observed[u] + 1)
            /\ observed'[u] = observed[u] + 1
        BY <1>1, <2>2 DEF TypeOK
      <3>2. ASSUME edgesTable[u].count = 0, InFlight(u).count = 0,
                   buffer[u].count = 0
            PROVE  observed[u] = 0
        <4>1. /\ edgesToFlush["periodic"][u].count = 0
              /\ edgesToFlush["final"][u].count = 0
          BY <3>2 DEF InFlight, TypeOK, Edge, Flushers
        <4>2. Total(u) = 0
          BY <3>2, <4>1 DEF Total
        <4> QED
          BY <1>2, <4>2, KnownPackets
      <3> QED
        BY <2>1, <3>1, <3>2, TimesTypes, CountedInOrder
    <2>3. CASE u # t
      BY <1>1, <2>1, <2>3 DEF TypeOK
    <2> QED
      BY <2>2, <2>3
  <1>3. TimesOrdered'
    BY <1>1, <1>2 DEF TimesOrdered, InFlight
  <1>4. StagedIsRow'
    BY <1>1 DEF TimesInv, StagedIsRow
  <1> QED
    BY <1>3, <1>4 DEF TimesInv

LEMMA TakeBufferTimes ==
    ASSUME TypeOK, TypeOK', AccountingInv, AccountingInv', TimesInv,
           NEW f \in Flushers, TakeBuffer(f),
           \A g \in Flushers : phase[g] = "idle",
           UNCHANGED <<edgesTable, devices, staged, observed, dropped, purged>>
    PROVE  TimesInv'
  <1>1. CASE buffer = NoEdges
    BY <1>1, SameTimes DEF TakeBuffer
  <1>2. CASE buffer # NoEdges
    <2>1. /\ buffer' = NoEdges
          /\ edgesToFlush' = [edgesToFlush EXCEPT ![f] = buffer]
          /\ phase' = [phase EXCEPT ![f] = "persisting"]
      BY <1>2 DEF TakeBuffer
    <2>2. phase'[f] # "idle" /\ edgesToFlush'[f] = buffer
          /\ \A g \in Flushers : phase'[g] # "committing"
      BY <2>1 DEF TypeOK
    <2>3. ASSUME NEW t \in Triples, dropped[t] = 0, purged[t] = 0
          PROVE  InTimeOrder(edgesTable[t], InFlight(t)', buffer'[t],
                             observed[t])
      <3>1. InTimeOrder(edgesTable[t], InFlight(t), buffer[t], observed[t])
        BY <2>3 DEF TimesInv, TimesOrdered
      <3>2. InFlight(t).count = 0
        BY NothingInFlight DEF AccountingInv, IdleFlushesEmpty
      <3>3. buffer'[t] \in Edge /\ buffer'[t].count = 0
        BY <2>1, NoEdgesType DEF NoEdges, NoEdge
      <3>4. InFlight(t)' \in Edge
        BY DEF TypeOK, InFlight, Flushers
      <3>5. CASE buffer[t].count > 0
        <4>1. InFlight(t)' = buffer[t]
          <5>1. \A g \in Flushers \ {f} : edgesToFlush'[g] = NoEdges
            BY <2>1 DEF AccountingInv, IdleFlushesEmpty, TypeOK
          <5> QED
            BY <2>2, <3>5, <5>1 DEF InFlight, Flushers, NoEdges, NoEdge
        <4> QED
          BY <3>1, <3>2, <3>3, <4>1, TimesTypes, TakenInOrder
      <3>6. CASE buffer[t].count = 0
        <4>1. InFlight(t)'.count = 0
          <5>1. \A g \in Flushers \ {f} : edgesToFlush'[g] = NoEdges
            BY <2>1 DEF AccountingInv, IdleFlushesEmpty, TypeOK
          <5> QED
            BY <2>2, <3>6, <5>1 DEF InFlight, Flushers, NoEdges, NoEdge
        <4>2. InTimeOrder(edgesTable[t], buffer[t], buffer'[t], observed[t])
          BY <3>1, <3>2, <3>3, TimesTypes, TakenInOrder
        <4> QED
          BY <3>3, <3>4, <3>6, <4>1, <4>2, TimesTypes, NothingInOrder
      <3> QED
        BY <3>5, <3>6, TimesTypes DEF Edge
    <2>4. TimesOrdered'
      BY <2>3 DEF TimesOrdered
    <2>5. StagedIsRow'
      BY <2>2 DEF StagedIsRow
    <2> QED
      BY <2>4, <2>5 DEF TimesInv
  <1> QED
    BY <1>1, <1>2

\* The rows of a flush are written; its edges are gone or still in flight.
LEMMA WriteTimes ==
    ASSUME TypeOK, TypeOK', AccountingInv, TimesInv, NEW f \in Flushers,
           phase[f] = "committing", KeysHold(f), WriteRows(f),
           UNCHANGED <<buffer, observed, dropped, purged>>,
           \A g \in Flushers : phase'[g] # "committing",
           \/ \A g \in Flushers : edgesToFlush'[g] = NoEdges
           \/ UNCHANGED edgesToFlush
    PROVE  TimesInv'
  <1>1. ASSUME NEW t \in Triples, dropped[t] = 0, purged[t] = 0
        PROVE  InTimeOrder(edgesTable'[t], InFlight(t)', buffer[t], observed[t])
    <2>1. InTimeOrder(edgesTable[t], InFlight(t), buffer[t], observed[t])
      BY <1>1 DEF TimesInv, TimesOrdered
    <2>2. InFlight(t)' \in Edge
      BY DEF TypeOK, InFlight, Flushers
    <2>3. InFlight(t)' = InFlight(t) \/ InFlight(t)'.count = 0
      BY DEF InFlight, Flushers, NoEdges, NoEdge
    <2>4. CASE edgesToFlush[f][t].count > 0
      <3>1. InFlight(t) = edgesToFlush[f][t]
        BY <2>4, WhatIsInFlight
      <3>2. edgesTable'[t] = PersistedRow(edgesTable[t], InFlight(t))
        BY <2>4, <3>1 DEF WriteRows, KeysHold, TimesInv, StagedIsRow
      <3> QED
        BY <2>1, <2>2, <2>3, <2>4, <3>1, <3>2, TimesTypes, PersistedInOrder
    <2>5. CASE ~(edgesToFlush[f][t].count > 0)
      <3>1. InFlight(t).count = 0 /\ edgesTable'[t] = edgesTable[t]
        BY <2>5, WhatIsInFlight DEF WriteRows
      <3>2. InFlight(t)'.count = 0
        BY <2>3, <3>1
      <3> QED
        BY <2>1, <2>2, <3>1, <3>2, TimesTypes, NothingInOrder
    <2> QED
      BY <2>4, <2>5
  <1> QED
    BY <1>1 DEF TimesInv, TimesOrdered, StagedIsRow

\* After a flush has returned none is in progress.
LEMMA AllReturned ==
    ASSUME TypeOK, AccountingInv, NEW f \in Flushers, phase[f] # "idle",
           FlushReturns(f)
    PROVE  \A g \in Flushers : phase'[g] = "idle" /\ edgesToFlush'[g] = NoEdges
  BY ReturnedFlush, OtherFlushIdle

LEMMA FlushTimes ==
    ASSUME TypeOK, TypeOK', AccountingInv, TimesInv, NEW f \in Flushers,
           FlushStep(f)
    PROVE  TimesInv'
  <1>1. CASE Persist(f)
    <2>1. /\ phase[f] = "persisting"
          /\ phase' = [phase EXCEPT ![f] = "committing"]
          /\ UNCHANGED <<buffer, edgesTable, devices, edgesToFlush, observed,
                         dropped, purged>>
          /\ staged' = [staged EXCEPT ![f] =
                [t \in Triples |->
                   PersistedRow(edgesTable[t], edgesToFlush[f][t])]]
      BY <1>1 DEF Persist, PersistEdges, historyVars
    <2>2. TimesOrdered'
      BY <2>1 DEF TimesInv, TimesOrdered, InFlight
    <2>3. \A g \in Flushers : phase'[g] = "committing" => g = f
      BY <2>1, OtherFlushIdle DEF TypeOK
    <2>4. \A t \in Triples :
             staged'[f][t] = PersistedRow(edgesTable[t], edgesToFlush[f][t])
      BY <2>1 DEF TypeOK
    <2>5. StagedIsRow'
      BY <2>1, <2>3, <2>4 DEF StagedIsRow
    <2> QED
      BY <2>2, <2>5 DEF TimesInv
  <1>2. CASE Commit(f)
    <2>1. /\ phase[f] = "committing" /\ KeysHold(f) /\ WriteRows(f)
          /\ FlushReturns(f)
          /\ UNCHANGED <<buffer, observed, dropped, purged>>
      BY <1>2 DEF Commit, CommitFlush, historyVars
    <2>2. \A g \in Flushers : phase'[g] = "idle" /\ edgesToFlush'[g] = NoEdges
      BY <2>1, AllReturned
    <2> QED
      BY <2>1, <2>2, WriteTimes
  <1>3. CASE FlushRaises(f)
    <2>1. /\ phase' = [phase EXCEPT ![f] = "failed"]
          /\ UNCHANGED <<edgesTable, buffer, edgesToFlush, observed, dropped,
                         purged, devices, staged>>
      BY <1>3 DEF FlushRaises, historyVars
    <2>2. \A g \in Flushers : phase'[g] = "committing" => phase[g] = "committing"
      BY <2>1 DEF TypeOK
    <2> QED
      BY <2>1, <2>2, SameTimes
  <1>4. CASE CommitUnacknowledged(f)
    <2>1. /\ phase[f] = "committing" /\ KeysHold(f) /\ WriteRows(f)
          /\ phase' = [phase EXCEPT ![f] = "failed"]
          /\ UNCHANGED <<buffer, edgesToFlush, observed, dropped, purged>>
      BY <1>4 DEF CommitUnacknowledged
    <2>2. \A g \in Flushers : phase'[g] # "committing"
      BY <2>1, OtherFlushIdle DEF TypeOK
    <2> QED
      BY <2>1, <2>2, WriteTimes
  <1>5. CASE GiveBack(f)
    <2>1. /\ phase[f] = "failed"
          /\ buffer' = [t \in Triples |->
                           Restored(buffer[t], edgesToFlush[f][t])]
          /\ FlushReturns(f)
          /\ UNCHANGED <<edgesTable, observed, dropped, purged>>
      BY <1>5 DEF GiveBack, PutBack, historyVars
    <2>2. \A g \in Flushers : phase'[g] = "idle" /\ edgesToFlush'[g] = NoEdges
      BY <2>1, AllReturned
    <2>3. ASSUME NEW t \in Triples, dropped[t] = 0, purged[t] = 0
          PROVE  InTimeOrder(edgesTable[t], InFlight(t)', buffer'[t],
                             observed[t])
      <3>1. InTimeOrder(edgesTable[t], InFlight(t), buffer[t], observed[t])
        BY <2>3 DEF TimesInv, TimesOrdered
      <3>2. InFlight(t)' \in Edge /\ InFlight(t)'.count = 0
        BY <2>2 DEF TypeOK, InFlight, Flushers, NoEdges, NoEdge
      <3>3. buffer'[t] = Restored(buffer[t], edgesToFlush[f][t])
        BY <2>1
      <3>4. CASE edgesToFlush[f][t].count > 0
        <4>1. InFlight(t) = edgesToFlush[f][t]
          BY <2>1, <3>4, WhatIsInFlight
        <4> QED
          BY <3>1, <3>2, <3>3, <4>1, TimesTypes, RestoredInOrder
      <3>5. CASE ~(edgesToFlush[f][t].count > 0)
        <4>1. InFlight(t).count = 0
          BY <2>1, <3>5, WhatIsInFlight
        <4>2. buffer'[t] = buffer[t]
          BY <3>3, <3>5, TimesTypes DEF Restored, Edge
        <4> QED
          BY <3>1, <3>2, <4>1, <4>2, TimesTypes, NothingInOrder
      <3> QED
        BY <3>4, <3>5
    <2>4. TimesOrdered'
      BY <2>1, <2>3 DEF TimesOrdered
    <2>5. StagedIsRow'
      BY <2>2 DEF StagedIsRow
    <2> QED
      BY <2>4, <2>5 DEF TimesInv
  <1> QED
    BY <1>1, <1>2, <1>3, <1>4, <1>5 DEF FlushStep, Fail, KeyViolation

LEMMA CancelledTimes ==
    ASSUME TypeOK, TypeOK', AccountingInv, TimesInv, TaskCancelled
    PROVE  TimesInv'
  <1>0. "periodic" \in Flushers /\ phase["final"] = "idle"
        /\ FlushReturns("periodic")
        /\ UNCHANGED <<buffer, devices, observed, purged>>
    BY DEF TaskCancelled, CancelFlush, AccountingInv, FlushesFollowEngine,
           Flushers
  <1>1. \A g \in Flushers : phase'[g] = "idle" /\ edgesToFlush'[g] = NoEdges
    BY <1>0, ReturnedFlush DEF Flushers, AccountingInv, IdleFlushesEmpty
  <1>2. CASE /\ dropped' = [t \in Triples |->
                     dropped[t] + IF phase["periodic"] = "idle" THEN 0
                                  ELSE edgesToFlush["periodic"][t].count]
             /\ UNCHANGED edgesTable
    <2>1. ASSUME NEW t \in Triples, dropped'[t] = 0, purged[t] = 0
          PROVE  InTimeOrder(edgesTable[t], InFlight(t)', buffer[t],
                             observed[t])
      <3>1. dropped[t] = 0 /\ InFlight(t).count = 0
        <4>1. dropped[t] \in Nat /\ edgesToFlush["periodic"][t].count \in Nat
          BY <1>0, TimesTypes DEF Edge
        <4>2. CASE phase["periodic"] = "idle"
          <5>1. \A g \in Flushers : edgesToFlush[g] = NoEdges
            BY <1>0, <4>2 DEF Flushers, AccountingInv, IdleFlushesEmpty
          <5> QED
            BY <1>2, <2>1, <4>1, <4>2, <5>1, NothingInFlight
        <4>3. CASE phase["periodic"] # "idle"
          <5>1. dropped[t] = 0 /\ ~(edgesToFlush["periodic"][t].count > 0)
            BY <1>2, <2>1, <4>1, <4>3
          <5> QED
            BY <1>0, <4>3, <5>1, WhatIsInFlight
        <4> QED
          BY <4>2, <4>3
      <3>2. InTimeOrder(edgesTable[t], InFlight(t), buffer[t], observed[t])
        BY <2>1, <3>1 DEF TimesInv, TimesOrdered
      <3>3. InFlight(t)' \in Edge /\ InFlight(t)'.count = 0
        BY <1>1 DEF TypeOK, InFlight, Flushers, NoEdges, NoEdge
      <3> QED
        BY <3>1, <3>2, <3>3, TimesTypes, NothingInOrder
    <2>2. TimesOrdered'
      BY <1>0, <1>2, <2>1 DEF TimesOrdered
    <2>3. StagedIsRow'
      BY <1>1 DEF StagedIsRow
    <2> QED
      BY <2>2, <2>3 DEF TimesInv
  <1>3. CASE /\ phase["periodic"] = "committing"
             /\ KeysHold("periodic")
             /\ WriteRows("periodic")
             /\ UNCHANGED dropped
    BY <1>0, <1>1, <1>3, WriteTimes
  <1> QED
    BY <1>2, <1>3 DEF TaskCancelled, CancelFlush

LEMMA DeleteTimes ==
    ASSUME TypeOK, TypeOK', AccountingInv, TimesInv, NEW d \in Devices,
           Delete(d)
    PROVE  TimesInv'
  <1>1. /\ devices' = devices \ {d}
        /\ edgesTable' = [t \in Triples |-> IF d \in Endpoints[t]
                                            THEN NoEdge ELSE edgesTable[t]]
        /\ purged' = [t \in Triples |->
                        purged[t] + IF d \in Endpoints[t]
                                    THEN edgesTable[t].count ELSE 0]
        /\ UNCHANGED <<buffer, phase, edgesToFlush, staged, observed, dropped>>
    BY DEF Delete, DeleteDevice
  <1>2. ASSUME NEW t \in Triples, dropped[t] = 0, purged'[t] = 0
        PROVE  InTimeOrder(edgesTable'[t], InFlight(t), buffer[t], observed[t])
    <2>1. purged[t] \in Nat /\ edgesTable[t].count \in Nat
      BY TimesTypes DEF Edge
    <2>2. /\ purged[t] = 0
          /\ \/ edgesTable'[t] = edgesTable[t]
             \/ edgesTable[t].count = 0 /\ edgesTable'[t].count = 0
      BY <1>1, <1>2, <2>1 DEF NoEdge
    <2>3. InTimeOrder(edgesTable[t], InFlight(t), buffer[t], observed[t])
      BY <1>2, <2>2 DEF TimesInv, TimesOrdered
    <2> QED
      BY <2>2, <2>3 DEF InTimeOrder
  <1>3. TimesOrdered'
    BY <1>1, <1>2 DEF TimesOrdered, InFlight
  <1>4. StagedIsRow'
    BY <1>1 DEF TimesInv, StagedIsRow
  <1> QED
    BY <1>3, <1>4 DEF TimesInv

LEMMA NextTimes ==
    ASSUME TypeOK, TypeOK', AccountingInv, AccountingInv', TimesInv,
           [Next]_vars
    PROVE  TimesInv'
  <1>1. CASE Start \/ Stop \/ UNCHANGED vars
    BY <1>1, SameTimes DEF Start, Stop, vars, topologyVars
  <1>2. CASE TaskCancelled
    BY <1>2, CancelledTimes
  <1>3. CASE SnifferStopped
    <2>1. /\ "final" \in Flushers /\ TakeBuffer("final")
          /\ \A g \in Flushers : phase[g] = "idle"
      BY <1>3 DEF SnifferStopped, TakeBuffer, AccountingInv,
                  FlushesFollowEngine, Flushers
    <2> QED
      BY <1>3, <2>1, TakeBufferTimes DEF SnifferStopped
  <1>4. CASE PeriodicFlush
    <2>1. /\ "periodic" \in Flushers /\ TakeBuffer("periodic")
          /\ \A g \in Flushers : phase[g] = "idle"
      BY <1>4 DEF PeriodicFlush, TakeBuffer, AccountingInv,
                  FlushesFollowEngine, Flushers
    <2> QED
      BY <1>4, <2>1, TakeBufferTimes DEF PeriodicFlush, historyVars
  <1>5. ASSUME NEW f \in Flushers, FlushStep(f)
        PROVE  TimesInv'
    BY <1>5, FlushTimes
  <1>6. ASSUME NEW t \in Triples, Record(t)
        PROVE  TimesInv'
    BY <1>6, RecordTimes
  <1>7. ASSUME NEW d \in Devices, Delete(d)
        PROVE  TimesInv'
    BY <1>7, DeleteTimes
  <1> QED
    BY <1>1, <1>2, <1>3, <1>4, <1>5, <1>6, <1>7 DEF Next

LEMMA OrderedIsExact ==
    ASSUME TypeOK, AccountingInv, TimesInv
    PROVE  TimestampsExact
  <1> SUFFICES ASSUME NEW t \in Triples, observed[t] > 0, dropped[t] = 0,
                      purged[t] = 0
               PROVE  LET entries ==
                            {e \in {buffer[t], edgesTable[t],
                                    edgesToFlush["periodic"][t],
                                    edgesToFlush["final"][t]} : e.count > 0}
                      IN  /\ \E e \in entries : e.first = 1
                          /\ \E e \in entries : e.last = observed[t]
                          /\ edgesTable[t].count > 0 => edgesTable[t].first = 1
    BY DEF TimestampsExact
  <1>1. InTimeOrder(edgesTable[t], InFlight(t), buffer[t], observed[t])
    BY DEF TimesInv, TimesOrdered
  <1>2. /\ edgesTable[t].count \in Nat /\ buffer[t].count \in Nat
        /\ InFlight(t).count \in Nat
    BY TimesTypes DEF Edge
  <1>3. ASSUME edgesTable[t].count = 0, InFlight(t).count = 0
        PROVE  buffer[t].count > 0
    <2>1. /\ edgesToFlush["periodic"][t].count = 0
          /\ edgesToFlush["final"][t].count = 0
      BY <1>3 DEF InFlight, TypeOK, Edge, Flushers
    <2>2. Total(t) = buffer[t].count
      BY <1>2, <1>3, <2>1 DEF Total
    <2> QED
      BY <1>2, <2>2, KnownPackets
  <1>4. InFlight(t) \in {edgesToFlush["periodic"][t], edgesToFlush["final"][t]}
    BY DEF InFlight
  <1>5. \E e \in {edgesTable[t], InFlight(t), buffer[t]} :
           e.count > 0 /\ e.first = 1
    BY <1>1, <1>2, <1>3 DEF InTimeOrder
  <1>6. \E e \in {edgesTable[t], InFlight(t), buffer[t]} :
           e.count > 0 /\ e.last = observed[t]
    BY <1>1, <1>2, <1>3 DEF InTimeOrder
  <1>7. edgesTable[t].count > 0 => edgesTable[t].first = 1
    BY <1>1 DEF InTimeOrder
  <1> QED
    BY <1>4, <1>5, <1>6, <1>7

\* Where no packet of a triple was lost, its entries carry the first and the
\* latest observation, through any failed, merged and repeated flushes.
THEOREM TimesAreKept == Spec => []TimestampsExact
  BY InitTimes, NextTimes, OrderedIsExact, InitAccounting, NextAccounting,
     TypeCorrect, PTL DEF Spec
-----------------------------------------------------------------------------
(***************************************************************************)
(* Queries.  While a query is between its two reads, what it has read and  *)
(* what it may still read together are no more than what was recorded or   *)
(* counted twice: a flush that gives its edges back brings none that the   *)
(* query has read, since the table has them only if the commit was         *)
(* reported as failed, and then they count twice anyway.                   *)
(***************************************************************************)
Unsaved(t) ==
    buffer[t].count + edgesToFlush["periodic"][t].count
        + edgesToFlush["final"][t].count

ReadAtMostRecorded ==
    \A t \in Triples :
        counts[t] + (IF query = "merging" THEN Unsaved(t) ELSE 0)
            <= observed[t] + recounted[t]

\* A query that nothing has disturbed has read the table as it is, and no
\* flush holds anything.
QuietReadIsExact ==
    query = "merging" /\ ~disturbed =>
        /\ ~FlushInProgress
        /\ \A t \in Triples : counts[t] = edgesTable[t].count

QueryInv ==
    QueryTypeOK /\ ReadAtMostRecorded /\ QuietReadIsExact /\ EdgesHaveNodes

LEMMA QueryStepIsEngineStep == [QueryNext]_allVars => [Next]_vars
  BY DEF QueryNext, EngineStep, ReadEdges, MergeBuffer, DescribeNodes,
         NextQuery, allVars, vars

LEMMA UnsavedCounts ==
    ASSUME TypeOK, AccountingInv, NEW t \in Triples
    PROVE  /\ Unsaved(t) \in Nat /\ buffer[t].count \in Nat
           /\ buffer[t].count <= Unsaved(t)
           /\ Total(t) = Unsaved(t) + edgesTable[t].count
           /\ edgesTable[t].count \in Nat
           /\ observed[t] \in Nat /\ recounted[t] \in Nat
           /\ dropped[t] \in Nat /\ purged[t] \in Nat
           /\ observed[t] + recounted[t] =
                Unsaved(t) + edgesTable[t].count + dropped[t] + purged[t]
  <1>1. "periodic" \in Flushers /\ "final" \in Flushers
    BY DEF Flushers
  <1>2. /\ buffer[t].count \in Nat /\ edgesTable[t].count \in Nat
        /\ edgesToFlush["periodic"][t].count \in Nat
        /\ edgesToFlush["final"][t].count \in Nat
    BY <1>1 DEF TypeOK, Edge
  <1> QED
    BY <1>2, KnownPackets DEF Unsaved, Total

\* What has left memory never comes back into it, but by a commit reported
\* as failed; and the records only grow.
LEMMA RecordsGrow ==
    ASSUME TypeOK, TypeOK', AccountingInv, AccountingInv', [Next]_vars,
           NEW t \in Triples
    PROVE  /\ observed[t] <= observed'[t] /\ recounted[t] <= recounted'[t]
           /\ edgesTable[t].count + dropped[t] + purged[t] <=
                edgesTable'[t].count + dropped'[t] + purged'[t]
  <1>1. /\ edgesTable[t].count \in Nat
        /\ observed[t] \in Nat /\ recounted[t] \in Nat
        /\ dropped[t] \in Nat /\ purged[t] \in Nat
        /\ \A f \in Flushers : edgesToFlush[f][t].count \in Nat
    BY KnownPackets
  <1>2. CASE UNCHANGED <<edgesTable, observed, recounted, dropped, purged>>
    BY <1>1, <1>2
  <1>3. ASSUME NEW f \in Flushers, phase[f] = "committing", KeysHold(f),
               WriteRows(f), UNCHANGED <<observed, dropped, purged>>,
               recounted[t] <= recounted'[t]
        PROVE  /\ observed[t] <= observed'[t] /\ recounted[t] <= recounted'[t]
               /\ edgesTable[t].count + dropped[t] + purged[t] <=
                    edgesTable'[t].count + dropped'[t] + purged'[t]
    <2>1. edgesTable'[t].count =
            edgesTable[t].count + edgesToFlush[f][t].count
      BY <1>3, WrittenRows
    <2> QED
      BY <1>1, <1>3, <2>1
  <1>4. CASE TaskCancelled
    <2>1. "periodic" \in Flushers
      BY DEF Flushers
    <2>2. UNCHANGED <<observed, recounted, purged>>
      BY <1>4 DEF TaskCancelled, CancelFlush
    <2>3. CASE /\ dropped' = [u \in Triples |->
                       dropped[u] + IF phase["periodic"] = "idle" THEN 0
                                    ELSE edgesToFlush["periodic"][u].count]
               /\ UNCHANGED edgesTable
      <3>1. dropped[t] <= dropped'[t] /\ dropped'[t] \in Nat
        BY <1>1, <2>1, <2>3
      <3> QED
        BY <1>1, <2>2, <2>3, <3>1
    <2>4. CASE /\ phase["periodic"] = "committing"
               /\ KeysHold("periodic")
               /\ WriteRows("periodic")
               /\ UNCHANGED dropped
      BY <1>1, <1>3, <2>1, <2>2, <2>4
    <2> QED
      BY <1>4, <2>3, <2>4 DEF TaskCancelled, CancelFlush
  <1>5. ASSUME NEW f \in Flushers, FlushStep(f)
        PROVE  /\ observed[t] <= observed'[t] /\ recounted[t] <= recounted'[t]
               /\ edgesTable[t].count + dropped[t] + purged[t] <=
                    edgesTable'[t].count + dropped'[t] + purged'[t]
    <2>1. CASE Commit(f)
      BY <1>1, <1>3, <2>1 DEF Commit, CommitFlush, historyVars
    <2>2. CASE CommitUnacknowledged(f)
      <3>1. recounted'[t] = recounted[t] + edgesToFlush[f][t].count
        BY <2>2 DEF CommitUnacknowledged
      <3> QED
        BY <1>1, <1>3, <2>2, <3>1 DEF CommitUnacknowledged
    <2>3. CASE Persist(f) \/ FlushRaises(f) \/ GiveBack(f)
      BY <1>2, <2>3 DEF Persist, PersistEdges, FlushRaises, GiveBack, PutBack,
                        historyVars
    <2> QED
      BY <1>5, <2>1, <2>2, <2>3 DEF FlushStep, Fail, KeyViolation
  <1>6. ASSUME NEW u \in Triples, Record(u)
        PROVE  /\ observed[t] <= observed'[t]
               /\ UNCHANGED <<edgesTable, recounted, dropped, purged>>
    BY <1>1, <1>6 DEF Record, RecordCommunication, TypeOK
  <1>7. ASSUME NEW d \in Devices, Delete(d)
        PROVE  /\ UNCHANGED <<observed, recounted, dropped>>
               /\ edgesTable[t].count + purged[t] <=
                    edgesTable'[t].count + purged'[t]
    <2>1. /\ edgesTable'[t].count = IF d \in Endpoints[t] THEN 0
                                    ELSE edgesTable[t].count
          /\ purged'[t] = purged[t] + IF d \in Endpoints[t]
                                      THEN edgesTable[t].count ELSE 0
          /\ UNCHANGED <<observed, recounted, dropped>>
      BY <1>7 DEF Delete, DeleteDevice, NoEdge
    <2> QED
      BY <1>1, <2>1
  <1>8. CASE Start \/ Stop \/ SnifferStopped \/ PeriodicFlush \/ UNCHANGED vars
    BY <1>2, <1>8 DEF Start, Stop, SnifferStopped, PeriodicFlush, topologyVars,
                      historyVars, vars
  <1>9. edgesTable'[t].count \in Nat /\ purged'[t] \in Nat
    BY DEF TypeOK, Edge
  <1> QED
    BY <1>1, <1>4, <1>5, <1>6, <1>7, <1>8, <1>9 DEF Next

\* So what a query between its reads has and may still read is bounded by the
\* growing records.
LEMMA UnsavedBounded ==
    ASSUME TypeOK, TypeOK', AccountingInv, AccountingInv', [Next]_vars,
           NEW t \in Triples
    PROVE  Unsaved(t)' - Unsaved(t) <=
             (observed'[t] + recounted'[t]) - (observed[t] + recounted[t])
  <1>1. /\ Unsaved(t) \in Nat /\ edgesTable[t].count \in Nat
        /\ observed[t] \in Nat /\ recounted[t] \in Nat
        /\ dropped[t] \in Nat /\ purged[t] \in Nat
        /\ observed[t] + recounted[t] =
             Unsaved(t) + edgesTable[t].count + dropped[t] + purged[t]
    BY UnsavedCounts
  <1>2. /\ Unsaved(t)' \in Nat /\ edgesTable'[t].count \in Nat
        /\ observed'[t] \in Nat /\ recounted'[t] \in Nat
        /\ dropped'[t] \in Nat /\ purged'[t] \in Nat
        /\ observed'[t] + recounted'[t] =
             Unsaved(t)' + edgesTable'[t].count + dropped'[t] + purged'[t]
    BY DEF TypeOK, AccountingInv, Accounting, Total, Unsaved, Edge, Flushers
  <1>3. edgesTable[t].count + dropped[t] + purged[t] <=
          edgesTable'[t].count + dropped'[t] + purged'[t]
    BY RecordsGrow
  <1> QED
    BY <1>1, <1>2, <1>3

LEMMA DevicesShrink == ASSUME [Next]_vars PROVE devices' \subseteq devices
  BY DEF Next, vars, Start, Stop, TaskCancelled, CancelFlush, SnifferStopped,
         PeriodicFlush, FlushStep, Persist, PersistEdges, Commit, CommitFlush,
         Fail, FlushRaises, CommitUnacknowledged, KeyViolation, GiveBack,
         PutBack, Record, RecordCommunication, Delete, DeleteDevice,
         topologyVars

LEMMA InitQuery == QueryInit => QueryInv
  <1> SUFFICES ASSUME QueryInit
               PROVE  QueryInv
    OBVIOUS
  <1>1. /\ query = "idle" /\ counts = [t \in Triples |-> 0] /\ nodes = {}
        /\ stale = FALSE /\ disturbed = FALSE
        /\ \A t \in Triples : observed[t] = 0 /\ recounted[t] = 0
    BY DEF QueryInit, Init, TopologyInit, NoCounts
  <1>2. QueryTypeOK
    BY <1>1 DEF QueryTypeOK
  <1>3. ReadAtMostRecorded
    <2> SUFFICES ASSUME NEW t \in Triples
                 PROVE  counts[t] + 0 <= observed[t] + recounted[t]
      BY <1>1 DEF ReadAtMostRecorded
    <2>1. counts[t] = 0 /\ observed[t] = 0 /\ recounted[t] = 0
      BY <1>1
    <2> QED
      BY <2>1
  <1> QED
    BY <1>1, <1>2, <1>3 DEF QueryInv, QuietReadIsExact, EdgesHaveNodes

LEMMA EngineQuery ==
    ASSUME TypeOK, TypeOK', AccountingInv, AccountingInv', QueryInv,
           EngineStep \/ UNCHANGED allVars
    PROVE  QueryInv'
  <1>1. /\ [Next]_vars
        /\ UNCHANGED <<query, counts, nodes, stale>>
    BY DEF EngineStep, allVars, vars
  <1>2. QueryTypeOK'
    BY <1>1 DEF EngineStep, allVars, QueryInv, QueryTypeOK
  <1>3. ReadAtMostRecorded'
    <2> SUFFICES ASSUME NEW t \in Triples
                 PROVE  counts[t] + (IF query = "merging" THEN Unsaved(t)' ELSE 0)
                            <= observed'[t] + recounted'[t]
      BY <1>1 DEF ReadAtMostRecorded
    <2>1. counts[t] \in Nat /\ Unsaved(t) \in Nat
          /\ observed[t] \in Nat /\ recounted[t] \in Nat
      BY UnsavedCounts DEF QueryInv, QueryTypeOK
    <2>2. Unsaved(t)' \in Nat /\ observed'[t] \in Nat /\ recounted'[t] \in Nat
      BY DEF TypeOK, Unsaved, Edge, Flushers
    <2>3. Unsaved(t)' - Unsaved(t) <=
             (observed'[t] + recounted'[t]) - (observed[t] + recounted[t])
      BY <1>1, UnsavedBounded
    <2>4. observed[t] <= observed'[t] /\ recounted[t] <= recounted'[t]
      BY <1>1, RecordsGrow
    <2>5. counts[t] + (IF query = "merging" THEN Unsaved(t) ELSE 0)
            <= observed[t] + recounted[t]
      BY DEF QueryInv, ReadAtMostRecorded
    <2> QED
      BY <2>1, <2>2, <2>3, <2>4, <2>5
  <1>4. QuietReadIsExact'
    <2>1. CASE EngineStep
      BY <2>1 DEF EngineStep, QueryInv, QueryTypeOK, QuietReadIsExact
    <2>2. CASE UNCHANGED allVars
      BY <2>2 DEF allVars, QueryInv, QuietReadIsExact, FlushInProgress
    <2> QED
      BY <2>1, <2>2
  <1>5. EdgesHaveNodes'
    BY <1>1, DevicesShrink DEF QueryInv, EdgesHaveNodes, EdgesOf
  <1> QED
    BY <1>2, <1>3, <1>4, <1>5 DEF QueryInv

LEMMA ReadingQuery ==
    ASSUME TypeOK, AccountingInv, QueryInv, ReadEdges
    PROVE  QueryInv'
  <1>1. /\ query' = "merging"
        /\ counts' = [t \in Triples |-> edgesTable[t].count]
        /\ disturbed' = FlushInProgress
        /\ UNCHANGED <<nodes, stale>> /\ UNCHANGED vars
    BY DEF ReadEdges
  <1>2. QueryTypeOK'
    BY <1>1, UnsavedCounts DEF QueryInv, QueryTypeOK, FlushInProgress
  <1>3. ASSUME NEW t \in Triples
        PROVE  counts'[t] + Unsaved(t)' <= observed'[t] + recounted'[t]
    <2>1. /\ Unsaved(t) \in Nat /\ edgesTable[t].count \in Nat
          /\ observed[t] \in Nat /\ recounted[t] \in Nat
          /\ dropped[t] \in Nat /\ purged[t] \in Nat
          /\ observed[t] + recounted[t] =
               Unsaved(t) + edgesTable[t].count + dropped[t] + purged[t]
      BY UnsavedCounts
    <2>2. Unsaved(t)' = Unsaved(t)
      BY <1>1 DEF vars, Unsaved
    <2>3. observed' = observed /\ recounted' = recounted
      BY <1>1 DEF vars
    <2> QED
      BY <1>1, <2>1, <2>2, <2>3
  <1>4. ReadAtMostRecorded'
    BY <1>1, <1>3 DEF ReadAtMostRecorded
  <1>5. QuietReadIsExact'
    BY <1>1 DEF QuietReadIsExact, FlushInProgress, vars
  <1> QED
    BY <1>1, <1>2, <1>4, <1>5 DEF QueryInv, EdgesHaveNodes

LEMMA MergingQuery ==
    ASSUME TypeOK, AccountingInv, QueryInv, MergeBuffer
    PROVE  QueryInv'
  <1>1. /\ query = "merging" /\ query' = "describing"
        /\ counts' = [t \in Triples |-> counts[t] + buffer[t].count]
        /\ UNCHANGED <<nodes, stale, disturbed>> /\ UNCHANGED vars
    BY DEF MergeBuffer
  <1>2. ASSUME NEW t \in Triples
        PROVE  counts'[t] \in Nat /\ counts'[t] <= observed[t] + recounted[t]
    <2>1. /\ Unsaved(t) \in Nat /\ buffer[t].count \in Nat
          /\ buffer[t].count <= Unsaved(t)
          /\ observed[t] \in Nat /\ recounted[t] \in Nat
      BY UnsavedCounts
    <2>2. counts[t] \in Nat
      BY DEF QueryInv, QueryTypeOK
    <2>3. counts[t] + Unsaved(t) <= observed[t] + recounted[t]
      BY <1>1 DEF QueryInv, ReadAtMostRecorded
    <2>4. counts'[t] = counts[t] + buffer[t].count
      BY <1>1
    <2> QED
      BY <2>1, <2>2, <2>3, <2>4
  <1>3. QueryTypeOK'
    BY <1>1, <1>2 DEF QueryInv, QueryTypeOK
  <1>4. ReadAtMostRecorded'
    <2>1. observed' = observed /\ recounted' = recounted
      BY <1>1 DEF vars
    <2>2. ASSUME NEW t \in Triples
          PROVE  counts'[t] + 0 <= observed'[t] + recounted'[t]
      BY <1>2, <2>1
    <2> QED
      BY <1>1, <2>2 DEF ReadAtMostRecorded
  <1> QED
    BY <1>1, <1>3, <1>4 DEF QueryInv, QuietReadIsExact, EdgesHaveNodes

LEMMA AnsweredQuery ==
    ASSUME TypeOK, TypeOK', AccountingInv, QueryInv, DescribeNodes \/ NextQuery
    PROVE  QueryInv'
  <1>1. CASE DescribeNodes
    <2> DEFINE Joined == UNION {Endpoints[t] : t \in EdgesOf(counts)}
    <2>0. nodes' = Joined \cap devices
      BY <1>1 DEF DescribeNodes
    <2>1. /\ query = "describing" /\ query' = "answered"
          /\ stale' = ~snifferRunning
          /\ UNCHANGED <<counts, disturbed>> /\ UNCHANGED vars
      BY <1>1 DEF DescribeNodes
    <2>2. QueryTypeOK'
      <3> HIDE DEF Joined
      <3>1. nodes' \subseteq devices /\ devices \subseteq Devices
        BY <2>0 DEF TypeOK
      <3>2. stale' \in BOOLEAN
        BY <2>1 DEF TypeOK
      <3> QED
        BY <2>1, <3>1, <3>2 DEF QueryInv, QueryTypeOK
    <2>3. EdgesHaveNodes'
      <3>1. EdgesOf(counts)' = EdgesOf(counts) /\ devices' = devices
        BY <2>1 DEF EdgesOf, vars
      <3>2. ASSUME NEW t \in EdgesOf(counts)
            PROVE  Endpoints[t] \cap devices \subseteq nodes'
        <4>1. Endpoints[t] \in {Endpoints[u] : u \in EdgesOf(counts)}
          OBVIOUS
        <4>2. Endpoints[t] \subseteq Joined
          BY <4>1, Zenon
        <4> HIDE DEF Joined
        <4> QED
          BY <2>0, <4>2
      <3> QED
        BY <3>1, <3>2 DEF EdgesHaveNodes
    <2> QED
      BY <2>1, <2>2, <2>3
      DEF QueryInv, ReadAtMostRecorded, QuietReadIsExact, vars
  <1>2. CASE NextQuery
    <2>1. /\ query' = "idle" /\ counts' = NoCounts /\ nodes' = {}
          /\ stale' = FALSE /\ disturbed' = FALSE /\ UNCHANGED vars
      BY <1>2 DEF NextQuery
    <2>2. \A t \in Triples : counts'[t] = 0
      BY <2>1 DEF NoCounts
    <2>3. \A t \in Triples : observed'[t] \in Nat /\ recounted'[t] \in Nat
      BY DEF TypeOK
    <2>4. ReadAtMostRecorded'
      BY <2>1, <2>2, <2>3 DEF ReadAtMostRecorded
    <2>5. QueryTypeOK'
      BY <2>1 DEF QueryTypeOK, NoCounts
    <2> QED
      BY <2>1, <2>4, <2>5 DEF QueryInv, QuietReadIsExact, EdgesHaveNodes
  <1> QED
    BY <1>1, <1>2

LEMMA NextQueryInv ==
    ASSUME TypeOK, TypeOK', AccountingInv, AccountingInv', QueryInv,
           [QueryNext]_allVars
    PROVE  QueryInv'
  BY EngineQuery, ReadingQuery, MergingQuery, AnsweredQuery DEF QueryNext

\* A merge that nothing has disturbed adds the whole of memory to the table.
LEMMA QuietMerge ==
    ASSUME TypeOK, AccountingInv, QueryInv, [QueryNext]_allVars,
           query = "merging", query' = "describing", ~disturbed
    PROVE  \A t \in Triples : counts'[t] = Total(t)
  <1>1. counts' = [t \in Triples |-> counts[t] + buffer[t].count]
    BY DEF QueryNext, EngineStep, ReadEdges, MergeBuffer, DescribeNodes,
           NextQuery, allVars
  <1> TAKE t \in Triples
  <1>2. /\ "periodic" \in Flushers /\ "final" \in Flushers
        /\ phase["periodic"] = "idle" /\ phase["final"] = "idle"
        /\ counts[t] = edgesTable[t].count
    BY DEF QueryInv, QuietReadIsExact, FlushInProgress, Flushers
  <1>3. /\ edgesToFlush["periodic"][t].count = 0
        /\ edgesToFlush["final"][t].count = 0
    BY <1>2 DEF AccountingInv, IdleFlushesEmpty, NoEdges, NoEdge
  <1>4. buffer[t].count \in Nat /\ edgesTable[t].count \in Nat
    BY UnsavedCounts
  <1> QED
    BY <1>1, <1>2, <1>3, <1>4 DEF Total

\* The engine beneath the queries keeps its invariants.
LEMMA QueriesKeepEngine == QuerySpec => [](TypeOK /\ AccountingInv)
  <1>1. QueryInit => Init
    BY DEF QueryInit
  <1> QED
    BY <1>1, InitType, NextType, InitAccounting, NextAccounting,
       QueryStepIsEngineStep, PTL DEF QuerySpec

LEMMA QueriesKeepInv == QuerySpec => []QueryInv
  <1>1. TypeOK /\ TypeOK' /\ AccountingInv /\ AccountingInv' /\ QueryInv
            /\ [QueryNext]_allVars => QueryInv'
    BY NextQueryInv
  <1> QED
    BY <1>1, InitQuery, QueriesKeepEngine, PTL DEF QuerySpec

\* get_topology never shows a packet twice, however flushes move packets
\* between its reads of the table and of the buffer.
THEOREM QueriesNeverOvercount == QuerySpec => []NeverOvercounts
  <1>1. TypeOK /\ AccountingInv /\ QueryInv => NeverOvercounts
    <2> SUFFICES ASSUME TypeOK, AccountingInv, QueryInv, NEW t \in Triples
                 PROVE  counts[t] <= observed[t] + recounted[t]
      BY DEF NeverOvercounts, QueryInv
    <2>1. counts[t] \in Nat /\ Unsaved(t) \in Nat
          /\ observed[t] \in Nat /\ recounted[t] \in Nat
      BY UnsavedCounts DEF QueryInv, QueryTypeOK
    <2> QED
      BY <2>1 DEF QueryInv, ReadAtMostRecorded
  <1> QED
    BY <1>1, QueriesKeepEngine, QueriesKeepInv, PTL

\* Each edge get_topology returns comes with the devices it joins, but for
\* those that are deleted.
THEOREM QueriesDescribeDevices == QuerySpec => []EdgesHaveNodes
  BY QueriesKeepInv, PTL DEF QueryInv

\* get_topology without a flush in between counts every packet there is.
THEOREM QuietQueriesExact == QuerySpec => QuietQueryExact
  <1>1. TypeOK /\ AccountingInv /\ QueryInv /\ [QueryNext]_allVars =>
          [query = "merging" /\ query' = "describing" /\ ~disturbed =>
             \A t \in Triples : counts'[t] = Total(t)]_allVars
    BY QuietMerge
  <1> QED
    BY <1>1, QueriesKeepEngine, QueriesKeepInv, PTL
    DEF QuerySpec, QuietQueryExact
=============================================================================
