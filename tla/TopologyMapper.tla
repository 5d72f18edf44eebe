--------------------------- MODULE TopologyMapper ---------------------------
(***************************************************************************)
(* The state and the operations of app/topology/mapper.py, and the two     *)
(* database tables they touch (topology_edges and, for its foreign keys,   *)
(* devices).  Module DiscoveryEngine says who calls the operations, when.  *)
(*                                                                         *)
(* Every block the mapper runs under _buffer_lock or _observed_lock holds  *)
(* no await, and an uncontended asyncio.Lock does not suspend its caller:  *)
(* such a block is one atomic step here.  A flush is several steps, since  *)
(* its transaction awaits the database.                                    *)
(*                                                                         *)
(* Timestamps are compared only within one triple, so the time of the k-th *)
(* observation of a triple is k.                                           *)
(***************************************************************************)
EXTENDS Integers

CONSTANTS
    Triples,          \* the (source, destination, protocol) triples
    Devices,          \* the devices in the inventory at the start
    Endpoints,        \* the devices a triple's foreign keys name
    MaxObservations   \* bound: observations of one triple

ASSUME TopologyAssumption ==
    /\ Endpoints \in [Triples -> SUBSET Devices]
    /\ MaxObservations \in Nat

\* The two call sites of flush_updates: the engine's periodic task and the
\* last step of its stop().
Flushers == {"periodic", "final"}

\* A _BufferedEdge or a topology_edges row; count 0 stands for no entry.
Edge == [count : Nat, first : Nat, last : Nat]
NoEdge == [count |-> 0, first |-> 0, last |-> 0]
NoEdges == [t \in Triples |-> NoEdge]

VARIABLES
    buffer,           \* _buffer
    observedTriples,  \* _observed_triples
    snifferRunning,   \* _sniffer_running
    edgesTable,       \* committed rows of topology_edges
    devices,          \* committed rows of devices
    phase,            \* progress of each flush_updates call
    edgesToFlush,     \* edges_to_flush of each call
    staged,           \* the rows a call's transaction is about to commit
    observed,         \* history: how often each triple was recorded
    announced,        \* history: events for it since the sniffer started
    dropped,          \* history: packets a cancelled flush took along
    recounted,        \* history: packets put back though they were committed
    purged            \* history: packets deleted with a device

mapperVars == <<buffer, observedTriples, snifferRunning, edgesTable, devices,
                phase, edgesToFlush, staged>>
historyVars == <<observed, announced, dropped, recounted, purged>>
topologyVars == <<buffer, observedTriples, snifferRunning, edgesTable,
                  devices, phase, edgesToFlush, staged, observed, announced,
                  dropped, recounted, purged>>

Earlier(a, b) == IF a < b THEN a ELSE b
Later(a, b) == IF a > b THEN a ELSE b

-----------------------------------------------------------------------------
TopologyInit ==
    /\ buffer = NoEdges
    /\ observedTriples = {}
    /\ snifferRunning = FALSE
    /\ edgesTable = NoEdges
    /\ devices = Devices
    /\ phase = [f \in Flushers |-> "idle"]
    /\ edgesToFlush = [f \in Flushers |-> NoEdges]
    /\ staged = [f \in Flushers |-> NoEdges]
    /\ observed = [t \in Triples |-> 0]
    /\ announced = [t \in Triples |-> 0]
    /\ dropped = [t \in Triples |-> 0]
    /\ recounted = [t \in Triples |-> 0]
    /\ purged = [t \in Triples |-> 0]

(***************************************************************************)
(* The sniffer_running setter.                                             *)
(***************************************************************************)

\* Mutant: the set is reset when the sniffer stops instead of when it starts.
SetSnifferRunningResetsOnStop(value) ==
    /\ observedTriples' = IF value THEN observedTriples ELSE {}
    /\ announced' = IF value THEN [t \in Triples |-> 0] ELSE announced
    /\ snifferRunning' = value

SetSnifferRunning(value) ==
    /\ observedTriples' =
         IF value /\ ~snifferRunning THEN {} ELSE observedTriples
    /\ announced' =
         IF value /\ ~snifferRunning THEN [t \in Triples |-> 0] ELSE announced
    /\ snifferRunning' = value

(***************************************************************************)
(* record_communication: the triple joins the observed set and is counted  *)
(* in the buffer; the caller gets an event if it was not in the set.       *)
(***************************************************************************)
Counted(edge, now) ==
    IF edge.count = 0
    THEN [count |-> 1, first |-> now, last |-> now]
    ELSE [count |-> edge.count + 1, first |-> edge.first, last |-> now]

RecordCommunication(t) ==
    /\ observed[t] < MaxObservations
    /\ buffer' = [buffer EXCEPT ![t] = Counted(@, observed[t] + 1)]
    /\ observedTriples' = observedTriples \cup {t}
    /\ observed' = [observed EXCEPT ![t] = @ + 1]
    /\ announced' = IF t \in observedTriples
                    THEN announced ELSE [announced EXCEPT ![t] = @ + 1]
    /\ UNCHANGED <<snifferRunning, edgesTable, devices, phase, edgesToFlush,
                   staged, dropped, recounted, purged>>

(***************************************************************************)
(* flush_updates: snapshot and clear, one transaction, and on an exception *)
(* the edges merged back into the buffer.                                  *)
(***************************************************************************)

\* Mutant: the snapshot is taken and the buffer not cleared.
TakeBufferUncleared(f) ==
    /\ phase[f] = "idle"
    /\ UNCHANGED buffer
    /\ IF buffer = NoEdges
       THEN UNCHANGED <<phase, edgesToFlush>>
       ELSE /\ edgesToFlush' = [edgesToFlush EXCEPT ![f] = buffer]
            /\ phase' = [phase EXCEPT ![f] = "persisting"]

\* The call takes the buffer's entries; an empty buffer ends it at once.
TakeBuffer(f) ==
    /\ phase[f] = "idle"
    /\ IF buffer = NoEdges
       THEN UNCHANGED <<buffer, phase, edgesToFlush>>
       ELSE /\ buffer' = NoEdges
            /\ edgesToFlush' = [edgesToFlush EXCEPT ![f] = buffer]
            /\ phase' = [phase EXCEPT ![f] = "persisting"]

\* Mutants of _persist_edge: the buffered count replaces the one of the row;
\* it is subtracted from it.
PersistedRowReplaces(row, edge) == IF edge.count = 0 THEN row ELSE edge

PersistedRowSubtracts(row, edge) ==
    IF edge.count = 0 THEN row
    ELSE [count |-> row.count - edge.count,
          first |-> edge.first,
          last |-> edge.last]

\* _persist_edge: the row after one buffered edge went into it.
PersistedRow(row, edge) ==
    IF edge.count = 0 THEN row
    ELSE IF row.count = 0 THEN edge
    ELSE [count |-> row.count + edge.count,
          first |-> row.first,
          last |-> Later(row.last, edge.last)]

\* The loop over edges_to_flush: each row is read and its new value computed
\* in the program.  Only another flush or a deleted device could change a
\* row between two of these reads: the first never runs at the same time
\* (FlushesNeverOverlap), the second makes the commit fail.
PersistEdges(f) ==
    /\ phase[f] = "persisting"
    /\ staged' = [staged EXCEPT ![f] =
                    [t \in Triples |->
                       PersistedRow(edgesTable[t], edgesToFlush[f][t])]]
    /\ phase' = [phase EXCEPT ![f] = "committing"]
    /\ UNCHANGED <<buffer, observedTriples, snifferRunning, edgesTable,
                   devices, edgesToFlush>>
    /\ UNCHANGED historyVars

\* The database accepts the transaction only if the foreign keys of every
\* edge in it hold.
KeysHold(f) ==
    \A t \in Triples :
        edgesToFlush[f][t].count > 0 => Endpoints[t] \subseteq devices

\* The rows of the transaction replace the committed ones.
WriteRows(f) ==
    edgesTable' = [t \in Triples |-> IF edgesToFlush[f][t].count > 0
                                     THEN staged[f][t] ELSE edgesTable[t]]

FlushReturns(f) ==
    /\ phase' = [phase EXCEPT ![f] = "idle"]
    /\ edgesToFlush' = [edgesToFlush EXCEPT ![f] = NoEdges]
    /\ staged' = [staged EXCEPT ![f] = NoEdges]

CommitFlush(f) ==
    /\ phase[f] = "committing"
    /\ KeysHold(f)
    /\ WriteRows(f)
    /\ FlushReturns(f)
    /\ UNCHANGED <<buffer, observedTriples, snifferRunning, devices>>
    /\ UNCHANGED historyVars

\* A statement or the commit raises, and nothing of the transaction stays.
FlushRaises(f) ==
    /\ phase[f] \in {"persisting", "committing"}
    /\ phase' = [phase EXCEPT ![f] = "failed"]
    /\ UNCHANGED <<buffer, observedTriples, snifferRunning, edgesTable,
                   devices, edgesToFlush, staged>>
    /\ UNCHANGED historyVars

\* The transaction commits, but the connection fails before the program
\* learns it: the exception looks like any other one.
CommitUnacknowledged(f) ==
    /\ phase[f] = "committing"
    /\ KeysHold(f)
    /\ WriteRows(f)
    /\ phase' = [phase EXCEPT ![f] = "failed"]
    /\ recounted' = [t \in Triples |->
                       recounted[t] + edgesToFlush[f][t].count]
    /\ UNCHANGED <<buffer, observedTriples, snifferRunning, devices,
                   edgesToFlush, staged, observed, announced, dropped, purged>>

\* Mutants of the merge: the newer entry's first_seen is kept; the newer
\* observations are overwritten.
RestoredKeepsFirst(edge, back) ==
    IF back.count = 0 THEN edge
    ELSE IF edge.count = 0 THEN back
    ELSE [edge EXCEPT !.count = @ + back.count]

RestoredOverwrites(edge, back) == IF back.count = 0 THEN edge ELSE back

\* The buffer's entry after a failed flush gave its edge back.
Restored(edge, back) ==
    IF back.count = 0 THEN edge
    ELSE IF edge.count = 0 THEN back
    ELSE [count |-> edge.count + back.count,
          first |-> Earlier(back.first, edge.first),
          last |-> edge.last]

PutBack(f) ==
    /\ phase[f] = "failed"
    /\ buffer' = [t \in Triples |-> Restored(buffer[t], edgesToFlush[f][t])]
    /\ FlushReturns(f)
    /\ UNCHANGED <<observedTriples, snifferRunning, edgesTable, devices>>
    /\ UNCHANGED historyVars

\* CancelledError is no Exception: it passes the except clause, and the
\* edges the call had taken go with its frame.  A COMMIT already sent may
\* still have taken effect.
CancelFlush(f) ==
    /\ FlushReturns(f)
    /\ \/ /\ dropped' = [t \in Triples |->
                           dropped[t] + IF phase[f] = "idle" THEN 0
                                        ELSE edgesToFlush[f][t].count]
          /\ UNCHANGED edgesTable
       \/ /\ phase[f] = "committing"
          /\ KeysHold(f)
          /\ WriteRows(f)
          /\ UNCHANGED dropped
    /\ UNCHANGED <<buffer, observedTriples, snifferRunning, devices, observed,
                   announced, recounted, purged>>

(***************************************************************************)
(* DELETE /api/devices/{id}: the device's row goes, and with it, by the    *)
(* ORM's and the schema's cascade, every edge row that names it.           *)
(***************************************************************************)
DeleteDevice(d) ==
    /\ d \in devices
    /\ devices' = devices \ {d}
    /\ edgesTable' = [t \in Triples |-> IF d \in Endpoints[t]
                                        THEN NoEdge ELSE edgesTable[t]]
    /\ purged' = [t \in Triples |->
                    purged[t] + IF d \in Endpoints[t]
                                THEN edgesTable[t].count ELSE 0]
    /\ UNCHANGED <<buffer, observedTriples, snifferRunning, phase,
                   edgesToFlush, staged, observed, announced, dropped,
                   recounted>>
=============================================================================
