---------------------------- MODULE TopologyQuery ---------------------------
(***************************************************************************)
(* get_topology of app/topology/mapper.py with a session factory, as the   *)
(* API (GET /api/topology) and the engine's peer count call it, composed   *)
(* with the engine's flushes: it reads the table, then under the buffer    *)
(* lock adds what is buffered, then reads the devices of these edges.      *)
(***************************************************************************)
EXTENDS DiscoveryEngine

VARIABLES
    query,       \* progress of the call
    counts,      \* packet_count of the edges collected so far
    nodes,       \* devices the answer describes
    stale,       \* the answer's stale flag
    disturbed    \* history: the table or a flush moved before the merge

queryVars == <<query, counts, nodes, stale, disturbed>>
allVars == <<buffer, observedTriples, snifferRunning, edgesTable, devices,
             phase, edgesToFlush, staged, observed, announced, dropped,
             recounted, purged, engine, starts, failures, query, counts, nodes,
             stale, disturbed>>

NoCounts == [t \in Triples |-> 0]
FlushInProgress == \E f \in Flushers : phase[f] # "idle"

QueryInit ==
    /\ Init
    /\ query = "idle"
    /\ counts = NoCounts
    /\ nodes = {}
    /\ stale = FALSE
    /\ disturbed = FALSE

\* The rows committed when the select runs.
ReadEdges ==
    /\ query = "idle"
    /\ query' = "merging"
    /\ counts' = [t \in Triples |-> edgesTable[t].count]
    /\ disturbed' = FlushInProgress
    /\ UNCHANGED <<nodes, stale>>
    /\ UNCHANGED vars

\* Mutant: the buffer is added only for triples the table does not have.
MergeOnlyNew ==
    /\ query = "merging"
    /\ query' = "describing"
    /\ counts' = [t \in Triples |-> IF counts[t] > 0
                                    THEN counts[t] ELSE buffer[t].count]
    /\ UNCHANGED <<nodes, stale, disturbed>>
    /\ UNCHANGED vars

MergeBuffer ==
    /\ query = "merging"
    /\ query' = "describing"
    /\ counts' = [t \in Triples |-> counts[t] + buffer[t].count]
    /\ UNCHANGED <<nodes, stale, disturbed>>
    /\ UNCHANGED vars

EdgesOf(c) == {t \in Triples : c[t] > 0}

\* Mutant: only the devices of persisted edges are described.
DescribePersisted ==
    /\ query = "describing"
    /\ query' = "answered"
    /\ nodes' = (UNION {Endpoints[t] : t \in {u \in EdgesOf(counts) :
                          edgesTable[u].count > 0}}) \cap devices
    /\ stale' = ~snifferRunning
    /\ UNCHANGED <<counts, disturbed>>
    /\ UNCHANGED vars

\* The select over the devices of all collected edges, and the return.
DescribeNodes ==
    /\ query = "describing"
    /\ query' = "answered"
    /\ nodes' = (UNION {Endpoints[t] : t \in EdgesOf(counts)}) \cap devices
    /\ stale' = ~snifferRunning
    /\ UNCHANGED <<counts, disturbed>>
    /\ UNCHANGED vars

\* The caller is done with the answer.
NextQuery ==
    /\ query = "answered"
    /\ query' = "idle"
    /\ counts' = NoCounts
    /\ nodes' = {}
    /\ stale' = FALSE
    /\ disturbed' = FALSE
    /\ UNCHANGED vars

EngineStep ==
    /\ Next
    /\ disturbed' = (query = "merging" /\ (disturbed \/ FlushInProgress'
                                             \/ edgesTable' # edgesTable))
    /\ UNCHANGED <<query, counts, nodes, stale>>

QueryNext ==
    \/ EngineStep
    \/ ReadEdges
    \/ MergeBuffer
    \/ DescribeNodes
    \/ NextQuery

QuerySpec == QueryInit /\ [][QueryNext]_allVars

-----------------------------------------------------------------------------
QueryTypeOK ==
    /\ query \in {"idle", "merging", "describing", "answered"}
    /\ counts \in [Triples -> Nat]
    /\ nodes \in SUBSET Devices
    /\ stale \in BOOLEAN
    /\ disturbed \in BOOLEAN

\* However the flush moves packets from the buffer to the table between the
\* two reads of a query, no packet shows up twice in its answer; only a
\* commit wrongly reported as failed can do that.
NeverOvercounts ==
    /\ QueryTypeOK
    /\ \A t \in Triples : counts[t] <= observed[t] + recounted[t]

\* A query during which no flush was in progress counts every packet there
\* is: the two reads together miss nothing.
QuietQueryExact ==
    [][query = "merging" /\ query' = "describing" /\ ~disturbed =>
         \A t \in Triples : counts'[t] = Total(t)]_allVars

\* The answer describes each device of its edges that is still there: an
\* edge without its node can only name a deleted device.
EdgesHaveNodes ==
    query = "answered" =>
        \A t \in EdgesOf(counts) : Endpoints[t] \cap devices \subseteq nodes

-----------------------------------------------------------------------------
\* The docstring: "Also includes any buffered (not yet flushed) edges in the
\* response".  Edges that a flush has taken out of the buffer and not yet
\* committed are in neither of the places the query looks at.
UnflushedEdgesIncluded ==
    [][query = "merging" /\ query' = "describing" =>
         \A t \in Triples :
            buffer[t].count + edgesToFlush["periodic"][t].count
                + edgesToFlush["final"][t].count > 0 =>
                    counts'[t] > 0]_allVars
=============================================================================
