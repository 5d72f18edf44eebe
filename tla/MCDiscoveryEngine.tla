-------------------------- MODULE MCDiscoveryEngine -------------------------
(***************************************************************************)
(* Two triples that share a device: t1 is a device's edge to itself, as    *)
(* _record_topology_communication records it, t2 joins two devices, as     *)
(* handle_topology_update may.                                             *)
(***************************************************************************)
EXTENDS DiscoveryEngine, TLC

CONSTANTS t1, t2, d1, d2

MCTriples == {t1, t2}
MCDevices == {d1, d2}
MCEndpoints == t1 :> {d1} @@ t2 :> {d1, d2}
=============================================================================
