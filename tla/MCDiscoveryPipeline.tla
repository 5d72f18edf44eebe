------------------------ MODULE MCDiscoveryPipeline ------------------------
(***************************************************************************)
(* Fingerprints of one device, each of a protocol of its own, handled by   *)
(* three handlers: one more protocol than the device may have.  There may  *)
(* be such a device already, of one of these protocols and with or without *)
(* a firmware; one deletion, and one entry that its count does not see.    *)
(***************************************************************************)
EXTENDS DiscoveryPipeline, TLC

CONSTANTS h1, h2, h3, address, modbus, dnp3, s7comm, v1, v2

MCHandlers == {h1, h2, h3}
MCAddresses == {address}
MCProtocols == {modbus, dnp3, s7comm}
MCVersions == {v1, v2}
MCFingerprints ==
    {[address |-> address, protocol |-> modbus, firmware |-> v1],
     [address |-> address, protocol |-> dnp3, firmware |-> Unknown],
     [address |-> address, protocol |-> s7comm, firmware |-> Unknown]}
MCRegistered ==
    {[id |-> 0, firmware |-> f, protocols |-> {dnp3}] : f \in {Unknown, v2}}

Symmetric == Permutations(MCHandlers)
=============================================================================
