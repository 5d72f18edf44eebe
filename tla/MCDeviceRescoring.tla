-------------------------- MODULE MCDeviceRescoring --------------------------
(***************************************************************************)
(* Three calls about two devices, one failure or cancelled flush.  The     *)
(* exposure rises with the second peer, as a device has two at most,       *)
(* itself included.  At each rescoring of a device whose firmware is known *)
(* the database answers with a critical vulnerability or not at all, so    *)
(* that both formulas are used and outages begin and end.  Of the two      *)
(* protocols the fingerprints of one name the firmware.                    *)
(***************************************************************************)
EXTENDS DeviceRescoring, TLC

CONSTANTS t1, t2, t3, d1, d2, modbus, dnp3, f1

MCTasks == {t1, t2, t3}
MCDevices == {d1, d2}
MCProtocols == {modbus, dnp3}
MCFirmwares == {f1}
MCFingerprints == {[protocol |-> modbus, firmware |-> f1],
                   [protocol |-> dnp3, firmware |-> Unknown]}
Symmetry == Permutations(MCTasks) \cup Permutations(MCDevices)
=============================================================================
