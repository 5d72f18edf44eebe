-------------------------- MODULE MCPassiveSniffer --------------------------
(***************************************************************************)
(* Three packets: two in the buffer, so that a flush can be cut off        *)
(* between them, and one on its way.  Three starts: one flush, one during  *)
(* it, and one after both.                                                 *)
(***************************************************************************)
EXTENDS PassiveSniffer

CONSTANTS p1, p2, p3

MCPackets == {p1, p2, p3}
=============================================================================
