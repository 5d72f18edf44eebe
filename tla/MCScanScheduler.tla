--------------------------- MODULE MCScanScheduler --------------------------
(***************************************************************************)
(* One job: jobs meet in start() and stop() only, which treat each of them *)
(* alike.  Three loops are enough for a second start() of a running        *)
(* scheduler and for a restart; two calls for a manual call that meets     *)
(* another one.                                                            *)
(***************************************************************************)
EXTENDS ScanScheduler

CONSTANTS j1

MCJobs == {j1}
MCScheduled == {j1}
=============================================================================
