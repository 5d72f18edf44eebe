-------------------------- MODULE MCAlertBroadcast --------------------------
(***************************************************************************)
(* Two connections: one that a broadcast waits for, and one that comes or  *)
(* goes meanwhile.  Four alerts: one being sent, one waiting for the lock, *)
(* one that finds nobody registered, and one after all these.              *)
(***************************************************************************)
EXTENDS AlertBroadcast

CONSTANTS s1, s2

MCSockets == {s1, s2}
=============================================================================
