------------------------------ MODULE MCScanApi ------------------------------
(***************************************************************************)
(* Five requests on up to two jobs: three triggers that overlap need a     *)
(* request that creates the job and leave one for an update or a deletion. *)
(* Pages of two rows: three rows of history fill one page and a half.      *)
(***************************************************************************)
EXTENDS ScanApi, TLC

CONSTANTS r1, r2, r3, r4, r5, name, a, b

MCRequests == {r1, r2, r3, r4, r5}
MCSettings == {name}
MCValues == {a, b}

Symmetry == Permutations(MCRequests)
=============================================================================
