--------------------------- MODULE MCActiveProber ---------------------------
(***************************************************************************)
(* One slot for three probes: two of one batch and one of another, so that *)
(* a probe waits for its own batch and for the other one, and each batch   *)
(* may be cancelled while it waits, holds the slot, or is being given it.  *)
(***************************************************************************)
EXTENDS ActiveProber

CONSTANTS b1, b2

MCBatches == {b1, b2}
MCSize == [b \in MCBatches |-> IF b = b1 THEN 2 ELSE 1]
=============================================================================
