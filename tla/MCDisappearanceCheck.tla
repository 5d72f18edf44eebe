------------------------- MODULE MCDisappearanceCheck -------------------------
(***************************************************************************)
(* Two checks that overlap, two devices so that one call has two alerts,   *)
(* and two hours with a timeout of one: a device is overdue, is seen again *)
(* and is overdue once more with the timeout at zero, which stands for the *)
(* smallest one.  A timeout of 3 is refused.                               *)
(***************************************************************************)
EXTENDS DisappearanceCheck

CONSTANTS d1, d2, c1, c2

MCDevices == {d1, d2}
MCChecks == {c1, c2}
=============================================================================
