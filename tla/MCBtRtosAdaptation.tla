------------------------- MODULE MCBtRtosAdaptation -------------------------
(***************************************************************************)
(* BtRtosAdaptation for TLC: one task besides the event handler.           *)
(***************************************************************************)
EXTENDS BtRtosAdaptation

CONSTANTS app, c, e, f

OneTask == {app}
OneCommand == {c}
TwoEvents == {e, f}
=============================================================================
