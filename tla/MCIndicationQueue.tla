------------------------- MODULE MCIndicationQueue -------------------------
(***************************************************************************)
(* IndicationQueue for TLC: which characteristics the client uses.         *)
(***************************************************************************)
EXTENDS IndicationQueue

All == Characteristics
LightAndTrigger == {"light_state", "trigger_source"}
TriggerAndAddress == {"trigger_source", "source_address"}
None == {}
LightOnly == {"light_state"}
=============================================================================
