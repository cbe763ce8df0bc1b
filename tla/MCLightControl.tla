--------------------------- MODULE MCLightControl ---------------------------
(* Model-checking instances of LightControl.                               *)
EXTENDS LightControl

LightOnly     == {LIGHT_SWITCH_ENDPOINT}
LightAndOther == {LIGHT_SWITCH_ENDPOINT, 2}

AllCommands  == {"form", "leave", "reset"}
FormOnly     == {"form"}
FormAndLeave == {"form", "leave"}
=============================================================================
