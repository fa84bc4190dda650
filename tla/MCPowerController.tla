-------------------------- MODULE MCPowerController --------------------------
EXTENDS PowerController

(* A load the sensor's offset makes negative, one below the limits, one in *)
(* the grace band, one above both.                                         *)
LoadValues == {-5, 0, 400, 600}
(* For liveness: the overload line and the battery raise the alarms. *)
NoLoad     == {0}

=============================================================================
