--------------------------- MODULE MCLampDecision ---------------------------
(* The lamps of MCLampRecord, with the memory of what a person decided. *)
EXTENDS MCLampRecord, LampDecision
=============================================================================
