------------------------------- MODULE MCVEH --------------------------------
(* Instances of VEH for TLC. *)
EXTENDS VEH
=============================================================================
