---------------------------- MODULE MCMediaServer ---------------------------
(* Instances of MediaServer for TLC. *)
EXTENDS MediaServer
=============================================================================
