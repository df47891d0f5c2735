------------------------------ MODULE MCSession -----------------------------
(* An instance of Session for TLC: see Session.cfg. *)
EXTENDS Session
=============================================================================
