----------------------------- MODULE MCCondVar ------------------------------
(* Instances of CondVar for TLC. *)
EXTENDS CondVar
=============================================================================
