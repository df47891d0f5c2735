----------------------------- MODULE MCSRWLock ------------------------------
(* Instances of SRWLock for TLC: threads are interchangeable. *)
EXTENDS SRWLock, TLC

ThreadSymmetry == Permutations(Thread)
=============================================================================
