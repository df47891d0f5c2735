------------------------------ MODULE Bridges -------------------------------
(***************************************************************************)
(* The bridges that keep no state between calls, as a thread of the        *)
(* browser uses them: one call at a time, of the resolver (AddrInfo) or of *)
(* IsProcessInJob (Jobs), while other processes change the job.            *)
(***************************************************************************)
EXTENDS AddrInfo, Jobs

vars == <<avars, jvars>>

Init == AInit /\ JInit

Resolver == query = "none" /\ answer = "none" /\ ANext /\ UNCHANGED jvars
JobQuery == Ready /\ JNext /\ UNCHANGED avars

\* The thread has used the outcome of its call and goes on to another; what was
\* recorded of the call is forgotten.
Proceed ==
    /\ pc = "idle" /\ result = <<>> /\ query = "none"
    /\ code # "none" \/ text # Null \/ answer # "none"
    /\ AForget /\ JForget

Next == Resolver \/ JobQuery \/ Proceed

\* The thread goes on with the call it is in; what others do is not fair.
Spec == Init /\ [][Next]_vars
FairSpec == Spec /\ WF_vars(Ready /\ QueryStep /\ UNCHANGED avars)

(* A query of the job comes to an end although processes keep entering and *)
(* leaving it: each answer that does not fit enlarges the list, up to the  *)
(* limit or to all there are.                                              *)
QueryEnds == query # "none" ~> query = "none"
============================================================================
