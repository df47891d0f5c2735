------------------------------- MODULE RWLock -------------------------------
(***************************************************************************)
(* What a Vista slim reader/writer lock promises its callers: at any time  *)
(* either any number of threads hold it shared, or one thread holds it     *)
(* exclusive, or nobody holds it.  A writer that finds the lock busy       *)
(* queues, and no new reader is let in while a writer is queued (the       *)
(* writer preference that src/compat/w2k_sync.c gives its lock).  SRWLock  *)
(* is shown to implement this specification, and CondVar uses it as the    *)
(* lock its sleepers hand back and take again.                             *)
(***************************************************************************)
CONSTANT Thread

VARIABLES mode,    \* what each thread holds: "none", "X" or "S"
          queued   \* the writers waiting for the lock

lockVars == <<mode, queued>>

Holders == {t \in Thread : mode[t] # "none"}

Writers == {t \in Thread : mode[t] = "X"}

RWTypeOK ==
    /\ mode \in [Thread -> {"none", "X", "S"}]
    /\ queued \subseteq Thread

RWInit ==
    /\ mode = [t \in Thread |-> "none"]
    /\ queued = {}

\* A writer that cannot have the lock waits for it.
QueueWriter(t) ==
    /\ mode[t] = "none"
    /\ t \notin queued
    /\ Holders # {}
    /\ queued' = queued \cup {t}
    /\ UNCHANGED mode

\* A writer, queued or not, takes a lock nobody holds.
AcquireX(t) ==
    /\ mode[t] = "none"
    /\ Holders = {}
    /\ mode' = [mode EXCEPT ![t] = "X"]
    /\ queued' = queued \ {t}

\* A reader joins the readers when no writer holds the lock or waits for it.
AcquireS(t) ==
    /\ mode[t] = "none"
    /\ t \notin queued
    /\ Writers = {}
    /\ queued = {}
    /\ mode' = [mode EXCEPT ![t] = "S"]
    /\ UNCHANGED queued

Release(t) ==
    /\ mode[t] # "none"
    /\ mode' = [mode EXCEPT ![t] = "none"]
    /\ UNCHANGED queued

RWNext == \E t \in Thread : QueueWriter(t) \/ AcquireX(t) \/ AcquireS(t) \/ Release(t)

RWSpec == RWInit /\ [][RWNext]_lockVars
=============================================================================
