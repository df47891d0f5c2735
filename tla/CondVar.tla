------------------------------ MODULE CondVar -------------------------------
(***************************************************************************)
(* The condition variable of src/compat/w2k_sync.c: a list of waiter       *)
(* records that live on their threads' stacks, each with an auto-reset     *)
(* event, under a critical section (the gate).  A sleeper joins the list   *)
(* before it gives the lock back; a waker takes a waiter off the list and  *)
(* signals it under the gate; a timeout may race with that.                *)
(*                                                                         *)
(* The lock is the abstract RWLock, which SRWLock implements; a sleeper on *)
(* a CRITICAL_SECTION is one that holds the lock exclusive.  What runs     *)
(* between EnterCriticalSection and LeaveCriticalSection of the gate is    *)
(* one action.                                                             *)
(*                                                                         *)
(* The callers follow the monitor protocol: a sleeper checks a condition   *)
(* under the lock and sleeps while it is false, and the setter makes it    *)
(* true under the exclusive lock and then wakes.  A sleeper that finds the *)
(* condition true wakes the next one, so that one call of                  *)
(* W2KWakeConditionVariable is enough for all; a sleeper whose wait timed  *)
(* out may give up without looking again.                                  *)
(***************************************************************************)
EXTENDS RWLock, Naturals, FiniteSets

CONSTANTS Setter,        \* the thread that makes the condition true
          None,          \* a NULL pointer
          MayFail        \* whether HeapAlloc and CreateEvent may return NULL

ASSUME CondVarAssumption ==
    /\ IsFiniteSet(Thread) /\ Setter \in Thread /\ None \notin Thread
    /\ MayFail \in BOOLEAN

VARIABLES
    cv,        \* whether the condition variable's slot holds a state object
    head,      \* W2K_CV_STATE.head
    tail,      \* W2K_CV_STATE.tail
    next,      \* per thread: next in its W2K_CV_WAITER
    isQueued,  \* per thread: queued in its W2K_CV_WAITER
    event,     \* per thread: is its auto-reset event signalled
    frame,     \* the threads whose W2K_CV_WAITER is in scope
    pc,        \* where each thread is
    lockmode,  \* how each thread holds, or held, the lock: "X" or "S"
    result,    \* what WaitForSingleObject returned: "object" or "timeout"
    signaled,  \* what wait_cv_common will return
    ready,     \* the condition the sleepers wait for
    woken      \* history: the sleepers a waker has taken off the list

list == <<head, tail, next, isQueued>>

cvVars == <<cv, list, event, frame, pc, lockmode, result, signaled, ready, woken>>

vars == <<lockVars, cvVars>>

Sleepers == Thread \ {Setter}

Steps == {"start", "locked", "getcv", "create", "enqueue", "unlock", "wait", "regate",
          "reacquire", "returned", "leave", "wake", "wakeget", "wakeone", "quit", "done"}

TypeOK ==
    /\ RWTypeOK
    /\ cv \in BOOLEAN /\ ready \in BOOLEAN
    /\ head \in Thread \cup {None} /\ tail \in Thread \cup {None}
    /\ next \in [Thread -> Thread \cup {None}]
    /\ isQueued \in [Thread -> BOOLEAN] /\ event \in [Thread -> BOOLEAN]
    /\ signaled \in [Thread -> BOOLEAN]
    /\ frame \subseteq Thread /\ woken \subseteq Thread
    /\ pc \in [Thread -> Steps]
    /\ lockmode \in [Thread -> {"X", "S"}]
    /\ result \in [Thread -> {"object", "timeout"}]

Init ==
    /\ RWInit
    /\ cv = FALSE /\ ready = FALSE
    /\ head = None /\ tail = None
    /\ next = [t \in Thread |-> None]
    /\ isQueued = [t \in Thread |-> FALSE]
    /\ event = [t \in Thread |-> FALSE]
    /\ frame = {} /\ woken = {}
    /\ pc = [t \in Thread |-> "start"]
    /\ lockmode \in [Thread -> {"X", "S"}]
    /\ lockmode[Setter] = "X"
    /\ result = [t \in Thread |-> "object"]
    /\ signaled = [t \in Thread |-> FALSE]

Goto(t, step) == pc' = [pc EXCEPT ![t] = step]

-----------------------------------------------------------------------------
(* The lock, as the caller and wait_cv_common use it *)

\* Take the lock in mode m and go on at step; a writer may have to queue first.
Acquire(t, m, step) ==
    \/ m = "X" /\ QueueWriter(t) /\ UNCHANGED pc
    \/ m = "X" /\ AcquireX(t) /\ Goto(t, step)
    \/ m = "S" /\ AcquireS(t) /\ Goto(t, step)

-----------------------------------------------------------------------------
(* wait_cv_common and the two sleep calls *)

\* W2KSleepConditionVariableSRW and ...CS, called with the lock held and the
\* condition false: get_cv_state reads the slot.
SleepCall(t) ==
    /\ pc[t] = "locked" /\ t # Setter /\ ~ready
    /\ Goto(t, IF cv THEN "create" ELSE "getcv")
    /\ woken' = woken \ {t}
    /\ UNCHANGED <<lockVars, cv, list, event, frame, lockmode, result, signaled, ready>>

\* get_cv_state allocates and publishes (a second publisher finds the winner).
GetCv(t) ==
    /\ pc[t] = "getcv"
    /\ cv' = TRUE
    /\ Goto(t, "create")
    /\ UNCHANGED <<lockVars, list, event, frame, lockmode, result, signaled, ready, woken>>

\* No memory for the state or no event for the waiter: FALSE, the lock kept.
SleepFails(t) ==
    /\ MayFail
    /\ pc[t] \in {"getcv", "create"}
    /\ signaled' = [signaled EXCEPT ![t] = FALSE]
    /\ Goto(t, "returned")
    /\ UNCHANGED <<lockVars, cv, list, event, frame, lockmode, result, ready, woken>>

CreateWaiter(t) ==
    /\ pc[t] = "create"
    /\ frame' = frame \cup {t}
    /\ next' = [next EXCEPT ![t] = None]
    /\ isQueued' = [isQueued EXCEPT ![t] = TRUE]
    /\ event' = [event EXCEPT ![t] = FALSE]
    /\ Goto(t, "enqueue")
    /\ UNCHANGED <<lockVars, cv, head, tail, lockmode, result, signaled, ready, woken>>

\* The waiter joins the list at the tail while its thread still has the lock.
Enqueue(t) ==
    /\ pc[t] = "enqueue"
    /\ IF tail # None
         THEN next' = [next EXCEPT ![tail] = t] /\ UNCHANGED head
         ELSE head' = t /\ UNCHANGED next
    /\ tail' = t
    /\ Goto(t, "unlock")
    /\ UNCHANGED <<lockVars, cv, isQueued, event, frame, lockmode, result, signaled, ready, woken>>

Unlock(t) ==
    /\ pc[t] = "unlock"
    /\ Release(t)
    /\ Goto(t, "wait")
    /\ UNCHANGED <<cv, list, event, frame, lockmode, result, signaled, ready, woken>>

\* WaitForSingleObject takes the signal of the auto-reset event ...
WaitSignalled(t) ==
    /\ pc[t] = "wait"
    /\ event[t]
    /\ event' = [event EXCEPT ![t] = FALSE]
    /\ result' = [result EXCEPT ![t] = "object"]
    /\ Goto(t, "regate")
    /\ UNCHANGED <<lockVars, cv, list, frame, lockmode, signaled, ready, woken>>

\* ... or the timeout the caller chose runs out before the event is signalled.
WaitTimesOut(t) ==
    /\ pc[t] = "wait"
    /\ ~event[t]
    /\ result' = [result EXCEPT ![t] = "timeout"]
    /\ Goto(t, "regate")
    /\ UNCHANGED <<lockVars, cv, list, event, frame, lockmode, signaled, ready, woken>>

\* What is reachable from h by n: the least set that holds h and follows n.
Reachable(h, n) ==
    {t \in Thread : \A S \in SUBSET Thread :
        h \in S \cup {None} /\ (\A p \in S : n[p] \in S \cup {None}) => t \in S}

\* The waiters on the list.
OnList == Reachable(head, next)

Previous(w) ==
    IF head = w THEN None ELSE CHOOSE p \in OnList : next[p] = w

\* Mutant: the tail keeps pointing at the waiter that left.
TailKept(w) == tail

TailWithout(w) == IF tail = w THEN Previous(w) ELSE tail

\* remove_waiter: w leaves the list and is marked so.
RemoveWaiter(w) ==
    IF w \in OnList
      THEN /\ head' = IF head = w THEN next[w] ELSE head
           /\ tail' = TailWithout(w)
           /\ next' = [p \in Thread |-> IF p = w THEN None
                                        ELSE IF p \in OnList /\ next[p] = w THEN next[w]
                                        ELSE next[p]]
           /\ isQueued' = [isQueued EXCEPT ![w] = FALSE]
      ELSE UNCHANGED list

\* Mutant: the timeout wins over a waker that has already chosen this waiter.
TimeoutWins(t) == result[t] = "object"

\* What the sleeper reports: a waiter that is no longer on the list was woken,
\* even if its wait timed out.
Signaled(t) == isQueued[t] => result[t] = "object"

\* Back under the gate after the wait.
Regate(t) ==
    /\ pc[t] = "regate"
    /\ signaled' = [signaled EXCEPT ![t] = Signaled(t)]
    /\ IF isQueued[t] THEN RemoveWaiter(t) ELSE UNCHANGED list
    /\ Goto(t, "reacquire")
    /\ UNCHANGED <<lockVars, cv, event, frame, lockmode, result, ready, woken>>

\* Mutant: every sleeper takes the lock again exclusive.
ReacquireExclusive(t) == "X"

ReacquireMode(t) == lockmode[t]

\* The lock is taken again and the waiter's event closed.
Reacquire(t) ==
    /\ pc[t] = "reacquire"
    /\ Acquire(t, ReacquireMode(t), "returned")
    /\ frame' = IF pc'[t] = "returned" THEN frame \ {t} ELSE frame
    /\ UNCHANGED <<cv, list, event, lockmode, result, signaled, ready, woken>>

-----------------------------------------------------------------------------
(* W2KWakeConditionVariable and W2KWakeAllConditionVariable *)

\* get_cv_state in a wake call.
WakeCall(t) ==
    /\ pc[t] = "wake"
    /\ Goto(t, IF cv THEN "wakeone" ELSE "wakeget")
    /\ UNCHANGED <<lockVars, cv, list, event, frame, lockmode, result, signaled, ready, woken>>

WakeGetCv(t) ==
    /\ pc[t] = "wakeget"
    /\ cv' = TRUE
    /\ Goto(t, "wakeone")
    /\ UNCHANGED <<lockVars, list, event, frame, lockmode, result, signaled, ready, woken>>

\* Without memory for the state object the wake call returns silently.
WakeFails(t) ==
    /\ MayFail
    /\ pc[t] = "wakeget"
    /\ Goto(t, "done")
    /\ UNCHANGED <<lockVars, cv, list, event, frame, lockmode, result, signaled, ready, woken>>

\* The waiter at the head leaves the list and its event is signalled.
WakeOne(t) ==
    /\ pc[t] = "wakeone"
    /\ IF head = None
         THEN UNCHANGED <<list, event, woken>>
         ELSE /\ RemoveWaiter(head)
              /\ event' = [event EXCEPT ![head] = TRUE]
              /\ woken' = woken \cup {head}
    /\ Goto(t, "done")
    /\ UNCHANGED <<lockVars, cv, frame, lockmode, result, signaled, ready>>

\* Every waiter leaves the list and is signalled.
WakeAll(t) ==
    /\ pc[t] = "wakeone"
    /\ head' = None /\ tail' = None
    /\ next' = [w \in Thread |-> IF w \in OnList THEN None ELSE next[w]]
    /\ isQueued' = [w \in Thread |-> isQueued[w] /\ w \notin OnList]
    /\ event' = [w \in Thread |-> event[w] \/ w \in OnList]
    /\ woken' = woken \cup OnList
    /\ Goto(t, "done")
    /\ UNCHANGED <<lockVars, cv, frame, lockmode, result, signaled, ready>>

-----------------------------------------------------------------------------
(* The callers *)

Start(t) ==
    /\ pc[t] = "start"
    /\ Acquire(t, lockmode[t], "locked")
    /\ UNCHANGED <<cv, list, event, frame, lockmode, result, signaled, ready, woken>>

SetReady ==
    /\ pc[Setter] = "locked"
    /\ ready' = TRUE
    /\ Goto(Setter, "leave")
    /\ UNCHANGED <<lockVars, cv, list, event, frame, lockmode, result, signaled, woken>>

SeesReady(t) ==
    /\ pc[t] = "locked" /\ t # Setter /\ ready
    /\ Goto(t, "leave")
    /\ UNCHANGED <<lockVars, cv, list, event, frame, lockmode, result, signaled, ready, woken>>

\* Sleep returned: look at the condition again, or, after FALSE, give up.
Returned(t) ==
    /\ pc[t] = "returned"
    /\ \/ Goto(t, "locked")
       \/ ~signaled[t] /\ Goto(t, "quit")
    /\ UNCHANGED <<lockVars, cv, list, event, frame, lockmode, result, signaled, ready, woken>>

\* Give the lock back, then wake somebody unless giving up.
Leave(t) ==
    /\ pc[t] \in {"leave", "quit"}
    /\ Release(t)
    /\ Goto(t, IF pc[t] = "leave" THEN "wake" ELSE "done")
    /\ UNCHANGED <<cv, list, event, frame, lockmode, result, signaled, ready, woken>>

-----------------------------------------------------------------------------
\* What the scheduler must run: everything but failures and timeouts.
Proceed(t) ==
    \/ SleepCall(t) \/ GetCv(t) \/ CreateWaiter(t) \/ Enqueue(t) \/ Unlock(t)
    \/ WaitSignalled(t) \/ Regate(t) \/ Reacquire(t)
    \/ WakeCall(t) \/ WakeGetCv(t) \/ WakeOne(t) \/ WakeAll(t)
    \/ Start(t) \/ SeesReady(t) \/ Returned(t) \/ Leave(t)
    \/ t = Setter /\ SetReady

Next == \E t \in Thread : Proceed(t) \/ SleepFails(t) \/ WaitTimesOut(t) \/ WakeFails(t)

Spec == Init /\ [][Next]_vars

FairSpec == Spec /\ \A t \in Thread : WF_vars(Proceed(t))

-----------------------------------------------------------------------------
(* Properties *)

\* The threads whose waiter has joined the list and not yet been taken off it.
Enlisted == {t \in Thread : isQueued[t] /\ pc[t] \in {"unlock", "wait", "regate"}}

\* The list holds exactly the waiters marked queued, each in a frame that is
\* still in scope, and tail is its last node: remove_waiter, the bulk removal of
\* W2KWakeAll and a timed-out waiter's own removal keep it so in any order, and
\* no waker can signal the event of a thread that has returned.
ListWellFormed ==
    /\ OnList = Enlisted
    /\ OnList \subseteq frame
    /\ head = None <=> tail = None
    /\ head # None => tail \in OnList /\ next[tail] = None

\* Sleep returns TRUE exactly to the waiters a waker took off the list: a waker's
\* signal is never reported as a timeout and a timeout never as a signal, also
\* when SetEvent and the timeout race.
TrueIffWoken ==
    \A t \in Thread : pc[t] = "reacquire" => (signaled[t] <=> t \in woken)

\* Whatever the outcome, sleep returns with the lock held in the mode in which
\* it was held at the call.
LockHeldOnReturn ==
    \A t \in Thread : pc[t] \in {"locked", "create", "enqueue", "unlock", "returned"} =>
        mode[t] = lockmode[t]

\* Whoever is going to wake somebody: the setter after it set the condition, and
\* every sleeper that is awake and will see it.
WillWake ==
    {t \in Thread : \/ pc[t] \in {"leave", "wake", "wakeget", "wakeone"}
                    \/ t \in woken /\ pc[t] \in {"wait", "regate", "reacquire", "returned", "locked"}}

\* No wakeup is lost: while a sleeper is on the list and the condition is true,
\* somebody is still going to wake a sleeper.
NoLostWakeup == ready /\ Enlisted # {} => WillWake # {}

\* Once the condition is true every thread gets out of its sleep, although each
\* waker calls W2KWakeConditionVariable only once and waits have no timeout.
EverybodyLeaves == ready ~> \A t \in Thread : pc[t] = "done"
=============================================================================
