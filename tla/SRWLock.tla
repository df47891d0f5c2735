------------------------------ MODULE SRWLock -------------------------------
(***************************************************************************)
(* The slim reader/writer lock of src/compat/w2k_sync.c: one pointer-wide  *)
(* slot, a state object that the first caller allocates and publishes with *)
(* InterlockedCompareExchange, and a lock built from a critical section    *)
(* (the gate) and two manual-reset events.                                 *)
(*                                                                         *)
(* Code that runs between EnterCriticalSection and LeaveCriticalSection of *)
(* the gate is one action: every field is read and written only under the  *)
(* gate.  WaitForSingleObject is called after the gate is left, so it is a *)
(* step of its own, and a blocked thread is released by SetEvent at once,  *)
(* even if the event is reset before the thread runs again.                *)
(*                                                                         *)
(* Callers follow the SRW discipline: a thread takes the lock at most once *)
(* and releases it in the mode it took it in.                              *)
(***************************************************************************)
EXTENDS Naturals, FiniteSets

CONSTANTS Thread,         \* the threads that use one lock
          None,           \* a NULL pointer
          AllocMayFail    \* whether HeapAlloc and CreateEvent may return NULL

ASSUME ThreadAssumption == IsFiniteSet(Thread) /\ None \notin Thread

ASSUME AllocAssumption == AllocMayFail \in BOOLEAN

VARIABLES
    slot,             \* the SRWLOCK word: None, or the published object
    live,             \* the state objects allocated and not yet freed
    readers,          \* per object: W2K_SRW_STATE.readers
    writer_active,    \* per object: W2K_SRW_STATE.writer_active
    writers_waiting,  \* per object: W2K_SRW_STATE.writers_waiting
    can_read,         \* per object: is the event can_read signalled
    can_write,        \* per object: is the event can_write signalled
    pc,               \* where each thread is in its call
    call,             \* the acquire call each thread last made
    obj,              \* the object get_srw_state or *slot gave the call
    mode              \* what each caller has been told it holds

fields == <<readers, writer_active, writers_waiting, can_read, can_write>>

vars == <<slot, live, fields, pc, call, obj, mode>>

\* State objects are named by the thread that allocates them: a thread has at
\* most one object that is not published.
Object == Thread

Calls == {"X", "S", "TryX", "TryS"}

Steps == {"idle", "alloc", "cas", "enter", "wait", "blocked", "reenter", "release"}

TypeOK ==
    /\ slot \in Object \cup {None}
    /\ live \subseteq Object
    /\ readers \in [Object -> Nat]
    /\ writer_active \in [Object -> BOOLEAN]
    /\ writers_waiting \in [Object -> Nat]
    /\ can_read \in [Object -> BOOLEAN]
    /\ can_write \in [Object -> BOOLEAN]
    /\ pc \in [Thread -> Steps]
    /\ call \in [Thread -> Calls]
    /\ obj \in [Thread -> Object \cup {None}]
    /\ mode \in [Thread -> {"none", "X", "S"}]

Init ==
    /\ slot = None
    /\ live = {}
    /\ readers = [o \in Object |-> 0]
    /\ writer_active = [o \in Object |-> FALSE]
    /\ writers_waiting = [o \in Object |-> 0]
    /\ can_read = [o \in Object |-> TRUE]
    /\ can_write = [o \in Object |-> TRUE]
    /\ pc = [t \in Thread |-> "idle"]
    /\ call = [t \in Thread |-> "X"]
    /\ obj = [t \in Thread |-> None]
    /\ mode = [t \in Thread |-> "none"]

Goto(t, step) == pc' = [pc EXCEPT ![t] = step]

-----------------------------------------------------------------------------
(* get_srw_state *)

\* W2KAcquireSRWLock* and W2KTryAcquireSRWLock* read the slot without a lock.
CallAcquire(t, c) ==
    /\ pc[t] = "idle"
    /\ mode[t] = "none"
    /\ call' = [call EXCEPT ![t] = c]
    /\ obj' = [obj EXCEPT ![t] = slot]
    /\ Goto(t, IF slot = None THEN "alloc" ELSE "enter")
    /\ UNCHANGED <<slot, live, fields, mode>>

\* A private object: HEAP_ZERO_MEMORY and two events created signalled.
Allocate(t) ==
    /\ pc[t] = "alloc"
    /\ live' = live \cup {t}
    /\ readers' = [readers EXCEPT ![t] = 0]
    /\ writer_active' = [writer_active EXCEPT ![t] = FALSE]
    /\ writers_waiting' = [writers_waiting EXCEPT ![t] = 0]
    /\ can_read' = [can_read EXCEPT ![t] = TRUE]
    /\ can_write' = [can_write EXCEPT ![t] = TRUE]
    /\ Goto(t, "cas")
    /\ UNCHANGED <<slot, call, obj, mode>>

\* get_srw_state returns NULL.  The two acquire calls are VOID and return as
\* if they had the lock; the two try calls return FALSE.
AllocateFails(t) ==
    /\ AllocMayFail
    /\ pc[t] = "alloc"
    /\ mode' = [mode EXCEPT ![t] = IF call[t] \in {"X", "S"} THEN call[t] ELSE "none"]
    /\ Goto(t, "idle")
    /\ UNCHANGED <<slot, live, fields, call, obj>>

\* Mutant: the slot is overwritten by a plain store.
SlotOverwritten == TRUE

\* The comparand of InterlockedCompareExchange.
SlotEmpty == slot = None

\* InterlockedCompareExchange: one object is published, a loser frees its own.
PublishSlot(t) ==
    /\ pc[t] = "cas"
    /\ IF SlotEmpty
         THEN /\ slot' = t
              /\ obj' = [obj EXCEPT ![t] = t]
              /\ UNCHANGED live
         ELSE /\ obj' = [obj EXCEPT ![t] = slot]
              /\ live' = live \ {t}
              /\ UNCHANGED slot
    /\ Goto(t, "enter")
    /\ UNCHANGED <<fields, call, mode>>

-----------------------------------------------------------------------------
(* Acquire and release under the gate *)

\* Mutants: a writer overlooks the readers, a reader the waiting writers.
BusyWriterOnly(o) == writer_active[o]

BarredByHolderOnly(o) == writer_active[o]

\* What keeps a writer out, and what keeps a reader out.
Busy(o) == writer_active[o] \/ readers[o] # 0

ReadersBarred(o) == writer_active[o] \/ writers_waiting[o] # 0

\* t leaves the API, holding the lock in mode m.
Return(t, m) ==
    /\ Goto(t, "idle")
    /\ mode' = [mode EXCEPT ![t] = m]

\* t holds object o exclusive and resets can_write.
TakeExclusive(t, o) ==
    /\ writer_active' = [writer_active EXCEPT ![o] = TRUE]
    /\ can_write' = [can_write EXCEPT ![o] = FALSE]
    /\ Return(t, "X")

\* acquire_exclusive_state up to the wait or the end: a writer that must wait
\* stays counted in writers_waiting, one that need not is counted and
\* uncounted in the same critical section.
EnterExclusive(t) ==
    LET o == obj[t] IN
    /\ pc[t] = "enter"
    /\ call[t] = "X"
    /\ can_read' = [can_read EXCEPT ![o] = FALSE]
    /\ \/ /\ Busy(o)
          /\ writers_waiting' = [writers_waiting EXCEPT ![o] = @ + 1]
          /\ can_write' = [can_write EXCEPT ![o] = FALSE]
          /\ Goto(t, "wait")
          /\ UNCHANGED <<writer_active, mode>>
       \/ /\ ~Busy(o)
          /\ TakeExclusive(t, o)
          /\ UNCHANGED writers_waiting
    /\ UNCHANGED <<slot, live, readers, call, obj>>

\* The writer's while loop after WaitForSingleObject returned.
ReenterExclusive(t) ==
    LET o == obj[t] IN
    /\ pc[t] = "reenter"
    /\ call[t] = "X"
    /\ \/ /\ Busy(o)
          /\ can_write' = [can_write EXCEPT ![o] = FALSE]
          /\ Goto(t, "wait")
          /\ UNCHANGED <<writer_active, writers_waiting, mode>>
       \/ /\ ~Busy(o)
          /\ writers_waiting' = [writers_waiting EXCEPT ![o] = @ - 1]
          /\ TakeExclusive(t, o)
    /\ UNCHANGED <<slot, live, readers, can_read, call, obj>>

\* t is counted as a reader of o; the first one resets can_write.
TakeShared(t, o) ==
    /\ readers' = [readers EXCEPT ![o] = @ + 1]
    /\ can_write' = [can_write EXCEPT ![o] = @ /\ readers[o] # 0]
    /\ Return(t, "S")

\* acquire_shared_state: the same loop at the first entry and after a wait.
EnterShared(t) ==
    LET o == obj[t] IN
    /\ pc[t] \in {"enter", "reenter"}
    /\ call[t] = "S"
    /\ \/ /\ ReadersBarred(o)
          /\ can_read' = [can_read EXCEPT ![o] = FALSE]
          /\ Goto(t, "wait")
          /\ UNCHANGED <<readers, can_write, mode>>
       \/ /\ ~ReadersBarred(o)
          /\ TakeShared(t, o)
          /\ UNCHANGED can_read
    /\ UNCHANGED <<slot, live, writer_active, writers_waiting, call, obj>>

\* try_acquire_exclusive_state: it does not look at writers_waiting.
TryExclusive(t) ==
    LET o == obj[t] IN
    /\ pc[t] = "enter"
    /\ call[t] = "TryX"
    /\ \/ /\ Busy(o)
          /\ Return(t, "none")
          /\ UNCHANGED <<writer_active, can_write, can_read>>
       \/ /\ ~Busy(o)
          /\ TakeExclusive(t, o)
          /\ can_read' = [can_read EXCEPT ![o] = FALSE]
    /\ UNCHANGED <<slot, live, readers, writers_waiting, call, obj>>

\* try_acquire_shared_state
TryShared(t) ==
    LET o == obj[t] IN
    /\ pc[t] = "enter"
    /\ call[t] = "TryS"
    /\ \/ /\ ReadersBarred(o)
          /\ Return(t, "none")
          /\ UNCHANGED <<readers, can_write>>
       \/ /\ ~ReadersBarred(o)
          /\ TakeShared(t, o)
    /\ UNCHANGED <<slot, live, writer_active, writers_waiting, can_read, call, obj>>

\* WaitForSingleObject, reached with the gate already left.
Awaited(t) == IF call[t] = "X" THEN can_write[obj[t]] ELSE can_read[obj[t]]

WaitEvent(t) ==
    /\ pc[t] = "wait"
    /\ Goto(t, IF Awaited(t) THEN "reenter" ELSE "blocked")
    /\ UNCHANGED <<slot, live, fields, call, obj, mode>>

\* The holder calls release, which reads *slot and does not allocate.
CallRelease(t) ==
    /\ pc[t] = "idle"
    /\ mode[t] # "none"
    /\ obj' = [obj EXCEPT ![t] = slot]
    /\ IF slot = None
         THEN mode' = [mode EXCEPT ![t] = "none"] /\ UNCHANGED pc
         ELSE Goto(t, "release") /\ UNCHANGED mode
    /\ UNCHANGED <<slot, live, fields, call>>

\* The threads that SetEvent on the events of o releases from their wait.
Sleepers(o, toWriters, toReaders) ==
    {u \in Thread : /\ pc[u] = "blocked"
                    /\ obj[u] = o
                    /\ IF call[u] = "X" THEN toWriters ELSE toReaders}

\* t is done releasing o, after SetEvent(can_write) when toWriters and
\* SetEvent(can_read) when toReaders.
ReleaseAndWake(t, o, toWriters, toReaders) ==
    /\ pc' = [u \in Thread |->
                IF u = t THEN "idle"
                ELSE IF u \in Sleepers(o, toWriters, toReaders) THEN "reenter" ELSE pc[u]]
    /\ can_write' = [can_write EXCEPT ![o] = @ \/ toWriters]
    /\ can_read' = [can_read EXCEPT ![o] = @ \/ toReaders]
    /\ mode' = [mode EXCEPT ![t] = "none"]

\* Mutant: a release that never signals can_read.
SignalsNobody(o) == FALSE

\* Readers are woken only when no writer waits.
SignalsReaders(o) == writers_waiting[o] = 0

LastReader(left) == left = 0

ReadersLeft(n) == IF n > 0 THEN n - 1 ELSE 0

\* release_exclusive_state
ReleaseExclusive(t) ==
    LET o == obj[t] IN
    /\ pc[t] = "release"
    /\ mode[t] = "X"
    /\ writer_active' = [writer_active EXCEPT ![o] = FALSE]
    /\ ReleaseAndWake(t, o, TRUE, SignalsReaders(o))
    /\ UNCHANGED <<slot, live, readers, writers_waiting, call, obj>>

\* release_shared_state: the last reader signals the events.
ReleaseShared(t) ==
    LET o    == obj[t]
        left == ReadersLeft(readers[o])
    IN
    /\ pc[t] = "release"
    /\ mode[t] = "S"
    /\ readers' = [readers EXCEPT ![o] = left]
    /\ ReleaseAndWake(t, o, LastReader(left), LastReader(left) /\ SignalsReaders(o))
    /\ UNCHANGED <<slot, live, writer_active, writers_waiting, call, obj>>

\* W2KInitializeSRWLock on a lock nobody uses: the slot is cleared and the old
\* object, which nobody can reach any more, is leaked (its name is free again).
Initialize ==
    /\ slot # None
    /\ \A t \in Thread : pc[t] = "idle" /\ mode[t] = "none"
    /\ slot' = None
    /\ live' = live \ {slot}
    /\ UNCHANGED <<fields, pc, call, obj, mode>>

-----------------------------------------------------------------------------
\* The steps a thread takes inside a call: the scheduler runs them.
Proceed(t) ==
    \/ Allocate(t) \/ AllocateFails(t) \/ PublishSlot(t)
    \/ EnterExclusive(t) \/ ReenterExclusive(t) \/ EnterShared(t)
    \/ TryExclusive(t) \/ TryShared(t)
    \/ WaitEvent(t)
    \/ ReleaseExclusive(t) \/ ReleaseShared(t)

Next ==
    \/ \E t \in Thread : Proceed(t) \/ CallRelease(t) \/ \E c \in Calls : CallAcquire(t, c)
    \/ Initialize

Spec == Init /\ [][Next]_vars

\* A runnable thread is eventually run and a holder eventually releases; no
\* thread has to call acquire.
Fairness == \A t \in Thread : WF_vars(Proceed(t)) /\ WF_vars(CallRelease(t))

FairSpec == Spec /\ Fairness

-----------------------------------------------------------------------------
(* Properties *)

\* The steps of a thread inside the acquire loop, and those of a thread that
\* works on a state object.
InLoop == {"wait", "blocked", "reenter"}

InCall == InLoop \cup {"enter", "release"}

\* The writers that wait for the lock.
WritersInLine == {t \in Thread : call[t] = "X" /\ pc[t] \in InLoop}

ReadHolders == {t \in Thread : mode[t] = "S"}

WriteHolders == {t \in Thread : mode[t] = "X"}

\* A thread that was told it holds the lock exclusive is the only holder, and
\* readers never hold it together with a writer: what the bridge's acquire and
\* release paths owe the Vista SRW contract.
MutualExclusion ==
    \A t, u \in Thread : mode[t] = "X" /\ mode[u] # "none" => t = u

\* The fields of the published object count the callers: readers counts the
\* shared holders, writer_active says there is an exclusive one, and
\* writers_waiting counts the writers inside the acquire loop.
Accounting ==
    slot # None =>
        /\ readers[slot] = Cardinality(ReadHolders)
        /\ writer_active[slot] <=> WriteHolders # {}
        /\ writers_waiting[slot] = Cardinality(WritersInLine)

\* Outside the gate the two manual-reset events tell the state of the lock:
\* can_write is signalled exactly when nobody is counted as a holder and
\* can_read exactly when no writer holds the lock or waits for it.  A waiter
\* that reaches WaitForSingleObject late therefore never sleeps on a free lock.
EventsTellState ==
    slot # None =>
        /\ can_write[slot] <=> ~Busy(slot)
        /\ can_read[slot] <=> ~ReadersBarred(slot)

\* The state object tells the truth about its callers, in its counters and in
\* its events, whenever the gate is free.
ObjectTellsState == Accounting /\ EventsTellState

\* Every call that found a state object works on the one the slot publishes,
\* and that object is allocated: get_srw_state never hands out an object that
\* lost the InterlockedCompareExchange race and was destroyed.
OneObject == \A t \in Thread : pc[t] \in InCall => obj[t] = slot /\ slot \in live

\* Failed allocations do no harm to the state: it stays one, and a caller that
\* got no memory and later releases what it does not hold makes no count negative.
StateSurvivesFailure ==
    OneObject /\ \A o \in Object : readers[o] >= 0 /\ writers_waiting[o] >= 0

\* No wakeup is lost: a thread blocked in WaitForSingleObject waits for a
\* holder that has not released yet, or, for a reader, for a writer that is
\* awake and in line; it never waits for nobody, nor only for sleepers.
NoStrandedWaiter ==
    \A t \in Thread :
        pc[t] = "blocked" =>
            \/ \E u \in Thread : mode[u] # "none"
            \/ call[t] = "S" /\ \E w \in WritersInLine : pc[w] # "blocked"

\* A reader is let in only when no writer was in line at that moment: neither
\* acquire_shared nor try_acquire_shared overtakes a waiting writer.
WriterPreference ==
    [][\A t \in Thread : t \in ReadHolders' \ ReadHolders => WritersInLine = {}]_vars

\* Waiting writers are served: when a writer is in line, some thread gets the
\* lock exclusive, whatever the readers do.
WritersServed == WritersInLine # {} ~> WriteHolders # {}

\* A waiting reader is starved only by writers: once no writer holds the lock or
\* is in line, every reader in the acquire loop gets in.
ReadersServed ==
    <>[](WriteHolders = {} /\ WritersInLine = {}) =>
        \A t \in Thread :
            (call[t] = "S" /\ pc[t] \in InLoop) ~> mode[t] = "S"

\* Both kinds of waiters are served.
EverybodyServed == WritersServed /\ ReadersServed

\* The lock of the bridge implements the abstract readers/writer lock.
RW == INSTANCE RWLock WITH queued <- WritersInLine

ImplementsRWLock == RW!RWSpec

-----------------------------------------------------------------------------
(* The inductive invariant behind the safety properties *)

Fresh(o) ==
    /\ readers[o] = 0 /\ ~writer_active[o] /\ writers_waiting[o] = 0
    /\ can_read[o] /\ can_write[o]

\* Who works on which object: private objects are fresh and never the one the
\* slot publishes, every other call works on that one.
SlotInv ==
    /\ slot # None => slot \in live
    /\ \A t \in Thread :
        /\ pc[t] \in InCall => slot # None /\ obj[t] = slot
        /\ pc[t] \in {"alloc", "cas"} => slot # t
        /\ pc[t] = "cas" => t \in live /\ Fresh(t)

\* What a thread inside a call holds, and which calls loop.
CallInv ==
    \A t \in Thread :
        /\ pc[t] \in InLoop => call[t] \in {"X", "S"}
        /\ pc[t] \in {"alloc", "cas", "enter"} \cup InLoop => mode[t] = "none"
        /\ pc[t] = "release" => mode[t] # "none"

\* The writers in line are counted.
QueueInv == slot # None => writers_waiting[slot] = Cardinality(WritersInLine)

\* The holders are counted, and a writer is alone.
HolderInv ==
    /\ slot = None => \A t \in Thread : mode[t] = "none"
    /\ slot # None =>
        /\ readers[slot] = Cardinality(ReadHolders)
        /\ writer_active[slot] <=> WriteHolders # {}
    /\ MutualExclusion

\* A thread sleeps only on an event that is not signalled.
SleepInv == \A t \in Thread : pc[t] = "blocked" => ~Awaited(t)

\* Holds whether or not allocation may fail.
ObjectInv == TypeOK /\ SlotInv /\ CallInv /\ QueueInv

\* Holds when allocation succeeds.  It is the invariant that, step by step,
\* carries mutual exclusion and the absence of lost wakeups.
LockInv == ObjectInv /\ HolderInv /\ EventsTellState /\ SleepInv
=============================================================================
