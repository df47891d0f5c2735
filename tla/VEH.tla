-------------------------------- MODULE VEH ---------------------------------
(***************************************************************************)
(* The vectored exception handlers of src/compat/w2k_veh.c: a circular,    *)
(* doubly linked list of reference-counted registrations under g_lock, and *)
(* the walk of call_vectored_handlers, which leaves g_lock while a handler *)
(* runs and once more to free a registration.                              *)
(*                                                                         *)
(* What runs between EnterCriticalSection and LeaveCriticalSection is one  *)
(* action.  HeapFree is called after g_lock is left, so it is a step of    *)
(* its own.  A handler may register and remove handlers.  A thread stands  *)
(* for one activation of the dispatcher: a nested exception is one more.   *)
(*                                                                         *)
(* Calls that fail before they touch the list (no memory, a NULL handler,  *)
(* an ntdll that cannot be hooked) change nothing and are left out.        *)
(* Without a registration the dispatch hook does nothing but pass the      *)
(* exception on, so g_hook_installed is left out as well.  The SID hook    *)
(* that both calls ensure first shares no state with the list.             *)
(***************************************************************************)
EXTENDS Naturals, FiniteSets, Sequences, Functions

CONSTANTS Thread,   \* activations of the code
          Entry,    \* one W2K_VEH_ENTRY per registration
          Anchor,   \* the list head g_handlers
          None      \* a NULL pointer

ASSUME VEHAssumption ==
    /\ IsFiniteSet(Thread) /\ IsFiniteSet(Entry)
    /\ Anchor \notin Entry /\ None \notin Entry \cup {Anchor}

Node == Entry \cup {Anchor}

VARIABLES
    flink,    \* Links.Flink of every node; an unlinked entry keeps its own
    blink,    \* Links.Blink of every node
    refs,     \* References of every entry
    deleted,  \* Deleted of every entry
    heap,     \* is the entry not yet allocated, live or freed
    pc,       \* "idle", in a "handler", about to "resume" the walk, "fault"
    cursor,   \* current, the walk's position
    garbage,  \* the unlinked entry a thread is about to free, or None
    called,   \* history: the entries a dispatch has called, in order
    owed      \* history: the entries registered since a dispatch began that
              \* it has not called

links == <<flink, blink>>

walks == <<pc, cursor, called, owed>>

vars == <<links, refs, deleted, heap, walks, garbage>>

TypeOK ==
    /\ flink \in [Node -> Node] /\ blink \in [Node -> Node]
    /\ refs \in [Entry -> Nat]
    /\ deleted \in [Entry -> BOOLEAN]
    /\ heap \in [Entry -> {"none", "live", "freed"}]
    /\ pc \in [Thread -> {"idle", "handler", "resume", "fault"}]
    /\ cursor \in [Thread -> Node]
    /\ garbage \in [Thread -> Entry \cup {None}]
    /\ called \in [Thread -> Seq(Entry)] /\ owed \in [Thread -> SUBSET Entry]

Init ==
    /\ flink = [n \in Node |-> n] /\ blink = [n \in Node |-> n]
    /\ refs = [e \in Entry |-> 0]
    /\ deleted = [e \in Entry |-> FALSE]
    /\ heap = [e \in Entry |-> "none"]
    /\ pc = [t \in Thread |-> "idle"]
    /\ cursor = [t \in Thread |-> Anchor]
    /\ garbage = [t \in Thread |-> None]
    /\ called = [t \in Thread |-> <<>>] /\ owed = [t \in Thread |-> {}]

\* A thread can make a call: it is in no call, or in a handler.
CanCall(t) == pc[t] \in {"idle", "handler"} /\ garbage[t] = None

-----------------------------------------------------------------------------
(* The list *)

\* The entries on the way from node n along the links f up to the head: the
\* least set that holds n and follows f.
From(n, f) ==
    {e \in Entry : \A S \in SUBSET Entry :
        n \in S \cup {Anchor} /\ (\A p \in S : f[p] \in S \cup {Anchor}) => e \in S}

Linked == From(flink[Anchor], flink)

\* Mutant: the entry behind e keeps e as its Blink.
UnlinkForwardOnly(e) ==
    /\ flink' = [flink EXCEPT ![blink[e]] = flink[e]]
    /\ UNCHANGED blink

\* remove_list_entry
Unlink(e) ==
    /\ flink' = [flink EXCEPT ![blink[e]] = flink[e]]
    /\ blink' = [blink EXCEPT ![flink[e]] = blink[e]]

\* insert_list_head is InsertBefore(e, flink[Anchor]), insert_list_tail is
\* InsertBefore(e, Anchor).
InsertBefore(e, n) ==
    /\ flink' = [flink EXCEPT ![e] = n, ![blink[n]] = e]
    /\ blink' = [blink EXCEPT ![e] = blink[n], ![n] = e]

-----------------------------------------------------------------------------
(* W2KAddVectoredExceptionHandler and W2KRemoveVectoredExceptionHandler *)

Add(t, e, first) ==
    /\ CanCall(t)
    /\ heap[e] = "none"
    /\ heap' = [heap EXCEPT ![e] = "live"]
    /\ refs' = [refs EXCEPT ![e] = 1]
    /\ InsertBefore(e, IF first THEN flink[Anchor] ELSE Anchor)
    /\ UNCHANGED <<deleted, walks, garbage>>

Removable(e) == ~deleted[e]

\* The entry is marked, and unlinked when no dispatch is using it.
Remove(t, e) ==
    /\ CanCall(t)
    /\ e \in Linked /\ Removable(e)
    /\ deleted' = [deleted EXCEPT ![e] = TRUE]
    /\ refs' = [refs EXCEPT ![e] = @ - 1]
    /\ IF refs'[e] = 0
         THEN Unlink(e) /\ garbage' = [garbage EXCEPT ![t] = e]
         ELSE UNCHANGED <<links, garbage>>
    /\ owed' = [u \in Thread |-> owed[u] \ {e}]
    /\ UNCHANGED <<heap, pc, cursor, called>>

-----------------------------------------------------------------------------
(* call_vectored_handlers *)

\* Mutant: the walk also calls an entry that has been removed.
SkipsNothing(e) == FALSE

Skipped(e) == deleted[e]

Freed == {e \in Entry : heap[e] = "freed"}

\* What the walk passes over.  A freed entry is where it reads memory that is
\* no longer its own.
Passed(e) == e \notin Freed /\ Skipped(e)

\* The first node from n that the walk does not pass over.
FirstLive(n) ==
    LET walked == From(n, [p \in Entry |-> IF Passed(p) THEN flink[p] ELSE Anchor])
        stops  == {e \in walked : ~Passed(e)}
    IN  IF stops = {} THEN Anchor ELSE CHOOSE e \in stops : TRUE

\* The loop under g_lock from node n: to the end of the list, into freed memory
\* or into the next handler.  counts are the reference counts so far, done the
\* handlers this dispatch has called and due those it still owes a call.
WalkFrom(t, n, counts, done, due) ==
    LET m == FirstLive(n) IN
    /\ cursor' = [cursor EXCEPT ![t] = m]
    /\ \/ /\ m \in Freed \cup {Anchor}
          /\ pc' = [pc EXCEPT ![t] = IF m = Anchor THEN "idle" ELSE "fault"]
          /\ refs' = counts
          /\ called' = [called EXCEPT ![t] = done]
          /\ owed' = [owed EXCEPT ![t] = due]
       \/ /\ m \notin Freed \cup {Anchor}
          /\ pc' = [pc EXCEPT ![t] = "handler"]
          /\ refs' = [counts EXCEPT ![m] = @ + 1]
          /\ called' = [called EXCEPT ![t] = Append(done, m)]
          /\ owed' = [owed EXCEPT ![t] = due \ {m}]

\* An exception is raised: every registered handler is owed a call.
Dispatch(t) ==
    /\ pc[t] = "idle" /\ garbage[t] = None
    /\ WalkFrom(t, flink[Anchor], refs, <<>>, {e \in Linked : ~deleted[e]})
    /\ UNCHANGED <<links, deleted, heap, garbage>>

\* Mutant: the walk passes over a handler.
NextButOne(e) == IF flink[e] = Anchor THEN Anchor ELSE flink[flink[e]]

\* current = entry->Links.Flink
NextNode(e) == flink[e]

\* Mutants: an entry is freed although, or never freed when, it was removed
\* while its handler ran.
UnusedWhenDeleted(e, left) == deleted[e]

NeverUnused(e, left) == FALSE

Unused(e, left) == left = 0

\* The handler returns.  The last user of a removed entry unlinks it and has to
\* leave g_lock to free it; otherwise the walk goes on under g_lock.  stop says
\* that the handler returned EXCEPTION_CONTINUE_EXECUTION.
HandlerReturns(t, stop) ==
    LET e    == cursor[t]
        left == refs[e] - 1
    IN
    /\ pc[t] = "handler" /\ garbage[t] = None
    /\ \/ /\ Unused(e, left)
          /\ cursor' = [cursor EXCEPT ![t] = NextNode(e)]
          /\ Unlink(e)
          /\ garbage' = [garbage EXCEPT ![t] = e]
          /\ refs' = [refs EXCEPT ![e] = left]
          /\ pc' = [pc EXCEPT ![t] = IF stop THEN "idle" ELSE "resume"]
          /\ owed' = [owed EXCEPT ![t] = IF stop THEN {} ELSE @]
          /\ UNCHANGED called
       \/ /\ ~Unused(e, left) /\ stop
          /\ refs' = [refs EXCEPT ![e] = left]
          /\ pc' = [pc EXCEPT ![t] = "idle"]
          /\ owed' = [owed EXCEPT ![t] = {}]
          /\ UNCHANGED <<links, garbage, cursor, called>>
       \/ /\ ~Unused(e, left) /\ ~stop
          /\ WalkFrom(t, NextNode(e), [refs EXCEPT ![e] = left], called[t], owed[t])
          /\ UNCHANGED <<links, garbage>>
    /\ UNCHANGED <<deleted, heap>>

\* HeapFree, outside g_lock.
Free(t) ==
    /\ garbage[t] # None
    /\ heap' = [heap EXCEPT ![garbage[t]] = "freed"]
    /\ garbage' = [garbage EXCEPT ![t] = None]
    /\ UNCHANGED <<links, refs, deleted, walks>>

\* The walk takes g_lock again and goes on from the node it saved.
Resume(t) ==
    /\ pc[t] = "resume" /\ garbage[t] = None
    /\ WalkFrom(t, cursor[t], refs, called[t], owed[t])
    /\ UNCHANGED <<links, deleted, heap, garbage>>

-----------------------------------------------------------------------------
\* What the scheduler must run: handlers return, calls run to their end.
Proceed(t) == Free(t) \/ Resume(t) \/ \E stop \in BOOLEAN : HandlerReturns(t, stop)

Next ==
    \E t \in Thread :
        \/ Proceed(t) \/ Dispatch(t)
        \/ \E e \in Entry : Remove(t, e) \/ \E first \in BOOLEAN : Add(t, e, first)

Spec == Init /\ [][Next]_vars

FairSpec == Spec /\ \A t \in Thread : WF_vars(Proceed(t))

-----------------------------------------------------------------------------
(* Properties *)

Running(e) == {t \in Thread : pc[t] = "handler" /\ cursor[t] = e}

\* The list is a ring in both directions and holds exactly the live entries that
\* no thread is about to free: no removal, by a caller or by the last dispatch
\* that used the entry, leaves a half-linked or a lost registration.
ListSound ==
    /\ Linked = {e \in Entry : heap[e] = "live" /\ \A t \in Thread : garbage[t] # e}
    /\ \A n \in Linked \cup {Anchor} : blink[flink[n]] = n /\ flink[blink[n]] = n

\* A linked entry is referenced once by its registration and once by every
\* dispatch that runs its handler; the entry a handler runs for stays linked.
References ==
    /\ \A e \in Linked :
        /\ refs[e] = Cardinality(Running(e)) + (IF deleted[e] THEN 0 ELSE 1)
        /\ refs[e] > 0
    /\ \A t \in Thread : pc[t] = "handler" => cursor[t] \in Linked

\* The links lead back to the head from every entry, also from one that has left
\* the list: a walk that goes on from there ends, and g_lock is left again.
LeadsBack ==
    \A e \in Entry : heap[e] # "none" => \E p \in From(e, flink) : flink[p] = Anchor

\* The list of registrations is whole in its links and in its references,
\* whatever callers and dispatches do to it at the same time.
RegistrationsSound == ListSound /\ LeadsBack /\ References

\* The walk never reads an entry that has been freed.
NoUseAfterFree == \A t \in Thread : pc[t] # "fault"

\* A dispatch reads freed memory at most when it takes g_lock again after it has
\* freed a registration itself: the references protect every other step of it.
FaultsOnlyOnResume ==
    [][\A t \in Thread : pc'[t] = "fault" => pc[t] \in {"resume", "fault"}]_vars

\* A dispatch that no handler stopped has called every handler that was
\* registered when it began and has not been removed since.
NobodySkipped == \A t \in Thread : pc[t] = "idle" => owed[t] = {}

\* One dispatch calls no handler twice, although handlers come and go around it.
CalledOnce == \A t \in Thread : IsInjective(called[t])

\* Handlers that come and go around a dispatch make it neither skip one that
\* stays nor call one twice.
EachCalledOnce == NobodySkipped /\ CalledOnce

\* Once it has been removed, no dispatch enters a handler any more.
RemovedNotCalled ==
    [][\A e \in Entry : deleted[e] => Running(e)' \subseteq Running(e)]_vars

\* A removed registration is eventually freed, also when it was removed while
\* its handler ran in several dispatches.
RemovedIsFreed == \A e \in Entry : deleted[e] ~> heap[e] = "freed"
=============================================================================
