--------------------------- MODULE CondVar_proofs ---------------------------
(***************************************************************************)
(* The list of waiters is whole, no timeout is mistaken for a wakeup or a  *)
(* wakeup for a timeout, the lock comes back as it was held, and no wakeup *)
(* is lost, with any number of sleepers and whatever fails.                *)
(*                                                                         *)
(* The first part is about lists that are given by a head, a tail and a    *)
(* function next; the second about the condition variable that keeps one.  *)
(***************************************************************************)
EXTENDS CondVar, TLAPS

USE CondVarAssumption
----------------------------------------------------------------------------
(* Lists *)

\* tl is the only end of the list from h by n, which is no ring and meets no node twice.
Chain(h, tl, n) ==
    /\ h \in Thread \cup {None} /\ tl \in Thread \cup {None}
    /\ n \in [Thread -> Thread \cup {None}]
    /\ h = None <=> tl = None
    /\ h # None => tl \in Reachable(h, n)
    /\ \A p \in Reachable(h, n) :
          /\ n[p] = None <=> p = tl
          /\ n[p] # h
          /\ \A q \in Reachable(h, n) : n[p] = n[q] /\ n[p] # None => p = q

Follows(h, n, S) == h \in S \cup {None} /\ \A p \in S : n[p] \in S \cup {None}

LEMMA ReachableIsLeast ==
  ASSUME NEW h \in Thread \cup {None}, NEW n \in [Thread -> Thread \cup {None}]
  PROVE  /\ Reachable(h, n) \subseteq Thread
         /\ Follows(h, n, Reachable(h, n))
         /\ \A S \in SUBSET Thread : Follows(h, n, S) => Reachable(h, n) \subseteq S
<1>1. Reachable(h, n) \subseteq Thread
  BY DEF Reachable
<1>2. \A S \in SUBSET Thread : Follows(h, n, S) => Reachable(h, n) \subseteq S
  BY DEF Reachable, Follows
<1>3. h \in Reachable(h, n) \cup {None}
  BY DEF Reachable
<1>4. ASSUME NEW p \in Reachable(h, n) PROVE n[p] \in Reachable(h, n) \cup {None}
  <2>1. n[p] \in Thread \cup {None}
    BY <1>1
  <2>2. ASSUME NEW S \in SUBSET Thread, Follows(h, n, S), n[p] # None PROVE n[p] \in S
    BY <1>2, <2>2 DEF Follows
  <2> QED BY <2>1, <2>2 DEF Reachable, Follows
<1> QED BY <1>1, <1>2, <1>3, <1>4 DEF Follows

\* Nothing is reachable from NULL.
LEMMA EmptyList ==
  ASSUME NEW n \in [Thread -> Thread \cup {None}]
  PROVE  Reachable(None, n) = {} /\ Chain(None, None, n)
<1>1. Follows(None, n, {})
  BY DEF Follows
<1>2. Reachable(None, n) = {}
  BY <1>1, ReachableIsLeast
<1> QED BY <1>2 DEF Chain

\* A node of a chain other than its head has one predecessor.
LEMMA PredecessorExists ==
  ASSUME NEW h, NEW tl, NEW n, Chain(h, tl, n), NEW w \in Reachable(h, n), w # h
  PROVE  \E p \in Reachable(h, n) : p # w /\ n[p] = w
<1> DEFINE L == Reachable(h, n)
<1> SUFFICES ASSUME \A p \in L : p # w => n[p] # w PROVE FALSE
  OBVIOUS
<1>1. h \in Thread \cup {None} /\ n \in [Thread -> Thread \cup {None}]
  BY DEF Chain
<1>2. L \subseteq Thread /\ Follows(h, n, L)
  BY <1>1, ReachableIsLeast
<1>3. Follows(h, n, L \ {w})
  BY <1>2 DEF Follows
<1> QED BY <1>1, <1>2, <1>3, ReachableIsLeast

\* Enqueue: a node joins at the tail.
LEMMA AppendNode ==
  ASSUME NEW h, NEW tl, NEW n, Chain(h, tl, n),
         NEW t \in Thread, t \notin Reachable(h, n), n[t] = None,
         NEW h2, h2 = (IF tl = None THEN t ELSE h),
         NEW n2, n2 = [p \in Thread |-> IF p = tl THEN t ELSE n[p]]
  PROVE  Chain(h2, t, n2) /\ Reachable(h2, n2) = Reachable(h, n) \cup {t}
<1> DEFINE L == Reachable(h, n)
           L2 == Reachable(h2, n2)
<1>1. /\ h \in Thread \cup {None} /\ n \in [Thread -> Thread \cup {None}]
      /\ h2 \in Thread \cup {None} /\ n2 \in [Thread -> Thread \cup {None}]
  BY DEF Chain
<1>2. L \subseteq Thread /\ Follows(h, n, L)
      /\ \A S \in SUBSET Thread : Follows(h, n, S) => L \subseteq S
  BY <1>1, ReachableIsLeast
<1>3. L2 \subseteq Thread /\ Follows(h2, n2, L2)
      /\ \A S \in SUBSET Thread : Follows(h2, n2, S) => L2 \subseteq S
  BY <1>1, ReachableIsLeast
<1>4. n2[t] = None /\ (tl # None => tl \in L /\ n2[tl] = t)
  BY <1>1, <1>2 DEF Chain
<1>5. \A p \in L : p # tl => n2[p] = n[p]
  BY <1>1, <1>2 DEF Chain
<1>6. L2 \subseteq L \cup {t}
  <2>1. Follows(h2, n2, L \cup {t})
    BY <1>2, <1>4, <1>5 DEF Follows, Chain
  <2> QED BY <1>2, <1>3, <2>1
<1>7. L \cup {t} \subseteq L2
  <2>1. CASE tl = None
    <3>1. L = {}
      BY <2>1, EmptyList DEF Chain
    <3> QED BY <1>3, <2>1, <3>1 DEF Follows
  <2>2. CASE tl # None
    <3>1. ASSUME NEW p \in L2 \cap L PROVE n[p] \in (L2 \cap L) \cup {None}
      <4>1. CASE p = tl
        BY <1>4, <2>2, <4>1 DEF Chain
      <4>2. CASE p # tl
        BY <1>2, <1>3, <1>5, <4>2 DEF Follows
      <4> QED BY <4>1, <4>2
    <3>2. Follows(h, n, L2 \cap L)
      BY <1>2, <1>3, <2>2, <3>1 DEF Follows
    <3>3. L \subseteq L2
      BY <1>2, <3>2
    <3>4. tl \in L2 /\ n2[tl] = t
      BY <1>4, <2>2, <3>3
    <3>5. t \in L2
      <4>1. \A p \in L2 : n2[p] \in L2 \cup {None}
        BY <1>3, Zenon DEF Follows
      <4>2. n2[tl] \in L2 \cup {None}
        BY <3>4, <4>1
      <4>3. t \in L2 \cup {None} /\ t # None
        BY <3>4, <4>2
      <4> QED BY <4>3
    <3> QED BY <3>3, <3>5
  <2> QED BY <2>1, <2>2
<1>8. L2 = L \cup {t}
  BY <1>6, <1>7
<1>9. ASSUME NEW p \in L2
      PROVE  /\ n2[p] = None <=> p = t
             /\ n2[p] # h2
             /\ \A q \in L2 : n2[p] = n2[q] /\ n2[p] # None => p = q
  <2>1. CASE tl = None
    <3>1. L2 = {t} /\ h2 = t
      BY <1>8, <2>1, EmptyList DEF Chain
    <3> QED BY <1>4, <3>1
  <2>2. CASE tl # None
    <3>1. h2 = h /\ h \in L
      BY <1>2, <2>2 DEF Chain, Follows
    <3>2. \A q \in L : q # tl => n2[q] = n[q] /\ n2[q] # t /\ n2[q] # None
      <4>1. \A q \in L : q # tl => n[q] # None
        BY DEF Chain
      <4>2. \A q \in L : n[q] \in L \cup {None}
        BY <1>2 DEF Follows
      <4>3. t \notin L
        OBVIOUS
      <4> QED BY <1>5, <4>1, <4>2, <4>3
    <3>3. CASE p = t
      BY <1>2, <1>4, <3>1, <3>3
    <3>4. CASE p = tl
      <4>1. \A q \in L2 : n2[q] = t => q = tl
        BY <1>4, <1>8, <3>2
      <4>2. tl \in L /\ t \notin L
        BY <1>4, <2>2
      <4>3. p # t /\ t # h
        BY <3>1, <3>4, <4>2
      <4> QED BY <1>4, <2>2, <3>1, <3>4, <4>1, <4>3
    <3>5. CASE p \in L /\ p # tl
      <4>1. ASSUME NEW q \in L2, n2[p] = n2[q] PROVE p = q
        <5>1. n2[p] = n[p] /\ n2[p] # t /\ n2[p] # None
          BY <1>5, <3>2, <3>5
        <5>2. q \in L /\ q # tl /\ n2[q] = n[q]
          BY <1>4, <1>5, <1>8, <2>2, <4>1, <5>1
        <5> QED BY <3>5, <4>1, <5>1, <5>2 DEF Chain
      <4>2. p # t /\ n2[p] # h
        BY <1>5, <3>5 DEF Chain
      <4> QED BY <3>1, <3>2, <3>5, <4>1, <4>2
    <3> QED BY <1>8, <3>3, <3>4, <3>5
  <2> QED BY <2>1, <2>2
<1>10. h2 # None
  BY DEF Chain
<1> QED BY <1>1, <1>8, <1>9, <1>10 DEF Chain

\* remove_waiter: a node leaves from wherever it is.
LEMMA RemoveNode ==
  ASSUME NEW h, NEW tl, NEW n, Chain(h, tl, n), NEW w \in Reachable(h, n),
         NEW h2, h2 = (IF h = w THEN n[w] ELSE h),
         NEW n2, n2 = [p \in Thread |-> IF p = w THEN None
                                        ELSE IF p \in Reachable(h, n) /\ n[p] = w THEN n[w]
                                        ELSE n[p]],
         NEW tl2, IF tl = w THEN IF h = w THEN tl2 = None
                                 ELSE tl2 \in Reachable(h, n) /\ n[tl2] = w
                  ELSE tl2 = tl
  PROVE  Chain(h2, tl2, n2) /\ Reachable(h2, n2) = Reachable(h, n) \ {w}
<1> DEFINE L == Reachable(h, n)
           L2 == Reachable(h2, n2)
<1>1. h \in Thread \cup {None} /\ n \in [Thread -> Thread \cup {None}]
  BY DEF Chain
<1>2. L \subseteq Thread /\ Follows(h, n, L)
      /\ \A S \in SUBSET Thread : Follows(h, n, S) => L \subseteq S
  BY <1>1, ReachableIsLeast
<1>3. h2 \in Thread \cup {None} /\ n2 \in [Thread -> Thread \cup {None}]
  BY <1>1, <1>2
<1>4. L2 \subseteq Thread /\ Follows(h2, n2, L2)
      /\ \A S \in SUBSET Thread : Follows(h2, n2, S) => L2 \subseteq S
  BY <1>3, ReachableIsLeast
<1>5. n[w] # w
  <2>1. CASE w = h
    BY <2>1 DEF Chain
  <2>2. CASE w # h
    BY <2>2, PredecessorExists, <1>2 DEF Chain
  <2> QED BY <2>1, <2>2
<1>6. \A p \in L \ {w} : n2[p] = IF n[p] = w THEN n[w] ELSE n[p]
  BY <1>2
<1>7. L2 \subseteq L \ {w}
  <2>1. Follows(h2, n2, L \ {w})
    BY <1>2, <1>5, <1>6 DEF Follows
  <2> QED BY <1>2, <1>4, <2>1
<1>8. L \ {w} \subseteq L2
  <2>1. ASSUME n[w] \in L2 \cup {None} PROVE L \ {w} \subseteq L2
    <3>1. Follows(h, n, (L2 \cap L) \cup {w})
      BY <1>2, <1>4, <1>6, <2>1 DEF Follows
    <3> QED BY <1>2, <3>1
  <2>2. CASE w = h
    BY <1>4, <2>1, <2>2 DEF Follows
  <2>3. CASE w # h
    <3>1. PICK p \in L : p # w /\ n[p] = w
      BY <2>3, PredecessorExists
    <3>2. CASE p \in L2
      BY <1>4, <1>6, <2>1, <3>1, <3>2 DEF Follows
    <3>3. CASE p \notin L2
      <4>1. \A q \in L2 \cap L : q # w /\ n[q] # w
        BY <1>7, <3>1, <3>3 DEF Chain
      <4>2. Follows(h, n, L2 \cap L)
        BY <1>2, <1>4, <1>6, <2>3, <4>1 DEF Follows
      <4> QED BY <1>2, <3>1, <3>3, <4>2
    <3> QED BY <3>2, <3>3
  <2> QED BY <2>2, <2>3
<1>9. L2 = L \ {w}
  BY <1>7, <1>8
<1>10. ASSUME NEW p \in L2
       PROVE  /\ n2[p] = None <=> p = tl2
              /\ n2[p] # h2
              /\ \A q \in L2 : n2[p] = n2[q] /\ n2[p] # None => p = q
  <2>1. p \in L /\ p # w /\ n2[p] = IF n[p] = w THEN n[w] ELSE n[p]
    BY <1>6, <1>9
  <2>2. n2[p] = None <=> p = tl2
    <3>1. CASE n[p] = w
      <4>1. h # w
        BY <2>1, <3>1 DEF Chain
      <4>2. tl = w => tl2 = p
        BY <1>2, <2>1, <3>1, <4>1 DEF Chain
      <4>3. p # tl
        BY <1>2, <2>1, <3>1 DEF Chain
      <4> QED BY <2>1, <3>1, <4>1, <4>2, <4>3 DEF Chain
    <3>2. CASE n[p] # w
      <4>1. n2[p] = None <=> p = tl
        BY <2>1, <3>2 DEF Chain
      <4> QED BY <1>2, <2>1, <3>2, <4>1
    <3> QED BY <3>1, <3>2
  <2>3. n2[p] # h2
    BY <1>2, <1>5, <2>1 DEF Chain, Follows
  <2>4. ASSUME NEW q \in L2, n2[p] = n2[q], n2[p] # None PROVE p = q
    <3>1. q \in L /\ q # w /\ n2[q] = IF n[q] = w THEN n[w] ELSE n[q]
      BY <1>6, <1>9
    <3> QED BY <2>1, <2>4, <3>1 DEF Chain
  <2> QED BY <2>2, <2>3, <2>4
<1>11. h2 = None <=> tl2 = None
  <2>1. CASE h = w
    BY <2>1, <1>2 DEF Chain
  <2>2. CASE h # w
    BY <2>2, <1>2 DEF Chain, Follows
  <2> QED BY <2>1, <2>2
<1>12. h2 # None => tl2 \in L2
  <2>1. CASE tl = w
    <3>1. h2 # None => tl2 \in L /\ n[tl2] = w
      BY <2>1 DEF Chain
    <3>2. h2 # None => tl2 # w
      BY <1>5, <3>1
    <3> QED BY <1>9, <3>1, <3>2
  <2>2. CASE tl # w
    BY <2>2, <1>9, <1>11 DEF Chain
  <2> QED BY <2>1, <2>2
<1>13. tl2 \in Thread \cup {None}
  BY <1>1, <1>2 DEF Chain
<1> QED BY <1>3, <1>9, <1>10, <1>11, <1>12, <1>13 DEF Chain

\* What lies outside a list does not belong to it.
LEMMA ChangeOutside ==
  ASSUME NEW h, NEW tl, NEW n, Chain(h, tl, n), NEW t \in Thread, t \notin Reachable(h, n),
         NEW n2, n2 = [n EXCEPT ![t] = None]
  PROVE  Chain(h, tl, n2) /\ Reachable(h, n2) = Reachable(h, n)
<1> DEFINE L == Reachable(h, n)
           L2 == Reachable(h, n2)
<1>1. h \in Thread \cup {None} /\ n \in [Thread -> Thread \cup {None}]
      /\ n2 \in [Thread -> Thread \cup {None}]
  BY DEF Chain
<1>2. L \subseteq Thread /\ Follows(h, n, L)
      /\ \A S \in SUBSET Thread : Follows(h, n, S) => L \subseteq S
  BY <1>1, ReachableIsLeast
<1>3. L2 \subseteq Thread /\ Follows(h, n2, L2)
      /\ \A S \in SUBSET Thread : Follows(h, n2, S) => L2 \subseteq S
  BY <1>1, ReachableIsLeast
<1>4. \A p \in L : n2[p] = n[p]
  BY <1>1, <1>2
<1>5. L2 \subseteq L
  <2>1. Follows(h, n2, L)
    BY <1>2, <1>4 DEF Follows
  <2> QED BY <1>2, <1>3, <2>1
<1>6. L \subseteq L2
  <2>1. Follows(h, n, L2)
    BY <1>3, <1>4, <1>5 DEF Follows
  <2> QED BY <1>2, <1>3, <2>1
<1>7. L2 = L
  BY <1>5, <1>6
<1>8. ASSUME NEW p \in L2
      PROVE  /\ n2[p] = None <=> p = tl
             /\ n2[p] # h
             /\ \A q \in L2 : n2[p] = n2[q] /\ n2[p] # None => p = q
  BY <1>4, <1>7 DEF Chain
<1>9. (h = None <=> tl = None) /\ (h # None => tl \in L2) /\ tl \in Thread \cup {None}
  BY <1>7 DEF Chain
<1>10. Chain(h, tl, n2)
  BY <1>1, <1>8, <1>9, Zenon DEF Chain
<1> QED BY <1>7, <1>10
----------------------------------------------------------------------------
(* The condition variable's list *)

\* The list is a chain of the waiters that joined it and were not taken off; a
\* waiter that has yet to join is alone.
ListInv ==
    /\ Chain(head, tail, next)
    /\ OnList = Enlisted
    /\ \A t \in Thread :
          /\ pc[t] = "enqueue" => isQueued[t] /\ next[t] = None
          /\ pc[t] \in {"enqueue", "unlock", "wait", "regate"} => t \in frame

LEMMA RemoveEffect ==
  ASSUME ListInv, NEW w \in OnList, RemoveWaiter(w)
  PROVE  /\ Chain(head', tail', next') /\ OnList' = OnList \ {w}
         /\ isQueued' = [isQueued EXCEPT ![w] = FALSE]
         /\ \A p \in Thread : p \notin OnList => next'[p] = next[p]
<1>1. /\ head' = (IF head = w THEN next[w] ELSE head)
      /\ tail' = (IF tail = w THEN Previous(w) ELSE tail)
      /\ next' = [p \in Thread |-> IF p = w THEN None
                                   ELSE IF p \in OnList /\ next[p] = w THEN next[w]
                                   ELSE next[p]]
      /\ isQueued' = [isQueued EXCEPT ![w] = FALSE]
  BY DEF RemoveWaiter, TailWithout
<1>2. head = w => Previous(w) = None
  BY DEF Previous
<1>3. head # w => Previous(w) \in OnList /\ next[Previous(w)] = w
  <2> SUFFICES ASSUME head # w PROVE \E p \in OnList : next[p] = w
    BY DEF Previous
  <2> QED BY PredecessorExists DEF ListInv, OnList
<1>4. IF tail = w THEN IF head = w THEN tail' = None
                       ELSE tail' \in OnList /\ next[tail'] = w
      ELSE tail' = tail
  BY <1>1, <1>2, <1>3
<1>5. Chain(head', tail', next') /\ OnList' = OnList \ {w}
  BY <1>1, <1>4, RemoveNode DEF ListInv, OnList
<1> QED BY <1>1, <1>5

LEMMA TypeStep == TypeOK /\ ListInv /\ [Next]_vars => TypeOK'
<1> SUFFICES ASSUME TypeOK, ListInv, [Next]_vars PROVE TypeOK'
  OBVIOUS
<1>1. CASE UNCHANGED vars
  BY <1>1 DEF TypeOK, RWTypeOK, vars, cvVars, list, lockVars
<1> SUFFICES ASSUME NEW t \in Thread, Proceed(t) \/ SleepFails(t) \/ WaitTimesOut(t) \/ WakeFails(t)
             PROVE  TypeOK'
  BY <1>1 DEF Next
<1>2. CASE SleepCall(t) \/ GetCv(t) \/ SleepFails(t) \/ CreateWaiter(t)
  BY <1>2 DEF SleepCall, GetCv, SleepFails, CreateWaiter, Goto, TypeOK, RWTypeOK, Steps, list, lockVars
<1>3. CASE Enqueue(t)
  BY <1>3 DEF Enqueue, Goto, TypeOK, RWTypeOK, Steps, list, lockVars
<1>4. CASE Unlock(t) \/ Leave(t)
  BY <1>4 DEF Unlock, Leave, Release, Goto, TypeOK, RWTypeOK, Steps, list
<1>5. CASE WaitSignalled(t) \/ WaitTimesOut(t)
  BY <1>5 DEF WaitSignalled, WaitTimesOut, Goto, TypeOK, RWTypeOK, Steps, list, lockVars
<1>6. ASSUME NEW w \in OnList, RemoveWaiter(w)
      PROVE  /\ head' \in Thread \cup {None} /\ tail' \in Thread \cup {None}
             /\ next' \in [Thread -> Thread \cup {None}] /\ isQueued' \in [Thread -> BOOLEAN]
  BY <1>6, RemoveEffect DEF Chain, TypeOK
<1>7. CASE Regate(t)
  <2>1. /\ head' \in Thread \cup {None} /\ tail' \in Thread \cup {None}
        /\ next' \in [Thread -> Thread \cup {None}] /\ isQueued' \in [Thread -> BOOLEAN]
    <3>1. CASE isQueued[t]
      BY <1>6, <1>7, <3>1 DEF Regate, ListInv, Enlisted
    <3>2. CASE ~isQueued[t]
      BY <1>7, <3>2 DEF Regate, TypeOK, list
    <3> QED BY <3>1, <3>2
  <2>2. signaled' \in [Thread -> BOOLEAN]
    BY <1>7 DEF Regate, Signaled, TypeOK
  <2> QED BY <1>7, <2>1, <2>2 DEF Regate, Goto, TypeOK, RWTypeOK, Steps, lockVars
<1>8. ASSUME NEW m, NEW step \in Steps, Acquire(t, m, step)
      PROVE  mode' \in [Thread -> {"none", "X", "S"}] /\ queued' \subseteq Thread
             /\ pc' \in [Thread -> Steps]
  BY <1>8 DEF Acquire, QueueWriter, AcquireX, AcquireS, Goto, TypeOK, RWTypeOK
<1>9. CASE Reacquire(t)
  <2>1. Acquire(t, ReacquireMode(t), "returned") /\ frame' \subseteq frame
        /\ UNCHANGED <<cv, list, event, lockmode, result, signaled, ready, woken>>
    BY <1>9 DEF Reacquire
  <2> QED BY <1>8, <2>1 DEF TypeOK, RWTypeOK, Steps, list
<1>10. CASE Start(t)
  BY <1>8, <1>10 DEF Start, TypeOK, RWTypeOK, Steps, list
<1>11. CASE WakeCall(t) \/ WakeGetCv(t) \/ WakeFails(t)
  BY <1>11 DEF WakeCall, WakeGetCv, WakeFails, Goto, TypeOK, RWTypeOK, Steps, list, lockVars
<1>12. CASE WakeOne(t)
  <2>1. CASE head = None
    BY <1>12, <2>1 DEF WakeOne, Goto, TypeOK, RWTypeOK, Steps, list, lockVars
  <2>2. CASE head # None
    <3>1. head \in OnList
      BY <2>2, ReachableIsLeast DEF OnList, Follows, TypeOK
    <3>2. RemoveWaiter(head) /\ event' = [event EXCEPT ![head] = TRUE] /\ woken' = woken \cup {head}
      BY <1>12, <2>2 DEF WakeOne
    <3>3. head \in Thread
      BY <2>2 DEF TypeOK
    <3> QED BY <1>6, <1>12, <3>1, <3>2, <3>3 DEF WakeOne, Goto, TypeOK, RWTypeOK, Steps, lockVars
  <2> QED BY <2>1, <2>2
<1>13. CASE WakeAll(t)
  BY <1>13, ReachableIsLeast DEF WakeAll, OnList, Goto, TypeOK, RWTypeOK, Steps, lockVars
<1>14. CASE SeesReady(t) \/ Returned(t)
  BY <1>14 DEF SeesReady, Returned, Goto, TypeOK, RWTypeOK, Steps, list, lockVars
<1>15. CASE SetReady
  BY <1>15 DEF SetReady, Goto, TypeOK, RWTypeOK, Steps, list, lockVars
<1> QED BY <1>2, <1>3, <1>4, <1>5, <1>7, <1>9, <1>10, <1>11, <1>12, <1>13, <1>14, <1>15 DEF Proceed

LEMMA ListStep == TypeOK /\ ListInv /\ [Next]_vars => ListInv'
<1> SUFFICES ASSUME TypeOK, ListInv, [Next]_vars PROVE ListInv'
  OBVIOUS
<1>1. ASSUME UNCHANGED list, Enlisted' = Enlisted,
             \A u \in Thread : pc[u] # "enqueue" => pc'[u] # "enqueue",
             \A u \in Thread : pc'[u] \in {"enqueue", "unlock", "wait", "regate"} => u \in frame'
      PROVE  ListInv'
  BY <1>1 DEF ListInv, OnList, list
<1>2. CASE UNCHANGED vars
  BY <1>1, <1>2 DEF vars, cvVars, list, Enlisted, ListInv
<1> SUFFICES ASSUME NEW t \in Thread, Proceed(t) \/ SleepFails(t) \/ WaitTimesOut(t) \/ WakeFails(t)
             PROVE  ListInv'
  BY <1>2 DEF Next
<1>3. ASSUME NEW from, NEW to, pc[t] = from, pc' = [pc EXCEPT ![t] = to],
             UNCHANGED <<isQueued, frame>>,
             from \in {"unlock", "wait", "regate"} <=> to \in {"unlock", "wait", "regate"},
             to # "enqueue"
      PROVE  Enlisted' = Enlisted /\ (\A u \in Thread : pc[u] # "enqueue" => pc'[u] # "enqueue")
             /\ \A u \in Thread : pc'[u] \in {"enqueue", "unlock", "wait", "regate"} => u \in frame'
  BY <1>3 DEF Enlisted, ListInv, TypeOK
<1>4. CASE SleepCall(t) \/ GetCv(t) \/ SleepFails(t) \/ Unlock(t) \/ Leave(t)
  BY <1>1, <1>3, <1>4 DEF SleepCall, GetCv, SleepFails, Unlock, Leave, Goto, list
<1>5. CASE CreateWaiter(t)
  <2>1. pc[t] = "create" /\ pc' = [pc EXCEPT ![t] = "enqueue"] /\ frame' = frame \cup {t}
        /\ next' = [next EXCEPT ![t] = None] /\ isQueued' = [isQueued EXCEPT ![t] = TRUE]
        /\ UNCHANGED <<head, tail>>
    BY <1>5 DEF CreateWaiter, Goto
  <2>2. t \notin OnList
    BY <2>1 DEF ListInv, Enlisted
  <2>3. Enlisted' = Enlisted
    BY <2>1 DEF Enlisted, TypeOK
  <2>4. Chain(head', tail', next') /\ OnList' = OnList
    <3>1. Chain(head, tail, next) /\ t \notin Reachable(head, next)
      BY <2>2 DEF ListInv, OnList
    <3>2. Chain(head, tail, next') /\ Reachable(head, next') = Reachable(head, next)
      BY <2>1, <3>1, ChangeOutside
    <3>3. head' = head /\ tail' = tail
      BY <2>1
    <3> QED BY <3>2, <3>3 DEF OnList
  <2> QED BY <2>1, <2>2, <2>3, <2>4 DEF ListInv, TypeOK
<1>6. CASE Enqueue(t)
  <2>1. pc[t] = "enqueue" /\ pc' = [pc EXCEPT ![t] = "unlock"] /\ tail' = t
        /\ head' = (IF tail = None THEN t ELSE head)
        /\ next' = (IF tail = None THEN next ELSE [next EXCEPT ![tail] = t])
        /\ UNCHANGED <<isQueued, frame>>
    BY <1>6 DEF Enqueue, Goto
  <2>2. t \notin OnList /\ isQueued[t] /\ next[t] = None
    BY <2>1 DEF ListInv, Enlisted
  <2>3. Chain(head', tail', next') /\ OnList' = OnList \cup {t}
    <3>1. Chain(head, tail, next) /\ t \notin Reachable(head, next)
      BY <2>2 DEF ListInv, OnList
    <3>2. Chain(head', t, next') /\ Reachable(head', next') = Reachable(head, next) \cup {t}
      <4>1. next' = [p \in Thread |-> IF p = tail THEN t ELSE next[p]]
        BY <2>1 DEF TypeOK
      <4>2. head' = (IF tail = None THEN t ELSE head) /\ next[t] = None
        BY <2>1, <2>2
      <4>3. ASSUME NEW h2, NEW n2, h2 = head', n2 = next'
            PROVE  Chain(h2, t, n2) /\ Reachable(h2, n2) = Reachable(head, next) \cup {t}
        BY <3>1, <4>1, <4>2, <4>3, AppendNode
      <4> QED BY <4>3
    <3>3. tail' = t
      BY <2>1
    <3> QED BY <3>2, <3>3 DEF OnList
  <2>4. Enlisted' = Enlisted \cup {t}
    BY <2>1, <2>2 DEF Enlisted, TypeOK
  <2>5. ASSUME NEW u \in Thread, pc'[u] = "enqueue" PROVE isQueued'[u] /\ next'[u] = None
    <3>1. u # t /\ pc[u] = "enqueue"
      BY <2>1, <2>5 DEF TypeOK
    <3>2. tail # None => tail # u
      BY <3>1 DEF ListInv, Chain, OnList, Enlisted
    <3> QED BY <2>1, <3>1, <3>2 DEF ListInv, TypeOK
  <2>6. \A u \in Thread : pc'[u] \in {"enqueue", "unlock", "wait", "regate"} => u \in frame'
    BY <2>1 DEF ListInv, TypeOK
  <2> QED BY <2>3, <2>4, <2>5, <2>6 DEF ListInv
<1>7. CASE WaitSignalled(t) \/ WaitTimesOut(t)
  BY <1>1, <1>3, <1>7 DEF WaitSignalled, WaitTimesOut, Goto, list
<1>8. ASSUME NEW w \in OnList, RemoveWaiter(w), Enlisted' = Enlisted \ {w},
             \A u \in Thread : pc'[u] = "enqueue" => pc[u] = "enqueue",
             \A u \in Thread : pc'[u] \in {"enqueue", "unlock", "wait", "regate"} => u \in frame'
      PROVE  ListInv'
  <2>1. ASSUME NEW u \in Thread, pc'[u] = "enqueue" PROVE isQueued'[u] /\ next'[u] = None
    <3>1. pc[u] = "enqueue" /\ u \notin OnList
      BY <1>8, <2>1 DEF ListInv, Enlisted
    <3> QED BY <1>8, <3>1, RemoveEffect DEF ListInv, TypeOK
  <2> QED BY <1>8, <2>1, RemoveEffect DEF ListInv
<1>9. CASE Regate(t)
  <2>1. pc[t] = "regate" /\ pc' = [pc EXCEPT ![t] = "reacquire"] /\ UNCHANGED frame
    BY <1>9 DEF Regate, Goto
  <2>2. \A u \in Thread : /\ pc'[u] = "enqueue" => pc[u] = "enqueue"
                          /\ pc'[u] \in {"enqueue", "unlock", "wait", "regate"} => u \in frame'
    BY <2>1 DEF ListInv, TypeOK
  <2>3. CASE isQueued[t]
    <3>1. t \in OnList /\ RemoveWaiter(t)
      BY <1>9, <2>1, <2>3 DEF Regate, ListInv, Enlisted
    <3>2. Enlisted' = Enlisted \ {t}
      BY <2>1, <3>1, RemoveEffect DEF Enlisted, TypeOK
    <3> QED BY <1>8, <2>2, <3>1, <3>2
  <2>4. CASE ~isQueued[t]
    <3>1. UNCHANGED list
      BY <1>9, <2>4 DEF Regate
    <3>2. Enlisted' = Enlisted
      BY <2>1, <2>4, <3>1 DEF Enlisted, TypeOK, list
    <3> QED BY <1>1, <2>2, <3>1, <3>2
  <2> QED BY <2>3, <2>4
<1>10. ASSUME NEW m, NEW step, Acquire(t, m, step), pc[t] \in {"reacquire", "start"},
              step \in {"returned", "locked"}, UNCHANGED list, frame' \in {frame, frame \ {t}}
       PROVE  ListInv'
  <2>1. pc' = pc \/ pc' = [pc EXCEPT ![t] = step]
    BY <1>10 DEF Acquire, Goto
  <2>2. Enlisted' = Enlisted
    BY <1>10, <2>1 DEF Enlisted, TypeOK, list
  <2>3. \A u \in Thread : /\ pc[u] # "enqueue" => pc'[u] # "enqueue"
                          /\ pc'[u] \in {"enqueue", "unlock", "wait", "regate"} => u \in frame'
    BY <1>10, <2>1 DEF ListInv, TypeOK
  <2> QED BY <1>1, <1>10, <2>2, <2>3
<1>11. CASE Reacquire(t)
  BY <1>10, <1>11 DEF Reacquire
<1>12. CASE Start(t)
  BY <1>10, <1>12 DEF Start
<1>13. CASE WakeCall(t) \/ WakeGetCv(t) \/ WakeFails(t)
  BY <1>1, <1>3, <1>13 DEF WakeCall, WakeGetCv, WakeFails, Goto, list
<1>14. CASE WakeOne(t)
  <2>1. pc[t] = "wakeone" /\ pc' = [pc EXCEPT ![t] = "done"] /\ UNCHANGED frame
    BY <1>14 DEF WakeOne, Goto
  <2>2. \A u \in Thread : /\ pc'[u] = "enqueue" => pc[u] = "enqueue"
                          /\ pc'[u] \in {"enqueue", "unlock", "wait", "regate"} => u \in frame'
    BY <2>1 DEF ListInv, TypeOK
  <2>3. CASE head = None
    <3>1. UNCHANGED list
      BY <1>14, <2>3 DEF WakeOne
    <3>2. Enlisted' = Enlisted
      BY <2>1, <3>1 DEF Enlisted, TypeOK, list
    <3> QED BY <1>1, <2>2, <3>1, <3>2
  <2>4. CASE head # None
    <3>1. head \in OnList /\ RemoveWaiter(head)
      BY <1>14, <2>4, ReachableIsLeast DEF WakeOne, OnList, Follows, TypeOK
    <3>2. Enlisted' = Enlisted \ {head}
      BY <2>1, <3>1, RemoveEffect DEF Enlisted, TypeOK
    <3> QED BY <1>8, <2>2, <3>1, <3>2
  <2> QED BY <2>3, <2>4
<1>15. CASE WakeAll(t)
  <2>1. pc[t] = "wakeone" /\ pc' = [pc EXCEPT ![t] = "done"] /\ UNCHANGED frame
        /\ head' = None /\ tail' = None
        /\ next' = [w \in Thread |-> IF w \in OnList THEN None ELSE next[w]]
        /\ isQueued' = [w \in Thread |-> isQueued[w] /\ w \notin OnList]
    BY <1>15 DEF WakeAll, Goto
  <2>2. next' \in [Thread -> Thread \cup {None}]
    BY <2>1 DEF TypeOK
  <2>3. OnList' = {} /\ Chain(head', tail', next')
    BY <2>1, <2>2, EmptyList DEF OnList
  <2>4. Enlisted' = {}
    <3>1. ASSUME NEW u \in Thread, isQueued'[u], pc'[u] \in {"unlock", "wait", "regate"} PROVE FALSE
      <4>1. isQueued[u] /\ u \notin OnList /\ pc[u] \in {"unlock", "wait", "regate"}
        BY <2>1, <3>1 DEF TypeOK
      <4> QED BY <4>1 DEF ListInv, Enlisted
    <3> QED BY <3>1 DEF Enlisted
  <2>5. ASSUME NEW u \in Thread
        PROVE  /\ pc'[u] = "enqueue" => isQueued'[u] /\ next'[u] = None
               /\ pc'[u] \in {"enqueue", "unlock", "wait", "regate"} => u \in frame'
    BY <2>1 DEF ListInv, Enlisted, TypeOK
  <2> QED BY <2>3, <2>4, <2>5 DEF ListInv
<1>16. CASE SeesReady(t) \/ Returned(t)
  BY <1>1, <1>3, <1>16 DEF SeesReady, Returned, Goto, list
<1>17. CASE t = Setter /\ SetReady
  BY <1>1, <1>3, <1>17 DEF SetReady, Goto, list
<1> QED BY <1>4, <1>5, <1>6, <1>7, <1>9, <1>11, <1>12, <1>13, <1>14, <1>15, <1>16, <1>17 DEF Proceed
----------------------------------------------------------------------------
(* The lock *)

Holding == {"locked", "getcv", "create", "enqueue", "unlock", "returned", "leave", "quit"}

\* A writer is alone, and who is in a call under the lock holds it as it took it.
LockInv ==
    /\ lockmode[Setter] = "X"
    /\ \A t, u \in Thread : mode[t] = "X" /\ mode[u] # "none" => t = u
    /\ \A t \in Thread : pc[t] \in Holding => mode[t] = lockmode[t]

LEMMA LockStep == TypeOK /\ LockInv /\ [Next]_vars => LockInv'
<1> SUFFICES ASSUME TypeOK, LockInv, [Next]_vars PROVE LockInv'
  OBVIOUS
<1>1. CASE UNCHANGED vars
  BY <1>1 DEF vars, cvVars, lockVars, LockInv
<1> SUFFICES ASSUME NEW t \in Thread, Proceed(t) \/ SleepFails(t) \/ WaitTimesOut(t) \/ WakeFails(t)
             PROVE  LockInv'
  BY <1>1 DEF Next
<1>2. ASSUME UNCHANGED <<mode, lockmode>>, NEW to, pc' = [pc EXCEPT ![t] = to],
             to \in Holding => pc[t] \in Holding
      PROVE  LockInv'
  BY <1>2 DEF LockInv, TypeOK
<1>3. ASSUME Release(t), UNCHANGED lockmode, NEW to, pc' = [pc EXCEPT ![t] = to], to \notin Holding
      PROVE  LockInv'
  BY <1>3 DEF Release, LockInv, TypeOK, RWTypeOK
<1>4. ASSUME NEW step, Acquire(t, lockmode[t], step), pc[t] \notin Holding, UNCHANGED lockmode
      PROVE  LockInv'
  <2>1. CASE QueueWriter(t) /\ UNCHANGED pc
    BY <1>4, <2>1 DEF QueueWriter, LockInv
  <2>2. CASE lockmode[t] = "X" /\ AcquireX(t) /\ Goto(t, step)
    BY <1>4, <2>2 DEF AcquireX, Holders, Goto, LockInv, TypeOK, RWTypeOK
  <2>3. CASE lockmode[t] = "S" /\ AcquireS(t) /\ Goto(t, step)
    BY <1>4, <2>3 DEF AcquireS, Writers, Goto, LockInv, TypeOK, RWTypeOK
  <2> QED BY <1>4, <2>1, <2>2, <2>3 DEF Acquire
<1>5. CASE SleepCall(t) \/ GetCv(t) \/ SleepFails(t) \/ CreateWaiter(t) \/ Enqueue(t)
  BY <1>2, <1>5
     DEF SleepCall, GetCv, SleepFails, CreateWaiter, Enqueue, Goto, Holding, lockVars
<1>6. CASE Unlock(t)
  BY <1>3, <1>6 DEF Unlock, Goto, Holding
<1>7. CASE WaitSignalled(t) \/ WaitTimesOut(t) \/ Regate(t)
  BY <1>2, <1>7 DEF WaitSignalled, WaitTimesOut, Regate, Goto, Holding, lockVars
<1>8. CASE Reacquire(t)
  BY <1>4, <1>8 DEF Reacquire, ReacquireMode, Holding
<1>9. CASE Start(t)
  BY <1>4, <1>9 DEF Start, Holding
<1>10. CASE WakeCall(t) \/ WakeGetCv(t) \/ WakeFails(t) \/ WakeOne(t) \/ WakeAll(t)
  BY <1>2, <1>10 DEF WakeCall, WakeGetCv, WakeFails, WakeOne, WakeAll, Goto, Holding, lockVars
<1>11. CASE SeesReady(t) \/ Returned(t) \/ (t = Setter /\ SetReady)
  BY <1>2, <1>11 DEF SeesReady, Returned, SetReady, Goto, Holding, lockVars
<1>12. CASE Leave(t)
  <2>1. pc' = [pc EXCEPT ![t] = "wake"] \/ pc' = [pc EXCEPT ![t] = "done"]
    BY <1>12 DEF Leave, Goto
  <2> QED BY <1>3, <1>12, <2>1 DEF Leave, Holding
<1> QED BY <1>5, <1>6, <1>7, <1>8, <1>9, <1>10, <1>11, <1>12 DEF Proceed
----------------------------------------------------------------------------
(* Signals and timeouts *)

InWait == {"enqueue", "unlock", "wait", "regate"}

\* Up to the gate a waiter is queued or has been woken; a signal is a wakeup; from
\* the gate on the result says which.
WakeInv ==
    \A t \in Thread :
        /\ pc[t] \in {"getcv", "create"} => t \notin woken
        /\ pc[t] \in InWait => (isQueued[t] <=> t \notin woken) /\ (event[t] => t \in woken)
        /\ pc[t] = "regate" /\ result[t] = "object" => t \in woken
        /\ pc[t] \in {"reacquire", "returned"} => (signaled[t] <=> t \in woken)

LEMMA WakeStep == TypeOK /\ ListInv /\ WakeInv /\ [Next]_vars => WakeInv'
<1> SUFFICES ASSUME TypeOK, ListInv, WakeInv, [Next]_vars PROVE WakeInv'
  OBVIOUS
<1>1. CASE UNCHANGED vars
  BY <1>1 DEF vars, cvVars, list, WakeInv
<1> SUFFICES ASSUME NEW t \in Thread, Proceed(t) \/ SleepFails(t) \/ WaitTimesOut(t) \/ WakeFails(t)
             PROVE  WakeInv'
  BY <1>1 DEF Next
<1>2. ASSUME NEW to, pc' = [pc EXCEPT ![t] = to],
             to \notin InWait \cup {"getcv", "create", "reacquire", "returned"},
             UNCHANGED <<isQueued, event, woken, result, signaled>>
      PROVE  WakeInv'
  BY <1>2 DEF WakeInv, TypeOK, InWait
<1>3. CASE SleepCall(t)
  <2>1. /\ pc' = [pc EXCEPT ![t] = IF cv THEN "create" ELSE "getcv"] /\ woken' = woken \ {t}
        /\ UNCHANGED <<isQueued, event, result, signaled>>
    BY <1>3 DEF SleepCall, Goto, list
  <2> QED BY <2>1 DEF WakeInv, TypeOK, InWait
<1>4. CASE GetCv(t)
  BY <1>4 DEF GetCv, Goto, list, WakeInv, TypeOK, InWait
<1>5. CASE SleepFails(t)
  BY <1>5 DEF SleepFails, Goto, list, WakeInv, TypeOK, InWait
<1>6. CASE CreateWaiter(t)
  BY <1>6 DEF CreateWaiter, Goto, WakeInv, TypeOK, InWait
<1>7. CASE Enqueue(t)
  BY <1>7 DEF Enqueue, Goto, WakeInv, TypeOK, InWait
<1>8. CASE Unlock(t)
  BY <1>8 DEF Unlock, Goto, list, WakeInv, TypeOK, InWait
<1>9. CASE WaitSignalled(t)
  BY <1>9 DEF WaitSignalled, Goto, list, WakeInv, TypeOK, InWait
<1>10. CASE WaitTimesOut(t)
  BY <1>10 DEF WaitTimesOut, Goto, list, WakeInv, TypeOK, InWait
<1>11. CASE Regate(t)
  <2>1. /\ pc[t] = "regate" /\ pc' = [pc EXCEPT ![t] = "reacquire"]
        /\ signaled' = [signaled EXCEPT ![t] = (isQueued[t] => result[t] = "object")]
        /\ UNCHANGED <<event, woken, result>>
    BY <1>11 DEF Regate, Goto, Signaled
  <2>2. \A u \in Thread : u # t => isQueued'[u] = isQueued[u]
    <3>1. CASE isQueued[t]
      <4>1. t \in OnList /\ RemoveWaiter(t)
        BY <1>11, <2>1, <3>1 DEF Regate, ListInv, Enlisted
      <4> QED BY <4>1, RemoveEffect DEF TypeOK
    <3>2. CASE ~isQueued[t]
      BY <1>11, <3>2 DEF Regate, list
    <3> QED BY <3>1, <3>2
  <2>3. signaled'[t] <=> t \in woken'
    BY <2>1 DEF WakeInv, TypeOK, InWait
  <2> QED BY <2>1, <2>2, <2>3 DEF WakeInv, TypeOK, InWait
<1>12. CASE Reacquire(t)
  <2>1. pc[t] = "reacquire" /\ (pc' = pc \/ pc' = [pc EXCEPT ![t] = "returned"])
        /\ UNCHANGED <<isQueued, event, woken, result, signaled>>
    BY <1>12 DEF Reacquire, Acquire, Goto, list
  <2> QED BY <2>1 DEF WakeInv, TypeOK, InWait
<1>13. CASE Start(t)
  <2>1. (pc' = pc \/ pc' = [pc EXCEPT ![t] = "locked"])
        /\ UNCHANGED <<isQueued, event, woken, result, signaled>>
    BY <1>13 DEF Start, Acquire, Goto, list
  <2> QED BY <1>2, <2>1 DEF WakeInv, InWait
<1>14. CASE WakeCall(t) \/ WakeGetCv(t) \/ WakeFails(t)
  BY <1>2, <1>14 DEF WakeCall, WakeGetCv, WakeFails, Goto, list, InWait
<1>15. ASSUME NEW W, W \subseteq OnList, woken' = woken \cup W,
              \A u \in Thread : isQueued'[u] = (isQueued[u] /\ u \notin W),
              \A u \in Thread : event'[u] = (event[u] \/ u \in W),
              pc' = [pc EXCEPT ![t] = "done"], UNCHANGED <<result, signaled>>
       PROVE  WakeInv'
  <2>1. \A u \in W : pc[u] \in {"unlock", "wait", "regate"}
    BY <1>15 DEF ListInv, Enlisted
  <2> QED BY <1>15, <2>1 DEF WakeInv, TypeOK, InWait
<1>16. CASE WakeOne(t)
  <2>1. pc' = [pc EXCEPT ![t] = "done"] /\ UNCHANGED <<result, signaled>>
    BY <1>16 DEF WakeOne, Goto
  <2>2. CASE head = None
    BY <1>2, <1>16, <2>1, <2>2 DEF WakeOne, list, InWait
  <2>3. CASE head # None
    <3>1. head \in OnList /\ head \in Thread /\ RemoveWaiter(head) /\ woken' = woken \cup {head}
          /\ event' = [event EXCEPT ![head] = TRUE]
      BY <1>16, <2>3, ReachableIsLeast DEF WakeOne, OnList, Follows, TypeOK
    <3>2. isQueued' = [isQueued EXCEPT ![head] = FALSE]
      BY <3>1, RemoveEffect
    <3>3. \A u \in Thread : isQueued'[u] = (isQueued[u] /\ u \notin {head})
                            /\ event'[u] = (event[u] \/ u \in {head})
      BY <3>1, <3>2 DEF TypeOK
    <3>4. {head} \subseteq OnList
      BY <3>1
    <3>5. /\ \A u \in Thread : isQueued'[u] = (isQueued[u] /\ u \notin {head})
          /\ \A u \in Thread : event'[u] = (event[u] \/ u \in {head})
      BY <3>3
    <3> QED BY <1>15, <2>1, <3>1, <3>4, <3>5
  <2> QED BY <2>2, <2>3
<1>17. CASE WakeAll(t)
  <2>1. /\ \A u \in Thread : isQueued'[u] = (isQueued[u] /\ u \notin OnList)
        /\ \A u \in Thread : event'[u] = (event[u] \/ u \in OnList)
    BY <1>17 DEF WakeAll
  <2> QED BY <1>15, <1>17, <2>1 DEF WakeAll, Goto
<1>18. CASE SeesReady(t) \/ Returned(t) \/ (t = Setter /\ SetReady)
  BY <1>2, <1>18 DEF SeesReady, Returned, SetReady, Goto, list, InWait
<1>19. CASE Leave(t)
  BY <1>2, <1>19 DEF Leave, Goto, list, InWait
<1> QED BY <1>3, <1>4, <1>5, <1>6, <1>7, <1>8, <1>9, <1>10, <1>11, <1>12, <1>13, <1>14, <1>16,
           <1>17, <1>18, <1>19 DEF Proceed
----------------------------------------------------------------------------
(* The condition *)

\* Who is on the way to sleep has seen the condition false under the lock, and who is
\* about to wake has seen it true; a wake call finds no state object only while
\* nobody is on the list.
ReadyInv ==
    /\ \A t \in Thread :
          /\ pc[t] \in {"getcv", "create", "enqueue", "unlock"} => ~ready
          /\ pc[t] \in {"leave", "wake", "wakeget", "wakeone"} => ready
          /\ pc[t] \in {"create"} \cup InWait => cv
          /\ pc[t] = "wakeget" => Enlisted = {}
    /\ NoLostWakeup

LEMMA ReadyStep ==
  TypeOK /\ ListInv /\ LockInv /\ WakeInv /\ ReadyInv /\ [Next]_vars => ReadyInv'
<1> SUFFICES ASSUME TypeOK, ListInv, LockInv, WakeInv, ReadyInv, [Next]_vars PROVE ReadyInv'
  OBVIOUS
<1>1. CASE UNCHANGED vars
  BY <1>1 DEF vars, cvVars, list, ReadyInv, NoLostWakeup, Enlisted, WillWake
<1> SUFFICES ASSUME NEW t \in Thread, Proceed(t) \/ SleepFails(t) \/ WaitTimesOut(t) \/ WakeFails(t)
             PROVE  ReadyInv'
  BY <1>1 DEF Next
\* On the way to sleep.
<1>2. ASSUME ~ready, UNCHANGED ready, NEW to, pc' = [pc EXCEPT ![t] = to],
             to \notin {"leave", "wake", "wakeget", "wakeone"},
             cv => cv', to \in {"create"} \cup InWait => cv'
      PROVE  ReadyInv'
  BY <1>2 DEF ReadyInv, NoLostWakeup, TypeOK, InWait
<1>3. CASE SleepCall(t)
  <2>1. ~ready /\ UNCHANGED <<ready, cv>>
    BY <1>3 DEF SleepCall
  <2>2. \/ cv /\ pc' = [pc EXCEPT ![t] = "create"]
        \/ pc' = [pc EXCEPT ![t] = "getcv"]
    BY <1>3 DEF SleepCall, Goto
  <2> QED BY <1>2, <2>1, <2>2 DEF InWait
<1>4. CASE GetCv(t) \/ SleepFails(t) \/ CreateWaiter(t) \/ Enqueue(t) \/ Unlock(t)
  <2>1. ~ready /\ UNCHANGED ready
    BY <1>4 DEF GetCv, SleepFails, CreateWaiter, Enqueue, Unlock, ReadyInv
  <2>2. cv => cv'
    BY <1>4 DEF GetCv, SleepFails, CreateWaiter, Enqueue, Unlock
  <2>3. CASE GetCv(t)
    BY <1>2, <2>1, <2>2, <2>3 DEF GetCv, Goto, InWait
  <2>4. CASE SleepFails(t)
    BY <1>2, <2>1, <2>2, <2>4 DEF SleepFails, Goto, InWait
  <2>5. CASE CreateWaiter(t) \/ Enqueue(t) \/ Unlock(t)
    <3>1. cv
      BY <2>5 DEF CreateWaiter, Enqueue, Unlock, ReadyInv, InWait
    <3> QED BY <1>2, <2>1, <2>2, <2>5, <3>1 DEF CreateWaiter, Enqueue, Unlock, Goto
  <2> QED BY <1>4, <2>3, <2>4, <2>5
\* The condition becomes true.
<1>5. CASE t = Setter /\ SetReady
  <2>1. pc[Setter] = "locked" /\ pc' = [pc EXCEPT ![Setter] = "leave"] /\ ready' = TRUE
        /\ UNCHANGED <<cv, isQueued, woken>>
    BY <1>5 DEF SetReady, Goto, list
  <2>2. \A u \in Thread : pc[u] \notin {"getcv", "create", "enqueue", "unlock"}
    <3> SUFFICES ASSUME NEW u \in Thread, pc[u] \in {"getcv", "create", "enqueue", "unlock"} PROVE FALSE
      OBVIOUS
    <3>1. mode[Setter] = "X" /\ mode[u] # "none"
      BY <2>1 DEF LockInv, Holding, TypeOK
    <3> QED BY <2>1, <3>1 DEF LockInv
  <2>3. Enlisted' = Enlisted
    BY <2>1 DEF Enlisted, TypeOK
  <2>4. Setter \in WillWake'
    BY <2>1 DEF WillWake, TypeOK
  <2> QED BY <2>1, <2>2, <2>3, <2>4 DEF ReadyInv, NoLostWakeup, TypeOK, InWait
\* Everything else.
<1>6. ASSUME UNCHANGED ready, woken \subseteq woken', cv => cv', Enlisted' \subseteq Enlisted,
             NEW to, pc' = [pc EXCEPT ![t] = to], pc[t] \in {"wait", "regate"} \/ to \notin InWait,
             to \notin {"getcv", "create", "enqueue", "unlock"},
             to \in {"leave", "wake", "wakeget", "wakeone"} => ready,
             to = "wakeget" => Enlisted = {},
             ready /\ Enlisted' # {} /\ t \in WillWake => WillWake' # {}
      PROVE  ReadyInv'
  <2>1. \A u \in Thread \ {t} : pc'[u] = pc[u]
    BY <1>6 DEF TypeOK
  <2>2. NoLostWakeup'
    <3> SUFFICES ASSUME ready, Enlisted' # {} PROVE WillWake' # {}
      BY <1>6 DEF NoLostWakeup
    <3>1. PICK u \in WillWake : TRUE
      BY <1>6 DEF ReadyInv, NoLostWakeup
    <3>2. u # t => u \in WillWake'
      BY <1>6, <2>1, <3>1 DEF WillWake
    <3> QED BY <1>6, <3>1, <3>2
  <2> QED BY <1>6, <2>1, <2>2 DEF ReadyInv, InWait, TypeOK
<1>7. ASSUME UNCHANGED <<isQueued>>, NEW to, pc' = [pc EXCEPT ![t] = to],
             to \in {"unlock", "wait", "regate"} => pc[t] \in {"unlock", "wait", "regate"}
      PROVE  Enlisted' \subseteq Enlisted
  BY <1>7 DEF Enlisted, TypeOK
<1>8. CASE WaitSignalled(t) \/ WaitTimesOut(t)
  <2>1. pc[t] = "wait" /\ pc' = [pc EXCEPT ![t] = "regate"]
        /\ UNCHANGED <<ready, woken, cv, isQueued>>
    BY <1>8 DEF WaitSignalled, WaitTimesOut, Goto, list
  <2>2. t \in WillWake => t \in WillWake'
    BY <2>1 DEF WillWake, TypeOK
  <2>3. Enlisted' \subseteq Enlisted
    BY <1>7, <2>1
  <2> QED BY <1>6, <2>1, <2>2, <2>3 DEF InWait
<1>9. CASE Regate(t)
  <2>1. pc[t] = "regate" /\ pc' = [pc EXCEPT ![t] = "reacquire"] /\ UNCHANGED <<ready, woken, cv>>
    BY <1>9 DEF Regate, Goto
  <2>2. t \in WillWake => t \in WillWake'
    BY <2>1 DEF WillWake, TypeOK
  <2>3. Enlisted' \subseteq Enlisted
    <3>1. CASE isQueued[t]
      <4>1. t \in OnList /\ RemoveWaiter(t)
        BY <1>9, <2>1, <3>1 DEF Regate, ListInv, Enlisted
      <4>2. isQueued' = [isQueued EXCEPT ![t] = FALSE]
        BY <4>1, RemoveEffect
      <4> QED BY <2>1, <4>2 DEF Enlisted, TypeOK
    <3>2. CASE ~isQueued[t]
      BY <1>7, <1>9, <2>1, <3>2 DEF Regate, list
    <3> QED BY <3>1, <3>2
  <2> QED BY <1>6, <2>1, <2>2, <2>3 DEF InWait
<1>10. CASE Reacquire(t) \/ Start(t)
  <2>1. \/ pc[t] = "reacquire" /\ (pc' = pc \/ pc' = [pc EXCEPT ![t] = "returned"])
        \/ pc[t] = "start" /\ (pc' = pc \/ pc' = [pc EXCEPT ![t] = "locked"])
    BY <1>10 DEF Reacquire, Start, Acquire, Goto
  <2>2. UNCHANGED <<ready, woken, cv, isQueued>>
    BY <1>10 DEF Reacquire, Start, list
  <2>3. CASE pc' = pc
    BY <2>2, <2>3 DEF ReadyInv, NoLostWakeup, Enlisted, WillWake
  <2>4. t \in WillWake /\ pc' # pc => t \in WillWake'
    BY <2>1, <2>2 DEF WillWake, TypeOK
  <2>5. pc' # pc => Enlisted' \subseteq Enlisted
    BY <1>7, <2>1, <2>2
  <2> QED BY <1>6, <2>1, <2>2, <2>3, <2>4, <2>5 DEF InWait
\* Waking.
<1>11. CASE WakeCall(t)
  <2>1. pc[t] = "wake" /\ UNCHANGED <<ready, woken, cv, isQueued>>
    BY <1>11 DEF WakeCall, list
  <2>2. \/ cv /\ pc' = [pc EXCEPT ![t] = "wakeone"]
        \/ ~cv /\ pc' = [pc EXCEPT ![t] = "wakeget"]
    BY <1>11 DEF WakeCall, Goto
  <2>3. ready /\ t \in WillWake'
    BY <2>1, <2>2 DEF ReadyInv, WillWake, TypeOK
  <2>4. ~cv => Enlisted = {}
    BY DEF ReadyInv, Enlisted, InWait
  <2>5. Enlisted' \subseteq Enlisted
    BY <1>7, <2>1, <2>2
  <2> QED BY <1>6, <2>1, <2>2, <2>3, <2>4, <2>5 DEF InWait
<1>12. CASE WakeGetCv(t)
  <2>1. pc[t] = "wakeget" /\ UNCHANGED <<ready, woken, isQueued>> /\ cv'
        /\ pc' = [pc EXCEPT ![t] = "wakeone"]
    BY <1>12 DEF WakeGetCv, Goto, list
  <2>2. ready /\ t \in WillWake'
    BY <2>1 DEF ReadyInv, WillWake, TypeOK
  <2>3. Enlisted' \subseteq Enlisted
    BY <1>7, <2>1
  <2> QED BY <1>6, <2>1, <2>2, <2>3 DEF InWait
<1>13. CASE WakeFails(t)
  <2>1. pc[t] = "wakeget" /\ UNCHANGED <<ready, woken, cv, isQueued>>
        /\ pc' = [pc EXCEPT ![t] = "done"]
    BY <1>13 DEF WakeFails, Goto, list
  <2>2. Enlisted' \subseteq Enlisted /\ Enlisted = {}
    BY <1>7, <2>1 DEF ReadyInv
  <2> QED BY <1>6, <2>1, <2>2 DEF InWait
<1>14. CASE WakeOne(t)
  <2>1. pc[t] = "wakeone" /\ pc' = [pc EXCEPT ![t] = "done"] /\ UNCHANGED <<ready, cv>> /\ ready
    BY <1>14 DEF WakeOne, Goto, ReadyInv
  <2>2. CASE head = None
    <3>1. UNCHANGED <<woken, isQueued>>
      BY <1>14, <2>2 DEF WakeOne, list
    <3>2. Enlisted = {}
      BY <2>2, EmptyList DEF ListInv, OnList, TypeOK
    <3>3. Enlisted' \subseteq Enlisted
      BY <1>7, <2>1, <3>1
    <3> QED BY <1>6, <2>1, <3>1, <3>2, <3>3 DEF InWait
  <2>3. CASE head # None
    <3>1. head \in OnList /\ RemoveWaiter(head) /\ woken' = woken \cup {head}
      BY <1>14, <2>3, ReachableIsLeast DEF WakeOne, OnList, Follows, TypeOK
    <3>2. isQueued' = [isQueued EXCEPT ![head] = FALSE]
      BY <3>1, RemoveEffect
    <3>3. Enlisted' \subseteq Enlisted
      BY <2>1, <3>2 DEF Enlisted, TypeOK
    <3>4. head \in Thread /\ pc[head] \in {"wait", "regate"}
      BY <2>1, <3>1 DEF ListInv, Enlisted, ReadyInv
    <3>5. head \in WillWake'
      BY <2>1, <3>1, <3>4 DEF WillWake, TypeOK
    <3>6. woken \subseteq woken'
      BY <3>1
    <3> QED BY <1>6, <2>1, <3>3, <3>5, <3>6 DEF InWait
  <2> QED BY <2>2, <2>3
<1>15. CASE WakeAll(t)
  <2>1. pc[t] = "wakeone" /\ pc' = [pc EXCEPT ![t] = "done"] /\ UNCHANGED <<ready, cv>>
        /\ woken' = woken \cup OnList
        /\ isQueued' = [w \in Thread |-> isQueued[w] /\ w \notin OnList]
    BY <1>15 DEF WakeAll, Goto
  <2>2. Enlisted' = {}
    <3> SUFFICES ASSUME NEW u \in Enlisted' PROVE FALSE
      OBVIOUS
    <3>1. u \in Thread /\ isQueued[u] /\ u \notin OnList /\ pc[u] \in {"unlock", "wait", "regate"}
      BY <2>1 DEF Enlisted, TypeOK
    <3> QED BY <3>1 DEF ListInv, Enlisted
  <2> QED BY <1>6, <2>1, <2>2 DEF InWait
<1>16. CASE SeesReady(t)
  <2>1. pc[t] = "locked" /\ UNCHANGED <<ready, woken, cv, isQueued>> /\ ready
        /\ pc' = [pc EXCEPT ![t] = "leave"]
    BY <1>16 DEF SeesReady, Goto, list
  <2>2. t \in WillWake' /\ Enlisted' \subseteq Enlisted
    BY <1>7, <2>1 DEF WillWake, TypeOK
  <2> QED BY <1>6, <2>1, <2>2 DEF InWait
<1>17. CASE Returned(t)
  <2>1. pc[t] = "returned" /\ UNCHANGED <<ready, woken, cv, isQueued>>
    BY <1>17 DEF Returned, list
  <2>2. \/ pc' = [pc EXCEPT ![t] = "locked"]
        \/ ~signaled[t] /\ pc' = [pc EXCEPT ![t] = "quit"]
    BY <1>17 DEF Returned, Goto
  <2>3. t \in WillWake => t \in WillWake'
    BY <2>1, <2>2 DEF WillWake, WakeInv, TypeOK
  <2>4. Enlisted' \subseteq Enlisted
    BY <1>7, <2>1, <2>2
  <2> QED BY <1>6, <2>1, <2>2, <2>3, <2>4 DEF InWait
<1>18. CASE Leave(t)
  <2>1. UNCHANGED <<ready, woken, cv, isQueued>>
    BY <1>18 DEF Leave, list
  <2>2. \/ pc[t] = "leave" /\ pc' = [pc EXCEPT ![t] = "wake"]
        \/ pc[t] = "quit" /\ pc' = [pc EXCEPT ![t] = "done"]
    BY <1>18 DEF Leave, Goto
  <2>3. t \in WillWake => t \in WillWake'
    BY <2>1, <2>2 DEF WillWake, TypeOK
  <2>4. Enlisted' \subseteq Enlisted /\ (pc[t] = "leave" => ready)
    BY <1>7, <2>1, <2>2 DEF ReadyInv
  <2> QED BY <1>6, <2>1, <2>2, <2>3, <2>4 DEF InWait
<1> QED BY <1>3, <1>4, <1>5, <1>8, <1>9, <1>10, <1>11, <1>12, <1>13, <1>14, <1>15, <1>16, <1>17,
           <1>18 DEF Proceed
----------------------------------------------------------------------------
CondVarInv == TypeOK /\ ListInv /\ LockInv /\ WakeInv /\ ReadyInv

LEMMA Invariance == Spec => []CondVarInv
<1>1. Init => CondVarInv
  <2> SUFFICES ASSUME Init PROVE CondVarInv
    OBVIOUS
  <2>1. TypeOK
    BY DEF Init, RWInit, TypeOK, RWTypeOK, Steps
  <2>2. ListInv
    <3>1. OnList = {} /\ Chain(head, tail, next)
      BY EmptyList DEF Init, OnList
    <3>2. Enlisted = {}
      BY DEF Init, Enlisted
    <3> QED BY <3>1, <3>2 DEF Init, ListInv
  <2>3. LockInv
    BY DEF Init, RWInit, LockInv, Holding
  <2>4. WakeInv
    BY DEF Init, WakeInv, InWait
  <2>5. ReadyInv
    BY DEF Init, ReadyInv, NoLostWakeup, Enlisted, InWait
  <2> QED BY <2>1, <2>2, <2>3, <2>4, <2>5 DEF CondVarInv
<1>2. CondVarInv /\ [Next]_vars => CondVarInv'
  BY TypeStep, ListStep, LockStep, WakeStep, ReadyStep DEF CondVarInv
<1> QED BY <1>1, <1>2, PTL DEF Spec

\* remove_waiter, the bulk removal of W2KWakeAllConditionVariable and the removal of a
\* timed-out waiter keep the list whole, and every node of it is in a frame that is
\* still in scope (w2k_sync.c:236-376).
THEOREM ListWellFormedHolds == Spec => []ListWellFormed
<1>1. CondVarInv => ListWellFormed
  <2> SUFFICES ASSUME CondVarInv PROVE ListWellFormed
    OBVIOUS
  <2>1. Chain(head, tail, next) /\ OnList = Enlisted
    BY DEF CondVarInv, ListInv
  <2>2. OnList \subseteq frame
    BY DEF CondVarInv, ListInv, Enlisted
  <2>3. (head = None <=> tail = None) /\ (head # None => tail \in OnList /\ next[tail] = None)
    BY <2>1 DEF Chain, OnList
  <2> QED BY <2>1, <2>2, <2>3 DEF ListWellFormed
<1> QED BY <1>1, Invariance, PTL

\* The race of a timeout with SetEvent is decided under the gate, and as it was decided
\* the sleep call reports it (w2k_sync.c:274-284).
THEOREM TrueIffWokenHolds == Spec => []TrueIffWoken
<1>1. CondVarInv => TrueIffWoken
  BY DEF CondVarInv, WakeInv, TrueIffWoken
<1> QED BY <1>1, Invariance, PTL

\* Sleep returns with the lock held as at the call, on every path (w2k_sync.c:286-289).
THEOREM LockHeldOnReturnHolds == Spec => []LockHeldOnReturn
<1>1. CondVarInv => LockHeldOnReturn
  BY DEF CondVarInv, LockInv, LockHeldOnReturn, Holding
<1> QED BY <1>1, Invariance, PTL

\* No wakeup is lost, whichever calls fail and however many sleepers give up: a sleeper
\* joins the list before it gives the lock back (w2k_sync.c:264-273).
THEOREM NoLostWakeupHolds == Spec => []NoLostWakeup
<1>1. CondVarInv => NoLostWakeup
  BY DEF CondVarInv, ReadyInv
<1> QED BY <1>1, Invariance, PTL
=============================================================================
