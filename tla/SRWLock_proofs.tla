--------------------------- MODULE SRWLock_proofs ---------------------------
(***************************************************************************)
(* Proofs about SRWLock, for any finite set of threads.                    *)
(***************************************************************************)
EXTENDS SRWLock, FiniteSetTheorems, TLAPS

-----------------------------------------------------------------------------
(* The invariant that holds whether or not allocation fails *)

LEMMA InitObjectInv == Init => ObjectInv
BY ThreadAssumption
   DEF Init, ObjectInv, TypeOK, Object, Steps, Calls, SlotInv, CallInv, QueueInv, InCall, InLoop

\* Only a writer at its first wait joins the line, and only one that takes the
\* lock leaves it.
LEMMA LineOf ==
  ASSUME ObjectInv, NEW t \in Thread
  PROVE  /\ EnterExclusive(t) => IF Busy(obj[t])
              THEN t \notin WritersInLine /\ WritersInLine' = WritersInLine \cup {t}
              ELSE WritersInLine' = WritersInLine
         /\ ReenterExclusive(t) => IF Busy(obj[t])
              THEN WritersInLine' = WritersInLine
              ELSE t \in WritersInLine /\ WritersInLine' = WritersInLine \ {t}
         /\ EnterShared(t) \/ TryExclusive(t) \/ TryShared(t) \/ WaitEvent(t)
              => WritersInLine' = WritersInLine
         /\ ReleaseExclusive(t) \/ ReleaseShared(t) \/ CallRelease(t)
              => WritersInLine' = WritersInLine
         /\ Allocate(t) \/ AllocateFails(t) \/ PublishSlot(t)
              => WritersInLine' = WritersInLine
         /\ \A c \in Calls : CallAcquire(t, c) => WritersInLine' = WritersInLine
<1> USE DEF ObjectInv, TypeOK, CallInv, WritersInLine, InLoop, Goto, Return
<1>1. EnterExclusive(t) => IF Busy(obj[t])
        THEN t \notin WritersInLine /\ WritersInLine' = WritersInLine \cup {t}
        ELSE WritersInLine' = WritersInLine
  BY DEF EnterExclusive, TakeExclusive
<1>2. ReenterExclusive(t) => IF Busy(obj[t])
        THEN WritersInLine' = WritersInLine
        ELSE t \in WritersInLine /\ WritersInLine' = WritersInLine \ {t}
  BY DEF ReenterExclusive, TakeExclusive
<1>3. EnterShared(t) \/ TryExclusive(t) \/ TryShared(t) \/ WaitEvent(t)
        => WritersInLine' = WritersInLine
  BY DEF EnterShared, TakeShared, TryExclusive, TryShared, TakeExclusive, WaitEvent
<1>4. ReleaseExclusive(t) \/ ReleaseShared(t) \/ CallRelease(t)
        => WritersInLine' = WritersInLine
  BY DEF ReleaseExclusive, ReleaseShared, ReadersLeft, ReleaseAndWake, Sleepers, CallRelease
<1>5. Allocate(t) \/ AllocateFails(t) \/ PublishSlot(t) => WritersInLine' = WritersInLine
  BY DEF Allocate, AllocateFails, PublishSlot, SlotEmpty
<1>6. \A c \in Calls : CallAcquire(t, c) => WritersInLine' = WritersInLine
  BY DEF CallAcquire
<1> QED
  BY <1>1, <1>2, <1>3, <1>4, <1>5, <1>6

LEMMA LineFinite ==
  ASSUME NEW t \in Thread
  PROVE  /\ IsFiniteSet(WritersInLine)
         /\ Cardinality(WritersInLine) \in Nat
         /\ t \notin WritersInLine =>
              Cardinality(WritersInLine \cup {t}) = Cardinality(WritersInLine) + 1
         /\ t \in WritersInLine =>
              /\ Cardinality(WritersInLine) # 0
              /\ Cardinality(WritersInLine \ {t}) = Cardinality(WritersInLine) - 1
<1>1. WritersInLine \subseteq Thread
  BY DEF WritersInLine
<1>2. IsFiniteSet(WritersInLine)
  BY <1>1, FS_Subset, ThreadAssumption
<1> QED
  BY <1>2, FS_CardinalityType, FS_AddElement, FS_RemoveElement, FS_EmptySet

LEMMA LineEmpty == Cardinality(WritersInLine) = 0 <=> WritersInLine = {}
<1>1. IsFiniteSet(WritersInLine)
  BY FS_Subset, ThreadAssumption DEF WritersInLine
<1> QED
  BY <1>1, FS_EmptySet

LEMMA ObjectInvStep == ObjectInv /\ [Next]_vars => ObjectInv'
<1> SUFFICES ASSUME ObjectInv, [Next]_vars
             PROVE  ObjectInv'
  OBVIOUS
<1> USE ThreadAssumption
<1>1. ASSUME NEW t \in Thread, Allocate(t)
      PROVE  ObjectInv'
  <2> USE DEF ObjectInv, Allocate, Goto, Return, fields
  <2>1. TypeOK'
    BY <1>1 DEF TypeOK, Object, Steps, Calls
  <2>2. SlotInv'
    BY <1>1 DEF TypeOK, SlotInv, Object, InCall, InLoop, Fresh
  <2>3. CallInv'
    BY <1>1 DEF TypeOK, CallInv, Object, InCall, InLoop, Calls
  <2>4. QueueInv'
    BY <1>1, LineOf DEF TypeOK, SlotInv, QueueInv, Object
  <2> QED
    BY <2>1, <2>2, <2>3, <2>4
<1>2. ASSUME NEW t \in Thread, AllocateFails(t)
      PROVE  ObjectInv'
  <2> USE DEF ObjectInv, AllocateFails, Goto, Return, fields
  <2>1. TypeOK'
    BY <1>2 DEF TypeOK, Object, Steps, Calls
  <2>2. SlotInv'
    BY <1>2 DEF TypeOK, SlotInv, Object, InCall, InLoop, Fresh
  <2>3. CallInv'
    BY <1>2 DEF TypeOK, CallInv, Object, InCall, InLoop, Calls
  <2>4. QueueInv'
    BY <1>2, LineOf DEF QueueInv
  <2> QED
    BY <2>1, <2>2, <2>3, <2>4
<1>3. ASSUME NEW t \in Thread, PublishSlot(t)
      PROVE  ObjectInv'
  <2> USE DEF ObjectInv, PublishSlot, SlotEmpty, Goto, Return, fields
  <2>1. TypeOK'
    BY <1>3 DEF TypeOK, Object, Steps, Calls
  <2>2. SlotInv'
    BY <1>3 DEF TypeOK, SlotInv, Object, InCall, InLoop, Fresh
  <2>3. CallInv'
    BY <1>3 DEF TypeOK, CallInv, Object, InCall, InLoop, Calls
  <2>4. QueueInv'
    <3>1. CASE slot = None
      <4>1. WritersInLine = {}
        BY <3>1 DEF SlotInv, WritersInLine, InCall
      <4>2. slot' = t /\ writers_waiting'[t] = 0
        BY <1>3, <3>1 DEF SlotInv, Fresh
      <4> QED
        BY <1>3, <4>1, <4>2, LineOf, FS_EmptySet DEF QueueInv
    <3>2. CASE slot # None
      BY <1>3, <3>2, LineOf DEF QueueInv
    <3> QED
      BY <3>1, <3>2
  <2> QED
    BY <2>1, <2>2, <2>3, <2>4
<1>4. ASSUME NEW t \in Thread, EnterShared(t)
      PROVE  ObjectInv'
  <2> USE DEF ObjectInv, EnterShared, TakeShared, Goto, Return, fields
  <2>1. obj[t] = slot /\ slot \in Object
    BY <1>4 DEF TypeOK, SlotInv, InCall, InLoop
  <2>2. TypeOK'
    <3>1. readers' \in [Object -> Nat]
      BY <1>4, <2>1 DEF TypeOK
    <3>2. can_write' \in [Object -> BOOLEAN]
      BY <1>4, <2>1 DEF TypeOK
    <3>3. pc' \in [Thread -> Steps] /\ mode' \in [Thread -> {"none", "X", "S"}]
      BY <1>4 DEF TypeOK, Steps
    <3> QED
      BY <1>4, <2>1, <3>1, <3>2, <3>3 DEF TypeOK
  <2>3. SlotInv'
    BY <1>4, <2>1 DEF TypeOK, SlotInv, Object, InCall, InLoop, Fresh
  <2>4. CallInv'
    BY <1>4 DEF TypeOK, CallInv, Object, InCall, InLoop, Calls
  <2>5. QueueInv'
    BY <1>4, LineOf DEF QueueInv
  <2> QED
    BY <2>2, <2>3, <2>4, <2>5
<1>5. ASSUME NEW t \in Thread, TryExclusive(t)
      PROVE  ObjectInv'
  <2> USE DEF ObjectInv, TryExclusive, TakeExclusive, Goto, Return, fields
  <2>1. obj[t] = slot /\ slot \in Object
    BY <1>5 DEF TypeOK, SlotInv, InCall, InLoop
  <2>2. TypeOK'
    <3>1. can_write' \in [Object -> BOOLEAN] /\ writer_active' \in [Object -> BOOLEAN]
      BY <1>5, <2>1 DEF TypeOK
    <3>2. can_read' \in [Object -> BOOLEAN]
      BY <1>5, <2>1 DEF TypeOK
    <3>3. pc' \in [Thread -> Steps] /\ mode' \in [Thread -> {"none", "X", "S"}]
      BY <1>5 DEF TypeOK, Steps
    <3> QED
      BY <1>5, <2>1, <3>1, <3>2, <3>3 DEF TypeOK
  <2>3. SlotInv'
    BY <1>5, <2>1 DEF TypeOK, SlotInv, Object, InCall, InLoop, Fresh
  <2>4. CallInv'
    BY <1>5 DEF TypeOK, CallInv, Object, InCall, InLoop, Calls
  <2>5. QueueInv'
    BY <1>5, LineOf DEF QueueInv
  <2> QED
    BY <2>2, <2>3, <2>4, <2>5
<1>6. ASSUME NEW t \in Thread, TryShared(t)
      PROVE  ObjectInv'
  <2> USE DEF ObjectInv, TryShared, TakeShared, Goto, Return, fields
  <2>1. obj[t] = slot /\ slot \in Object
    BY <1>6 DEF TypeOK, SlotInv, InCall, InLoop
  <2>2. TypeOK'
    <3>1. readers' \in [Object -> Nat]
      BY <1>6, <2>1 DEF TypeOK
    <3>2. can_write' \in [Object -> BOOLEAN]
      BY <1>6, <2>1 DEF TypeOK
    <3>3. pc' \in [Thread -> Steps] /\ mode' \in [Thread -> {"none", "X", "S"}]
      BY <1>6 DEF TypeOK, Steps
    <3> QED
      BY <1>6, <2>1, <3>1, <3>2, <3>3 DEF TypeOK
  <2>3. SlotInv'
    BY <1>6, <2>1 DEF TypeOK, SlotInv, Object, InCall, InLoop, Fresh
  <2>4. CallInv'
    BY <1>6 DEF TypeOK, CallInv, Object, InCall, InLoop, Calls
  <2>5. QueueInv'
    BY <1>6, LineOf DEF QueueInv
  <2> QED
    BY <2>2, <2>3, <2>4, <2>5
<1>7. ASSUME NEW t \in Thread, WaitEvent(t)
      PROVE  ObjectInv'
  <2> USE DEF ObjectInv, WaitEvent, Awaited, Goto, Return, fields
  <2>1. obj[t] = slot /\ slot \in Object
    BY <1>7 DEF TypeOK, SlotInv, InCall, InLoop
  <2>2. TypeOK'
    BY <1>7, <2>1 DEF TypeOK, Object, Steps, Calls
  <2>3. SlotInv'
    BY <1>7, <2>1 DEF TypeOK, SlotInv, Object, InCall, InLoop, Fresh
  <2>4. CallInv'
    BY <1>7 DEF TypeOK, CallInv, Object, InCall, InLoop, Calls
  <2>5. QueueInv'
    BY <1>7, LineOf DEF QueueInv
  <2> QED
    BY <2>2, <2>3, <2>4, <2>5
<1>8. ASSUME NEW t \in Thread, ReleaseExclusive(t)
      PROVE  ObjectInv'
  <2> USE DEF ObjectInv, ReleaseExclusive, ReleaseAndWake, Sleepers, Goto, Return, fields
  <2>1. obj[t] = slot /\ slot \in Object
    BY <1>8 DEF TypeOK, SlotInv, InCall, InLoop
  <2>2. TypeOK'
    BY <1>8, <2>1 DEF TypeOK, Object, Steps, Calls
  <2>3. SlotInv'
    BY <1>8, <2>1 DEF TypeOK, SlotInv, Object, InCall, InLoop, Fresh
  <2>4. CallInv'
    BY <1>8 DEF TypeOK, CallInv, Object, InCall, InLoop, Calls
  <2>5. QueueInv'
    BY <1>8, LineOf DEF QueueInv
  <2> QED
    BY <2>2, <2>3, <2>4, <2>5
<1>9. ASSUME NEW t \in Thread, ReleaseShared(t)
      PROVE  ObjectInv'
  <2> USE DEF ObjectInv, ReleaseShared, ReadersLeft, ReleaseAndWake, Sleepers, Goto, Return, fields
  <2>1. obj[t] = slot /\ slot \in Object
    BY <1>9 DEF TypeOK, SlotInv, InCall, InLoop
  <2>2. TypeOK'
    BY <1>9, <2>1 DEF TypeOK, Object, Steps, Calls
  <2>3. SlotInv'
    BY <1>9, <2>1 DEF TypeOK, SlotInv, Object, InCall, InLoop, Fresh
  <2>4. CallInv'
    BY <1>9 DEF TypeOK, CallInv, Object, InCall, InLoop, Calls
  <2>5. QueueInv'
    BY <1>9, LineOf DEF QueueInv
  <2> QED
    BY <2>2, <2>3, <2>4, <2>5
<1>10. ASSUME NEW t \in Thread, CallRelease(t)
      PROVE  ObjectInv'
  <2> USE DEF ObjectInv, CallRelease, Goto, Return, fields
  <2>1. TypeOK'
    BY <1>10 DEF TypeOK, Object, Steps, Calls
  <2>2. SlotInv'
    BY <1>10 DEF TypeOK, SlotInv, Object, InCall, InLoop, Fresh
  <2>3. CallInv'
    BY <1>10 DEF TypeOK, CallInv, Object, InCall, InLoop, Calls
  <2>4. QueueInv'
    BY <1>10, LineOf DEF QueueInv
  <2> QED
    BY <2>1, <2>2, <2>3, <2>4
<1>11. ASSUME NEW t \in Thread, EnterExclusive(t)
      PROVE  ObjectInv'
  <2>1. obj[t] = slot /\ slot \in Object /\ slot # None
    BY <1>11 DEF ObjectInv, TypeOK, SlotInv, EnterExclusive, InCall, InLoop, Object
  <2>2. /\ writers_waiting[slot] = Cardinality(WritersInLine)
        /\ writers_waiting \in [Object -> Nat]
    BY <2>1 DEF ObjectInv, TypeOK, QueueInv
  <2>3. /\ writers_waiting' \in [Object -> Nat]
        /\ writers_waiting'[slot] = Cardinality(WritersInLine')
    <3>1. CASE Busy(slot)
      <4>1. t \notin WritersInLine /\ WritersInLine' = WritersInLine \cup {t}
        BY <1>11, <2>1, <3>1, LineOf
      <4>2. writers_waiting' = [writers_waiting EXCEPT ![slot] = @ + 1]
        BY <1>11, <2>1, <3>1 DEF EnterExclusive
      <4>3. Cardinality(WritersInLine \cup {t}) = Cardinality(WritersInLine) + 1
        BY <4>1, LineFinite
      <4> QED
        BY <2>1, <2>2, <4>1, <4>2, <4>3
    <3>2. CASE ~Busy(slot)
      <4>1. WritersInLine' = WritersInLine
        BY <1>11, <2>1, <3>2, LineOf
      <4>2. writers_waiting' = writers_waiting
        BY <1>11, <2>1, <3>2 DEF EnterExclusive
      <4> QED
        BY <2>2, <4>1, <4>2
    <3> QED
      BY <3>1, <3>2
  <2>4. TypeOK'
    BY <1>11, <2>1, <2>3 DEF ObjectInv, EnterExclusive, TakeExclusive, Goto, Return, TypeOK, Object, Steps
  <2>5. SlotInv'
    BY <1>11, <2>1 DEF ObjectInv, EnterExclusive, TakeExclusive, Goto, Return, TypeOK, SlotInv, Object,
                        InCall, InLoop, Fresh
  <2>6. CallInv'
    BY <1>11 DEF ObjectInv, EnterExclusive, TakeExclusive, Goto, Return, TypeOK, CallInv, InLoop
  <2>7. QueueInv'
    BY <1>11, <2>3 DEF EnterExclusive, QueueInv
  <2> QED
    BY <2>4, <2>5, <2>6, <2>7 DEF ObjectInv
<1>12. ASSUME NEW t \in Thread, ReenterExclusive(t)
      PROVE  ObjectInv'
  <2>1. obj[t] = slot /\ slot \in Object /\ slot # None
    BY <1>12 DEF ObjectInv, TypeOK, SlotInv, ReenterExclusive, InCall, InLoop, Object
  <2>2. /\ writers_waiting[slot] = Cardinality(WritersInLine)
        /\ writers_waiting \in [Object -> Nat]
    BY <2>1 DEF ObjectInv, TypeOK, QueueInv
  <2>3. /\ writers_waiting' \in [Object -> Nat]
        /\ writers_waiting'[slot] = Cardinality(WritersInLine')
    <3>1. CASE ~Busy(slot)
      <4>1. t \in WritersInLine /\ WritersInLine' = WritersInLine \ {t}
        BY <1>12, <2>1, <3>1, LineOf
      <4>2. writers_waiting' = [writers_waiting EXCEPT ![slot] = @ - 1]
        BY <1>12, <2>1, <3>1 DEF ReenterExclusive
      <4>3. Cardinality(WritersInLine \ {t}) = Cardinality(WritersInLine) - 1
            /\ Cardinality(WritersInLine) \in Nat /\ Cardinality(WritersInLine) # 0
        BY <4>1, LineFinite
      <4> QED
        BY <2>1, <2>2, <4>1, <4>2, <4>3
    <3>2. CASE Busy(slot)
      <4>1. WritersInLine' = WritersInLine
        BY <1>12, <2>1, <3>2, LineOf
      <4>2. writers_waiting' = writers_waiting
        BY <1>12, <2>1, <3>2 DEF ReenterExclusive
      <4> QED
        BY <2>2, <4>1, <4>2
    <3> QED
      BY <3>1, <3>2
  <2>4. TypeOK'
    BY <1>12, <2>1, <2>3 DEF ObjectInv, ReenterExclusive, TakeExclusive, Goto, Return, TypeOK, Object, Steps
  <2>5. SlotInv'
    BY <1>12, <2>1 DEF ObjectInv, ReenterExclusive, TakeExclusive, Goto, Return, TypeOK, SlotInv, Object,
                        InCall, InLoop, Fresh
  <2>6. CallInv'
    BY <1>12 DEF ObjectInv, ReenterExclusive, TakeExclusive, Goto, Return, TypeOK, CallInv, InLoop
  <2>7. QueueInv'
    BY <1>12, <2>3 DEF ReenterExclusive, QueueInv
  <2> QED
    BY <2>4, <2>5, <2>6, <2>7 DEF ObjectInv
<1>13. ASSUME NEW t \in Thread, NEW c \in Calls, CallAcquire(t, c)
      PROVE  ObjectInv'
  <2> USE DEF ObjectInv, CallAcquire, Goto, fields
  <2>1. TypeOK'
    BY <1>13 DEF TypeOK, Object, Steps, Calls
  <2>2. SlotInv'
    BY <1>13 DEF TypeOK, SlotInv, Object, InCall, InLoop, Fresh
  <2>3. CallInv'
    BY <1>13 DEF TypeOK, CallInv, Object, InCall, InLoop, Calls
  <2>4. QueueInv'
    BY <1>13, LineOf DEF QueueInv
  <2> QED
    BY <2>1, <2>2, <2>3, <2>4
<1>14. CASE Initialize
  BY <1>14 DEF Initialize, fields, ObjectInv, TypeOK, Object, SlotInv, CallInv, QueueInv,
             InCall, InLoop, Fresh
<1>15. CASE UNCHANGED vars
  BY <1>15 DEF vars, fields, ObjectInv, TypeOK, SlotInv, CallInv, QueueInv, WritersInLine,
             Fresh
<1> QED
  BY <1>1, <1>2, <1>3, <1>4, <1>5, <1>6, <1>7, <1>8, <1>9, <1>10, <1>11, <1>12, <1>13, <1>14, <1>15
     DEF Next, Proceed

\* Type correctness of the lock, whatever allocation does: in particular
\* readers and writers_waiting never drop below zero.
THEOREM TypeCorrect == Spec => []TypeOK
<1>1. Spec => []ObjectInv
  BY InitObjectInv, ObjectInvStep, PTL DEF Spec
<1>2. ObjectInv => TypeOK
  BY DEF ObjectInv
<1> QED
  BY <1>1, <1>2, PTL

-----------------------------------------------------------------------------
(* The invariant that needs every allocation to succeed *)

LEMMA InitLockInv == Init => LockInv
BY InitObjectInv DEF Init, LockInv, HolderInv, MutualExclusion, EventsTellState, SleepInv

\* A step of a thread inside a call works on the published object.
LEMMA OnSlot ==
  ASSUME ObjectInv, NEW t \in Thread, pc[t] \in {"enter", "reenter", "wait", "release"}
  PROVE  obj[t] = slot /\ slot \in Object /\ slot # None
BY DEF ObjectInv, TypeOK, SlotInv, InCall, InLoop, Object

LEMMA HoldersFinite ==
  ASSUME NEW t \in Thread
  PROVE  /\ Cardinality(ReadHolders) \in Nat
         /\ Cardinality(ReadHolders) = 0 <=> ReadHolders = {}
         /\ t \notin ReadHolders =>
              Cardinality(ReadHolders \cup {t}) = Cardinality(ReadHolders) + 1
         /\ t \in ReadHolders =>
              Cardinality(ReadHolders \ {t}) = Cardinality(ReadHolders) - 1
<1>1. ReadHolders \subseteq Thread
  BY DEF ReadHolders
<1>2. IsFiniteSet(ReadHolders)
  BY <1>1, FS_Subset, ThreadAssumption
<1> QED
  BY <1>2, FS_CardinalityType, FS_AddElement, FS_RemoveElement, FS_EmptySet

\* A reader that gets in: no writer holds the lock.
LEMMA ReaderEnters ==
  ASSUME LockInv, NEW t \in Thread, EnterShared(t) \/ TryShared(t), ~ReadersBarred(obj[t])
  PROVE  HolderInv'
<1>1. obj[t] = slot /\ slot \in Object /\ slot # None
  BY OnSlot DEF LockInv, EnterShared, TryShared
<1>2. /\ mode[t] = "none"
      /\ mode' = [mode EXCEPT ![t] = "S"]
      /\ readers' = [readers EXCEPT ![slot] = @ + 1]
      /\ UNCHANGED <<slot, writer_active>>
  BY <1>1 DEF LockInv, ObjectInv, CallInv, EnterShared, TryShared, TakeShared, Return, InLoop
<1>3. mode \in [Thread -> {"none", "X", "S"}] /\ readers \in [Object -> Nat]
  BY DEF LockInv, ObjectInv, TypeOK
<1>4. t \notin ReadHolders /\ ReadHolders' = ReadHolders \cup {t} /\ WriteHolders' = WriteHolders
  BY <1>2, <1>3 DEF ReadHolders, WriteHolders
<1>5. WriteHolders = {}
  BY <1>1 DEF LockInv, HolderInv, ReadersBarred
<1>6. readers'[slot] = Cardinality(ReadHolders')
  BY <1>1, <1>2, <1>3, <1>4, HoldersFinite DEF LockInv, HolderInv
<1>7. MutualExclusion'
  BY <1>4, <1>5 DEF MutualExclusion, WriteHolders
<1> QED
  BY <1>1, <1>2, <1>4, <1>5, <1>6, <1>7 DEF LockInv, HolderInv

\* A writer that gets in: nobody holds the lock.
LEMMA WriterEnters ==
  ASSUME LockInv, NEW t \in Thread, ~Busy(obj[t]),
         EnterExclusive(t) \/ ReenterExclusive(t) \/ TryExclusive(t)
  PROVE  HolderInv'
<1>1. obj[t] = slot /\ slot \in Object /\ slot # None
  BY OnSlot DEF LockInv, EnterExclusive, ReenterExclusive, TryExclusive
<1>2. /\ mode[t] = "none"
      /\ mode' = [mode EXCEPT ![t] = "X"]
      /\ writer_active' = [writer_active EXCEPT ![slot] = TRUE]
      /\ UNCHANGED <<slot, readers>>
  BY <1>1 DEF LockInv, ObjectInv, CallInv, EnterExclusive, ReenterExclusive, TryExclusive,
              TakeExclusive, Return, InLoop
<1>3. mode \in [Thread -> {"none", "X", "S"}] /\ writer_active \in [Object -> BOOLEAN]
  BY DEF LockInv, ObjectInv, TypeOK
<1>4. ReadHolders = {} /\ WriteHolders = {}
  BY <1>1, HoldersFinite DEF LockInv, HolderInv, Busy
<1>5. ReadHolders' = ReadHolders /\ WriteHolders' = {t}
  BY <1>2, <1>3, <1>4 DEF ReadHolders, WriteHolders
<1>6. MutualExclusion'
  BY <1>2, <1>3, <1>4 DEF MutualExclusion, ReadHolders, WriteHolders
<1> QED
  BY <1>1, <1>2, <1>3, <1>5, <1>6 DEF LockInv, HolderInv

LEMMA ReaderLeaves ==
  ASSUME LockInv, NEW t \in Thread, ReleaseShared(t)
  PROVE  HolderInv'
<1>1. obj[t] = slot /\ slot \in Object /\ slot # None
  BY OnSlot DEF LockInv, ReleaseShared
<1>2. mode \in [Thread -> {"none", "X", "S"}] /\ readers \in [Object -> Nat]
  BY DEF LockInv, ObjectInv, TypeOK
<1>3. mode[t] = "S" /\ mode' = [mode EXCEPT ![t] = "none"] /\ UNCHANGED <<slot, writer_active>>
  BY DEF ReleaseShared, ReadersLeft, ReleaseAndWake
<1>4. t \in ReadHolders /\ ReadHolders' = ReadHolders \ {t} /\ WriteHolders' = WriteHolders
  BY <1>2, <1>3 DEF ReadHolders, WriteHolders
<1>5. readers[slot] = Cardinality(ReadHolders) /\ readers[slot] > 0
  BY <1>1, <1>2, <1>4, HoldersFinite DEF LockInv, HolderInv
<1>6. readers'[slot] = readers[slot] - 1
  BY <1>1, <1>2, <1>5 DEF ReleaseShared, ReadersLeft, LastReader, SignalsReaders
<1>7. readers'[slot] = Cardinality(ReadHolders')
  BY <1>4, <1>5, <1>6, HoldersFinite
<1>8. MutualExclusion'
  BY <1>2, <1>3 DEF LockInv, HolderInv, MutualExclusion
<1> QED
  BY <1>1, <1>3, <1>4, <1>7, <1>8 DEF LockInv, HolderInv

LEMMA WriterLeaves ==
  ASSUME LockInv, NEW t \in Thread, ReleaseExclusive(t)
  PROVE  HolderInv'
<1>1. obj[t] = slot /\ slot \in Object /\ slot # None
  BY OnSlot DEF LockInv, ReleaseExclusive
<1>2. mode \in [Thread -> {"none", "X", "S"}] /\ writer_active \in [Object -> BOOLEAN]
  BY DEF LockInv, ObjectInv, TypeOK
<1>3. /\ mode[t] = "X"
      /\ mode' = [mode EXCEPT ![t] = "none"]
      /\ writer_active' = [writer_active EXCEPT ![slot] = FALSE]
      /\ UNCHANGED <<slot, readers>>
  BY <1>1 DEF ReleaseExclusive, ReleaseAndWake
<1>4. \A u \in Thread : u # t => mode[u] = "none"
  BY <1>2, <1>3 DEF LockInv, HolderInv, MutualExclusion
<1>5. ReadHolders' = ReadHolders /\ WriteHolders' = {}
  BY <1>2, <1>3, <1>4 DEF ReadHolders, WriteHolders
<1>6. MutualExclusion'
  BY <1>2, <1>3, <1>4 DEF MutualExclusion
<1> QED
  BY <1>1, <1>2, <1>3, <1>5, <1>6 DEF LockInv, HolderInv

\* The steps that leave the holders and their counts alone.
LEMMA HoldersStay ==
  ASSUME LockInv, UNCHANGED <<slot, mode>>,
         slot # None => readers'[slot] = readers[slot] /\ writer_active'[slot] = writer_active[slot]
  PROVE  HolderInv'
BY DEF LockInv, HolderInv, MutualExclusion, ReadHolders, WriteHolders

LEMMA HolderStep ==
  ASSUME ~AllocMayFail, LockInv, [Next]_vars
  PROVE  HolderInv'
<1> USE DEF LockInv
<1>1. ASSUME NEW t \in Thread, Allocate(t)
      PROVE  HolderInv'
  <2>1. slot # t
    BY <1>1 DEF Allocate, ObjectInv, SlotInv
  <2> QED
    BY <1>1, <2>1, HoldersStay DEF Allocate, ObjectInv, TypeOK, Object
<1>2. ASSUME NEW t \in Thread, PublishSlot(t)
      PROVE  HolderInv'
  <2>1. CASE slot = None
    <3>1. ReadHolders' = {} /\ WriteHolders' = {} /\ MutualExclusion'
      BY <1>2, <2>1 DEF SlotEmpty, PublishSlot, HolderInv, MutualExclusion, ReadHolders, WriteHolders
    <3>2. slot' = t /\ slot' # None /\ readers'[slot'] = 0 /\ ~writer_active'[slot']
      BY <1>2, <2>1, ThreadAssumption DEF SlotEmpty, PublishSlot, fields, ObjectInv, SlotInv, Fresh
    <3> QED
      BY <3>1, <3>2, FS_EmptySet DEF HolderInv
  <2>2. CASE slot # None
    BY <1>2, <2>2, HoldersStay DEF SlotEmpty, PublishSlot, fields
  <2> QED
    BY <2>1, <2>2
<1>3. ASSUME NEW t \in Thread, EnterExclusive(t) \/ ReenterExclusive(t)
      PROVE  HolderInv'
  <2>1. CASE Busy(obj[t])
    BY <1>3, <2>1, HoldersStay DEF EnterExclusive, ReenterExclusive
  <2>2. CASE ~Busy(obj[t])
    BY <1>3, <2>2, WriterEnters
  <2> QED
    BY <2>1, <2>2
<1>4. ASSUME NEW t \in Thread, EnterShared(t)
      PROVE  HolderInv'
  <2>1. CASE ReadersBarred(obj[t])
    BY <1>4, <2>1, HoldersStay DEF EnterShared
  <2>2. CASE ~ReadersBarred(obj[t])
    BY <1>4, <2>2, ReaderEnters
  <2> QED
    BY <2>1, <2>2
<1>5. ASSUME NEW t \in Thread, TryExclusive(t)
      PROVE  HolderInv'
  <2>1. CASE Busy(obj[t])
    <3>1. mode[t] = "none"
      BY <1>5 DEF TryExclusive, ObjectInv, CallInv
    <3>2. UNCHANGED <<slot, mode, readers, writer_active>>
      BY <1>5, <2>1, <3>1 DEF TryExclusive, Return, ObjectInv, TypeOK
    <3> QED
      BY <3>2, HoldersStay
  <2>2. CASE ~Busy(obj[t])
    BY <1>5, <2>2, WriterEnters
  <2> QED
    BY <2>1, <2>2
<1>6. ASSUME NEW t \in Thread, TryShared(t)
      PROVE  HolderInv'
  <2>1. CASE ReadersBarred(obj[t])
    <3>1. mode[t] = "none"
      BY <1>6 DEF TryShared, ObjectInv, CallInv
    <3>2. UNCHANGED <<slot, mode, readers, writer_active>>
      BY <1>6, <2>1, <3>1 DEF TryShared, Return, ObjectInv, TypeOK
    <3> QED
      BY <3>2, HoldersStay
  <2>2. CASE ~ReadersBarred(obj[t])
    BY <1>6, <2>2, ReaderEnters
  <2> QED
    BY <2>1, <2>2
<1>7. ASSUME NEW t \in Thread, CallRelease(t)
      PROVE  HolderInv'
  <2>1. slot # None
    BY <1>7 DEF CallRelease, HolderInv
  <2> QED
    BY <1>7, <2>1, HoldersStay DEF CallRelease, fields
<1>8. ASSUME NEW t \in Thread, NEW c \in Calls, CallAcquire(t, c)
      PROVE  HolderInv'
  BY <1>8, HoldersStay DEF CallAcquire, fields
<1>9. ASSUME NEW t \in Thread, WaitEvent(t)
      PROVE  HolderInv'
  BY <1>9, HoldersStay DEF WaitEvent, fields
<1>10. CASE Initialize
  BY <1>10 DEF Initialize, fields, HolderInv, MutualExclusion
<1>11. CASE UNCHANGED vars
  BY <1>11, HoldersStay DEF vars, fields
<1>12. ASSUME NEW t \in Thread, ReleaseExclusive(t) \/ ReleaseShared(t)
       PROVE  HolderInv'
  BY <1>12, WriterLeaves, ReaderLeaves
<1>13. \A t \in Thread : ~AllocateFails(t)
  BY DEF AllocateFails
<1> QED
  BY <1>1, <1>2, <1>3, <1>4, <1>5, <1>6, <1>7, <1>8, <1>9, <1>10, <1>11, <1>12, <1>13
     DEF Next, Proceed

LEMMA EventStep ==
  ASSUME ~AllocMayFail, LockInv, [Next]_vars
  PROVE  EventsTellState'
<1> USE DEF LockInv, EventsTellState, Busy, ReadersBarred
<1>1. ASSUME NEW t \in Thread, Allocate(t)
      PROVE  EventsTellState'
  <2>1. slot # t
    BY <1>1 DEF Allocate, ObjectInv, SlotInv
  <2> QED
    BY <1>1, <2>1 DEF Allocate, ObjectInv, TypeOK, Object
<1>2. ASSUME NEW t \in Thread, PublishSlot(t)
      PROVE  EventsTellState'
  BY <1>2 DEF SlotEmpty, PublishSlot, fields, ObjectInv, SlotInv, Fresh
<1>3. ASSUME NEW t \in Thread, EnterExclusive(t)
      PROVE  EventsTellState'
  <2>1. obj[t] = slot /\ slot \in Object /\ slot # None
    BY <1>3, OnSlot DEF EnterExclusive
  <2>2. can_read'[slot] = FALSE /\ slot' = slot /\ readers' = readers
    BY <1>3, <2>1 DEF EnterExclusive, ObjectInv, TypeOK
  <2>3. can_write'[slot] = FALSE
    BY <1>3, <2>1 DEF EnterExclusive, TakeExclusive, ObjectInv, TypeOK
  <2>4. writer_active'[slot] \/ readers'[slot] # 0
    BY <1>3, <2>1 DEF EnterExclusive, TakeExclusive, ObjectInv, TypeOK
  <2>5. writer_active'[slot] \/ writers_waiting'[slot] # 0
    <3>1. CASE Busy(obj[t])
      BY <1>3, <2>1, <3>1 DEF EnterExclusive, ObjectInv, TypeOK
    <3>2. CASE ~Busy(obj[t])
      BY <1>3, <2>1, <3>2 DEF EnterExclusive, TakeExclusive, ObjectInv, TypeOK
    <3> QED
      BY <3>1, <3>2
  <2> QED
    BY <2>2, <2>3, <2>4, <2>5
<1>4. ASSUME NEW t \in Thread, ReenterExclusive(t)
      PROVE  EventsTellState'
  <2>1. obj[t] = slot /\ slot \in Object /\ slot # None
    BY <1>4, OnSlot DEF ReenterExclusive
  <2>2. t \in WritersInLine /\ ~can_read[slot]
    BY <1>4, <2>1, LineFinite
       DEF ReenterExclusive, WritersInLine, InLoop, ObjectInv, QueueInv
  <2>3. can_write'[slot] = FALSE /\ slot' = slot /\ readers' = readers /\ can_read' = can_read
    BY <1>4, <2>1 DEF ReenterExclusive, TakeExclusive, ObjectInv, TypeOK
  <2>4. writer_active'[slot] \/ readers'[slot] # 0
    BY <1>4, <2>1 DEF ReenterExclusive, TakeExclusive, ObjectInv, TypeOK
  <2>5. writer_active'[slot] \/ writers_waiting'[slot] = writers_waiting[slot]
    BY <1>4, <2>1 DEF ReenterExclusive, TakeExclusive, ObjectInv, TypeOK
  <2>6. writers_waiting[slot] # 0
    BY <2>1, <2>2, LineFinite DEF ObjectInv, QueueInv
  <2> QED
    BY <2>2, <2>3, <2>4, <2>5, <2>6
<1>5. ASSUME NEW t \in Thread, EnterShared(t) \/ TryShared(t)
      PROVE  EventsTellState'
  <2>1. obj[t] = slot /\ slot \in Object /\ slot # None
    BY <1>5, OnSlot DEF EnterShared, TryShared
  <2>2. UNCHANGED <<slot, writer_active, writers_waiting>>
    BY <1>5 DEF EnterShared, TryShared
  <2>3. CASE ReadersBarred(obj[t])
    <3>1. UNCHANGED <<readers, can_write>> /\ (can_read'[slot] => can_read[slot])
      BY <1>5, <2>1, <2>3 DEF EnterShared, TryShared, ObjectInv, TypeOK
    <3> QED
      BY <2>1, <2>2, <2>3, <3>1
  <2>4. CASE ~ReadersBarred(obj[t])
    <3>1. UNCHANGED can_read
      BY <1>5, <2>4 DEF EnterShared, TryShared
    <3>2. readers'[slot] # 0
      BY <1>5, <2>1, <2>4 DEF EnterShared, TryShared, TakeShared, ObjectInv, TypeOK
    <3>3. can_write'[slot] => can_write[slot] /\ readers[slot] # 0
      BY <1>5, <2>1, <2>4 DEF EnterShared, TryShared, TakeShared, ObjectInv, TypeOK
    <3> QED
      BY <2>1, <2>2, <2>4, <3>1, <3>2, <3>3
  <2> QED
    BY <2>3, <2>4
<1>6. ASSUME NEW t \in Thread, TryExclusive(t)
      PROVE  EventsTellState'
  <2>1. obj[t] = slot /\ slot \in Object /\ slot # None
    BY <1>6, OnSlot DEF TryExclusive
  <2>2. CASE Busy(obj[t])
    BY <1>6, <2>1, <2>2 DEF TryExclusive
  <2>3. CASE ~Busy(obj[t])
    BY <1>6, <2>1, <2>3 DEF TryExclusive, TakeExclusive, ObjectInv, TypeOK
  <2> QED
    BY <2>2, <2>3
<1>7. ASSUME NEW t \in Thread, ReleaseExclusive(t)
      PROVE  EventsTellState'
  <2>1. obj[t] = slot /\ slot \in Object /\ slot # None
    BY <1>7, OnSlot DEF ReleaseExclusive, SignalsReaders
  <2>2. ReadHolders = {}
    BY <1>7 DEF ReleaseExclusive, HolderInv, MutualExclusion, ReadHolders
  <2>3. readers[slot] = 0
    BY <2>1, <2>2, FS_EmptySet DEF HolderInv
  <2>4. WriteHolders # {}
    BY <1>7 DEF ReleaseExclusive, WriteHolders
  <2>5. ~can_read[slot]
    BY <2>1, <2>4 DEF HolderInv
  <2>6. /\ can_write'[slot]
        /\ can_read'[slot] <=> writers_waiting[slot] = 0
    BY <1>7, <2>1, <2>5 DEF ReleaseExclusive, ReleaseAndWake, SignalsReaders, ObjectInv, TypeOK
  <2>7. ~writer_active'[slot] /\ UNCHANGED <<slot, readers, writers_waiting>>
    BY <1>7, <2>1 DEF ReleaseExclusive, ObjectInv, TypeOK
  <2> QED
    BY <2>3, <2>6, <2>7
<1>8. ASSUME NEW t \in Thread, ReleaseShared(t)
      PROVE  EventsTellState'
  <2>1. obj[t] = slot /\ slot \in Object /\ slot # None
    BY <1>8, OnSlot DEF ReleaseShared, ReadersLeft, LastReader, SignalsReaders
  <2>2. t \in ReadHolders /\ WriteHolders = {}
    BY <1>8 DEF ReleaseShared, HolderInv, MutualExclusion, ReadHolders, WriteHolders
  <2>3. ~writer_active[slot] /\ readers[slot] \in Nat \ {0}
    BY <2>1, <2>2, HoldersFinite DEF HolderInv, ObjectInv, TypeOK
  <2>4. ~can_write[slot]
    BY <2>1, <2>3
  <2>5. /\ readers'[slot] = readers[slot] - 1
        /\ can_write'[slot] <=> readers[slot] - 1 = 0
        /\ can_read'[slot] <=>
              can_read[slot] \/ (readers[slot] - 1 = 0 /\ writers_waiting[slot] = 0)
        /\ UNCHANGED <<slot, writer_active, writers_waiting>>
    <3> DEFINE left == IF readers[slot] > 0 THEN readers[slot] - 1 ELSE 0
    <3>1. /\ readers' = [readers EXCEPT ![slot] = left]
          /\ ReleaseAndWake(t, slot, left = 0, left = 0 /\ writers_waiting[slot] = 0)
          /\ UNCHANGED <<slot, writer_active, writers_waiting>>
      BY <1>8, <2>1, Zenon DEF ReleaseShared, ReadersLeft, LastReader, SignalsReaders
    <3>5. left = readers[slot] - 1
      BY <2>3
    <3> HIDE DEF left
    <3>2. readers'[slot] = left
      BY <2>1, <3>1 DEF ObjectInv, TypeOK
    <3>3. can_write'[slot] <=> left = 0
      BY <2>1, <2>4, <3>1 DEF ReleaseAndWake, ObjectInv, TypeOK
    <3>4. can_read'[slot] <=> can_read[slot] \/ (left = 0 /\ writers_waiting[slot] = 0)
      BY <2>1, <3>1 DEF ReleaseAndWake, ObjectInv, TypeOK
    <3> QED
      BY <3>1, <3>2, <3>3, <3>4, <3>5
  <2> QED
    BY <2>1, <2>3, <2>5
<1>9. ASSUME NEW t \in Thread,
             \/ WaitEvent(t)
             \/ CallRelease(t)
             \/ \E c \in Calls : CallAcquire(t, c)
      PROVE  EventsTellState'
  BY <1>9 DEF WaitEvent, CallRelease, CallAcquire, fields
<1>10. CASE Initialize
  BY <1>10 DEF Initialize
<1>11. CASE UNCHANGED vars
  BY <1>11 DEF vars, fields
<1>12. \A t \in Thread : ~AllocateFails(t)
  BY DEF AllocateFails
<1> QED
  BY <1>1, <1>2, <1>3, <1>4, <1>5, <1>6, <1>7, <1>8, <1>9, <1>10, <1>11, <1>12
     DEF Next, Proceed

\* A step that signals no event puts nobody to sleep on a signalled one.
LEMMA SleepersStay ==
  ASSUME LockInv,
         \A u \in Thread : pc'[u] = "blocked" =>
             pc[u] = "blocked" /\ call'[u] = call[u] /\ obj'[u] = obj[u],
         slot # None => (can_write'[slot] => can_write[slot]) /\ (can_read'[slot] => can_read[slot])
  PROVE  SleepInv'
<1> SUFFICES ASSUME NEW u \in Thread, pc'[u] = "blocked"
             PROVE  ~Awaited(u)'
  BY DEF SleepInv
<1>1. pc[u] = "blocked" /\ call'[u] = call[u] /\ obj'[u] = obj[u]
  OBVIOUS
<1>2. obj[u] = slot /\ slot # None /\ ~Awaited(u)
  BY <1>1 DEF LockInv, SleepInv, ObjectInv, SlotInv, InCall, InLoop
<1> QED
  BY <1>1, <1>2 DEF Awaited

\* SetEvent releases every thread that sleeps on the event.
LEMMA SleepersWake ==
  ASSUME LockInv, NEW t \in Thread, NEW w \in BOOLEAN, NEW r \in BOOLEAN,
         slot \in Object, ReleaseAndWake(t, slot, w, r), UNCHANGED <<call, obj>>
  PROVE  SleepInv'
<1> SUFFICES ASSUME NEW u \in Thread, pc'[u] = "blocked"
             PROVE  ~Awaited(u)'
  BY DEF SleepInv
<1>1. pc[u] = "blocked" /\ u \notin Sleepers(slot, w, r)
  BY DEF ReleaseAndWake, LockInv, ObjectInv, TypeOK
<1>2. obj[u] = slot /\ ~Awaited(u)
  BY <1>1 DEF LockInv, SleepInv, ObjectInv, SlotInv, InCall, InLoop
<1>3. CASE call[u] = "X"
  <2>1. ~w
    BY <1>1, <1>2, <1>3 DEF Sleepers
  <2>2. can_write'[slot] = can_write[slot]
    BY <2>1 DEF ReleaseAndWake, LockInv, ObjectInv, TypeOK
  <2> QED
    BY <1>2, <1>3, <2>2 DEF Awaited
<1>4. CASE call[u] # "X"
  <2>1. ~r
    BY <1>1, <1>2, <1>4 DEF Sleepers
  <2>2. can_read'[slot] = can_read[slot]
    BY <2>1 DEF ReleaseAndWake, LockInv, ObjectInv, TypeOK
  <2> QED
    BY <1>2, <1>4, <2>2 DEF Awaited
<1> QED
  BY <1>3, <1>4

LEMMA SleepStep ==
  ASSUME ~AllocMayFail, LockInv, [Next]_vars
  PROVE  SleepInv'
<1> USE DEF Goto, Return
<1>0. TypeOK
  BY DEF LockInv, ObjectInv
<1>1. ASSUME NEW t \in Thread, Allocate(t)
      PROVE  SleepInv'
  <2>1. slot # t
    BY <1>1 DEF Allocate, LockInv, ObjectInv, SlotInv
  <2> QED
    BY <1>0, <1>1, <2>1, SleepersStay DEF Allocate, TypeOK, Object
<1>2. ASSUME NEW t \in Thread, PublishSlot(t)
      PROVE  SleepInv'
  BY <1>0, <1>2, SleepersStay DEF SlotEmpty, PublishSlot, fields, TypeOK
<1>3. ASSUME NEW t \in Thread, EnterExclusive(t) \/ ReenterExclusive(t) \/ TryExclusive(t)
      PROVE  SleepInv'
  <2>1. obj[t] = slot
    BY <1>3, OnSlot DEF LockInv, EnterExclusive, ReenterExclusive, TryExclusive
  <2>2. (can_write'[slot] => can_write[slot]) /\ (can_read'[slot] => can_read[slot])
    BY <1>0, <1>3, <2>1 DEF EnterExclusive, ReenterExclusive, TryExclusive, TakeExclusive, TypeOK
  <2>3. UNCHANGED <<call, obj>> /\ \A u \in Thread : pc'[u] = "blocked" => pc[u] = "blocked"
    BY <1>0, <1>3 DEF EnterExclusive, ReenterExclusive, TryExclusive, TakeExclusive, TypeOK
  <2> QED
    BY <2>2, <2>3, SleepersStay
<1>4. ASSUME NEW t \in Thread, EnterShared(t) \/ TryShared(t)
      PROVE  SleepInv'
  <2>1. obj[t] = slot
    BY <1>4, OnSlot DEF LockInv, EnterShared, TryShared
  <2>2. (can_write'[slot] => can_write[slot]) /\ (can_read'[slot] => can_read[slot])
    BY <1>0, <1>4, <2>1 DEF EnterShared, TryShared, TakeShared, TypeOK
  <2>3. UNCHANGED <<call, obj>> /\ \A u \in Thread : pc'[u] = "blocked" => pc[u] = "blocked"
    BY <1>0, <1>4 DEF EnterShared, TryShared, TakeShared, TypeOK
  <2> QED
    BY <2>2, <2>3, SleepersStay
<1>5. ASSUME NEW t \in Thread, WaitEvent(t)
      PROVE  SleepInv'
  <2>1. UNCHANGED <<call, obj, can_read, can_write>>
    BY <1>5 DEF WaitEvent, fields
  <2>2. \A u \in Thread : pc'[u] = "blocked" => pc[u] = "blocked" \/ ~Awaited(u)
    BY <1>0, <1>5 DEF WaitEvent, TypeOK
  <2> QED
    BY <2>1, <2>2 DEF LockInv, SleepInv, Awaited
<1>6. ASSUME NEW t \in Thread, ReleaseExclusive(t)
      PROVE  SleepInv'
  <2>1. obj[t] = slot /\ slot \in Object
    BY <1>6, OnSlot DEF LockInv, ReleaseExclusive
  <2>2. ReleaseAndWake(t, slot, TRUE, writers_waiting[slot] = 0) /\ UNCHANGED <<call, obj>>
    BY <1>6, <2>1 DEF ReleaseExclusive, SignalsReaders
  <2> QED
    BY <2>1, <2>2, SleepersWake
<1>7. ASSUME NEW t \in Thread, ReleaseShared(t)
      PROVE  SleepInv'
  <2> DEFINE left == IF readers[slot] > 0 THEN readers[slot] - 1 ELSE 0
  <2>1. obj[t] = slot /\ slot \in Object
    BY <1>7, OnSlot DEF LockInv, ReleaseShared
  <2>2. /\ ReleaseAndWake(t, slot, left = 0, left = 0 /\ writers_waiting[slot] = 0)
        /\ UNCHANGED <<call, obj>>
    BY <1>7, <2>1, Zenon DEF ReleaseShared, ReadersLeft, LastReader, SignalsReaders
  <2> HIDE DEF left
  <2> QED
    BY <2>1, <2>2, SleepersWake
<1>8. ASSUME NEW t \in Thread, CallRelease(t) \/ \E c \in Calls : CallAcquire(t, c)
      PROVE  SleepInv'
  BY <1>0, <1>8, SleepersStay DEF CallRelease, CallAcquire, fields, TypeOK
<1>9. CASE Initialize
  BY <1>9 DEF Initialize, SleepInv
<1>10. CASE UNCHANGED vars
  BY <1>10, SleepersStay DEF vars, fields
<1>11. \A t \in Thread : ~AllocateFails(t)
  BY DEF AllocateFails
<1> QED
  BY <1>1, <1>2, <1>3, <1>4, <1>5, <1>6, <1>7, <1>8, <1>9, <1>10, <1>11
     DEF Next, Proceed

LEMMA LockInvStep ==
  ASSUME ~AllocMayFail
  PROVE  LockInv /\ [Next]_vars => LockInv'
BY HolderStep, EventStep, SleepStep, ObjectInvStep DEF LockInv

LEMMA LockInvHolds ==
  ASSUME ~AllocMayFail
  PROVE  Spec => []LockInv
BY InitLockInv, LockInvStep, PTL DEF Spec

-----------------------------------------------------------------------------
(* What the invariants give the callers *)

\* No call ever works on an object that lost the publication race, even when
\* other allocations fail: get_srw_state, lines 59-83.
THEOREM OneObjectHolds == Spec => []OneObject
<1>1. Spec => []ObjectInv
  BY InitObjectInv, ObjectInvStep, PTL DEF Spec
<1>2. ObjectInv => OneObject
  BY DEF ObjectInv, SlotInv, OneObject
<1> QED
  BY <1>1, <1>2, PTL

\* Callers that got no memory and release what they do not hold leave the counts
\* of the object natural numbers (release_shared_state, line 176).
THEOREM StateSurvivesFailureHolds == Spec => []StateSurvivesFailure
<1>1. TypeOK /\ OneObject => StateSurvivesFailure
  BY DEF TypeOK, StateSurvivesFailure
<1> QED
  BY TypeCorrect, OneObjectHolds, <1>1, PTL

\* Readers and writers exclude each other as the SRW contract says, provided no
\* acquire call ran out of memory.
THEOREM MutualExclusionHolds ==
  ASSUME ~AllocMayFail
  PROVE  Spec => []MutualExclusion
<1>1. LockInv => MutualExclusion
  BY DEF LockInv, HolderInv
<1> QED
  BY <1>1, LockInvHolds, PTL

\* The counts and the two events agree with the callers' view of the lock.
THEOREM StateAgrees ==
  ASSUME ~AllocMayFail
  PROVE  Spec => []ObjectTellsState
<1>1. LockInv => ObjectTellsState
  BY DEF LockInv, ObjectInv, HolderInv, QueueInv, Accounting, ObjectTellsState
<1> QED
  BY <1>1, LockInvHolds, PTL

\* No wakeup is lost: every blocked thread waits for a holder, or behind a
\* writer that is awake.
THEOREM NoStrandedWaiterHolds ==
  ASSUME ~AllocMayFail
  PROVE  Spec => []NoStrandedWaiter
<1>1. LockInv => NoStrandedWaiter
  <2> SUFFICES ASSUME LockInv, NEW t \in Thread, pc[t] = "blocked",
                      \A u \in Thread : mode[u] = "none"
               PROVE  call[t] = "S" /\ \E w \in WritersInLine : pc[w] # "blocked"
    BY DEF NoStrandedWaiter
  <2>1. slot # None /\ \A u \in Thread : pc[u] = "blocked" => obj[u] = slot
    BY DEF LockInv, ObjectInv, SlotInv, InCall, InLoop
  <2>2. ReadHolders = {} /\ WriteHolders = {}
    BY DEF ReadHolders, WriteHolders
  <2>3. ~Busy(slot) /\ can_write[slot]
    BY <2>1, <2>2, FS_EmptySet DEF LockInv, HolderInv, EventsTellState, Busy
  <2>4. \A u \in Thread : pc[u] = "blocked" => call[u] = "S" /\ ~can_read[slot]
    BY <2>1, <2>3 DEF LockInv, SleepInv, Awaited, ObjectInv, CallInv, InLoop
  <2>5. writers_waiting[slot] # 0
    BY <2>1, <2>3, <2>4 DEF LockInv, EventsTellState, Busy, ReadersBarred
  <2>6. WritersInLine # {}
    BY <2>1, <2>5, FS_EmptySet DEF LockInv, ObjectInv, QueueInv
  <2>7. \A w \in WritersInLine : pc[w] # "blocked"
    BY <2>4 DEF WritersInLine
  <2> QED
    BY <2>4, <2>6, <2>7
<1> QED
  BY <1>1, LockInvHolds, PTL

\* Neither acquire_shared nor try_acquire_shared overtakes a waiting writer.
THEOREM WriterPreferenceHolds ==
  ASSUME ~AllocMayFail
  PROVE  Spec => WriterPreference
<1>1. ASSUME LockInv, [Next]_vars, NEW t \in Thread, t \in ReadHolders' \ ReadHolders
      PROVE  WritersInLine = {}
  <2> USE DEF ReadHolders, Return
  <2>1. mode' # mode /\ mode[t] # "S" /\ mode'[t] = "S" /\ TypeOK
    BY <1>1 DEF LockInv, ObjectInv
  <2>2. ASSUME NEW u \in Thread, EnterShared(u) \/ TryShared(u)
        PROVE  WritersInLine = {}
    <3>1. ~ReadersBarred(obj[u])
      BY <2>1, <2>2 DEF EnterShared, TryShared, TypeOK
    <3>2. obj[u] = slot /\ slot # None
      BY <1>1, <2>2, OnSlot DEF LockInv, EnterShared, TryShared
    <3> QED
      BY <1>1, <3>1, <3>2, LineEmpty DEF LockInv, ObjectInv, QueueInv, ReadersBarred
  <2>3. ASSUME NEW u \in Thread,
               \/ EnterExclusive(u) \/ ReenterExclusive(u) \/ TryExclusive(u)
               \/ ReleaseExclusive(u) \/ ReleaseShared(u)
        PROVE  FALSE
    BY <2>1, <2>3 DEF EnterExclusive, ReenterExclusive, TryExclusive, TakeExclusive,
                      ReleaseExclusive, ReleaseShared, ReadersLeft, ReleaseAndWake, TypeOK
  <2>4. ASSUME NEW u \in Thread, CallRelease(u)
        PROVE  FALSE
    BY <2>1, <2>4 DEF CallRelease, TypeOK
  <2>5. ASSUME NEW u \in Thread, AllocateFails(u)
        PROVE  FALSE
    BY <2>5 DEF AllocateFails
  <2>6. ASSUME NEW u \in Thread,
               \/ Allocate(u) \/ PublishSlot(u) \/ WaitEvent(u)
               \/ \E c \in Calls : CallAcquire(u, c)
        PROVE  FALSE
    BY <2>1, <2>6 DEF Allocate, PublishSlot, WaitEvent, CallAcquire
  <2>7. ~Initialize /\ ~UNCHANGED vars
    BY <2>1 DEF Initialize, vars
  <2> QED
    BY <1>1, <2>2, <2>3, <2>4, <2>5, <2>6, <2>7 DEF Next, Proceed
<1>2. LockInv /\ [Next]_vars =>
        [\A t \in Thread : t \in ReadHolders' \ ReadHolders => WritersInLine = {}]_vars
  BY <1>1
<1> QED
  BY <1>2, LockInvHolds, PTL DEF Spec, WriterPreference

-----------------------------------------------------------------------------
(* The lock implements the abstract readers/writer lock *)

LEMMA NoHolders ==
  ASSUME LockInv, slot # None
  PROVE  RW!Holders = {} <=> ~Busy(slot)
<1>1. ReadHolders = {} <=> readers[slot] = 0
  <2>1. CASE Thread = {}
    BY <2>1, FS_EmptySet DEF LockInv, HolderInv, ReadHolders
  <2>2. CASE Thread # {}
    BY <2>2, HoldersFinite DEF LockInv, HolderInv
  <2> QED
    BY <2>1, <2>2
<1>2. WriteHolders = {} <=> ~writer_active[slot]
  BY DEF LockInv, HolderInv
<1>3. mode \in [Thread -> {"none", "X", "S"}]
  BY DEF LockInv, ObjectInv, TypeOK
<1> QED
  BY <1>1, <1>2, <1>3 DEF RW!Holders, ReadHolders, WriteHolders, Busy

\* A writer that waits queues, and one that gets in takes a free lock.
LEMMA WriterRefines ==
  ASSUME LockInv, NEW t \in Thread,
         EnterExclusive(t) \/ ReenterExclusive(t) \/ TryExclusive(t)
  PROVE  RW!QueueWriter(t) \/ RW!AcquireX(t) \/ UNCHANGED <<mode, WritersInLine>>
<1>1. obj[t] = slot /\ slot \in Object /\ slot # None
  BY OnSlot DEF LockInv, EnterExclusive, ReenterExclusive, TryExclusive
<1>2. mode[t] = "none" /\ mode \in [Thread -> {"none", "X", "S"}]
  BY DEF LockInv, ObjectInv, TypeOK, CallInv, InLoop, EnterExclusive, ReenterExclusive, TryExclusive
<1>3. CASE Busy(slot) /\ EnterExclusive(t)
  <2>1. t \notin WritersInLine /\ WritersInLine' = WritersInLine \cup {t} /\ mode' = mode
    BY <1>1, <1>3, LineOf DEF LockInv, EnterExclusive
  <2> QED
    BY <1>1, <1>2, <1>3, <2>1, NoHolders DEF RW!QueueWriter
<1>4. CASE Busy(slot) /\ ~EnterExclusive(t)
  <2>1. WritersInLine' = WritersInLine
    BY <1>1, <1>4, LineOf DEF LockInv
  <2>2. mode' = mode
    BY <1>1, <1>2, <1>4 DEF ReenterExclusive, TryExclusive, Return
  <2> QED
    BY <2>1, <2>2
<1>5. CASE ~Busy(slot)
  <2>1. WritersInLine' = WritersInLine \ {t}
    <3>1. CASE EnterExclusive(t) \/ TryExclusive(t)
      <4>1. t \notin WritersInLine
        BY <3>1 DEF EnterExclusive, TryExclusive, WritersInLine, InLoop
      <4> QED
        BY <1>1, <1>5, <3>1, <4>1, LineOf DEF LockInv
    <3>2. CASE ReenterExclusive(t)
      BY <1>1, <1>5, <3>2, LineOf DEF LockInv
    <3> QED
      BY <3>1, <3>2
  <2>2. mode' = [mode EXCEPT ![t] = "X"]
    BY <1>1, <1>5 DEF EnterExclusive, ReenterExclusive, TryExclusive, TakeExclusive, Return
  <2> QED
    BY <1>1, <1>2, <1>5, <2>1, <2>2, NoHolders DEF RW!AcquireX
<1> QED
  BY <1>3, <1>4, <1>5

\* A reader that gets in finds no writer holding the lock or in line.
LEMMA ReaderRefines ==
  ASSUME LockInv, NEW t \in Thread, EnterShared(t) \/ TryShared(t)
  PROVE  RW!AcquireS(t) \/ UNCHANGED <<mode, WritersInLine>>
<1>1. obj[t] = slot /\ slot \in Object /\ slot # None
  BY OnSlot DEF LockInv, EnterShared, TryShared
<1>2. mode[t] = "none" /\ mode \in [Thread -> {"none", "X", "S"}]
  BY DEF LockInv, ObjectInv, TypeOK, CallInv, InLoop, EnterShared, TryShared
<1>3. WritersInLine' = WritersInLine
  BY LineOf DEF LockInv
<1>4. CASE ReadersBarred(slot)
  BY <1>1, <1>2, <1>3, <1>4 DEF EnterShared, TryShared, Return
<1>5. CASE ~ReadersBarred(slot)
  <2>1. WritersInLine = {}
    BY <1>1, <1>5, LineEmpty DEF LockInv, ObjectInv, QueueInv, ReadersBarred
  <2>2. RW!Writers = {}
    BY <1>1, <1>5 DEF LockInv, HolderInv, ReadersBarred, RW!Writers, WriteHolders
  <2>3. mode' = [mode EXCEPT ![t] = "S"]
    BY <1>1, <1>5 DEF EnterShared, TryShared, TakeShared, Return
  <2> QED
    BY <1>2, <1>3, <2>1, <2>2, <2>3 DEF RW!AcquireS
<1> QED
  BY <1>4, <1>5

LEMMA StepRefines ==
  ASSUME ~AllocMayFail, LockInv, [Next]_vars
  PROVE  [RW!RWNext]_<<mode, WritersInLine>>
<1>1. ASSUME NEW t \in Thread, Allocate(t) \/ PublishSlot(t) \/ WaitEvent(t)
      PROVE  UNCHANGED <<mode, WritersInLine>>
  BY <1>1, LineOf DEF LockInv, Allocate, PublishSlot, WaitEvent
<1>2. ASSUME NEW t \in Thread, CallRelease(t)
      PROVE  UNCHANGED <<mode, WritersInLine>>
  <2>1. slot # None
    BY <1>2 DEF CallRelease, LockInv, HolderInv
  <2> QED
    BY <1>2, <2>1, LineOf DEF LockInv, CallRelease
<1>3. ASSUME NEW t \in Thread, NEW c \in Calls, CallAcquire(t, c)
      PROVE  UNCHANGED <<mode, WritersInLine>>
  BY <1>3, LineOf DEF LockInv, CallAcquire
<1>4. ASSUME NEW t \in Thread, ReleaseExclusive(t) \/ ReleaseShared(t)
      PROVE  RW!Release(t)
  BY <1>4, LineOf DEF LockInv, ReleaseExclusive, ReleaseShared, ReadersLeft, ReleaseAndWake, RW!Release
<1>5. CASE Initialize \/ UNCHANGED vars
  BY <1>5 DEF Initialize, vars, WritersInLine
<1>6. \A t \in Thread : ~AllocateFails(t)
  BY DEF AllocateFails
<1> QED
  BY <1>1, <1>2, <1>3, <1>4, <1>5, <1>6, WriterRefines, ReaderRefines
     DEF Next, Proceed, RW!RWNext

\* Every behaviour of the bridge's lock, seen through what its callers hold and
\* which writers wait, is a behaviour of the abstract readers/writer lock.
THEOREM Refinement ==
  ASSUME ~AllocMayFail
  PROVE  Spec => ImplementsRWLock
<1>1. Init => RW!RWInit
  BY DEF Init, RW!RWInit, WritersInLine, InLoop
<1>2. LockInv /\ [Next]_vars => [RW!RWNext]_<<mode, WritersInLine>>
  BY StepRefines
<1> QED
  BY <1>1, <1>2, LockInvHolds, PTL DEF Spec, ImplementsRWLock, RW!RWSpec, RW!lockVars

=============================================================================
