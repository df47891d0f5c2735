--------------------------- MODULE Bridges_proofs ---------------------------
(***************************************************************************)
(* No call of the resolver leaks, its parsers and its writer agree with    *)
(* what decimal numbers and dotted quads are, its list is complete, and no *)
(* answer about a job is invented: for texts and lists of any length, any  *)
(* arguments, any job and any limit.                                       *)
(***************************************************************************)
EXTENDS Bridges, Positions, FiniteSetTheorems, TLAPS

IsSeq(s) == \E S : s \in Seq(S)

LEMMA AppendToSeq ==
  ASSUME NEW s, NEW e, IsSeq(s)
  PROVE  IsSeq(Append(s, e)) /\ Len(Append(s, e)) = Len(s) + 1 /\ Len(s) \in Nat
<1>1. PICK S : s \in Seq(S)
  BY DEF IsSeq
<1>2. s \in Seq(S \cup {e})
  BY <1>1
<1>3. Append(s, e) \in Seq(S \cup {e}) /\ Len(Append(s, e)) = Len(s) + 1 /\ Len(s) \in Nat
  BY <1>2
<1> QED BY <1>3 DEF IsSeq

LEMMA EmptyListIsSeq == \A s : s = <<>> => IsSeq(s) /\ Len(s) = 0
<1> TAKE s
<1> HAVE s = <<>>
<1>1. s \in Seq({}) /\ Len(s) = 0
  OBVIOUS
<1>2. IsSeq(s)
  BY <1>1 DEF IsSeq
<1> QED BY <1>1, <1>2

LEMMA LenInNat == ASSUME NEW s, IsSeq(s) PROVE Len(s) \in Nat
BY DEF IsSeq
----------------------------------------------------------------------------
\* Only the loops hold a list, only a call that succeeded has a result.
HeapInv ==
    /\ pc \in {"idle", "append"}
    /\ IsSeq(list) /\ IsSeq(result)
    /\ blocks = Len(list) + Len(result)
    /\ pc = "idle" => list = <<>>
    /\ pc = "append" => result = <<>> /\ code = "ok"
    /\ result # <<>> => code = "ok"

LEMMA HeapStep == HeapInv /\ [Next]_vars => HeapInv'
<1> SUFFICES ASSUME HeapInv, [Next]_vars PROVE HeapInv'
  OBVIOUS
<1> USE EmptyListIsSeq, LenInNat
<1>1. CASE GetAddrInfo
  <2>1. result = <<>> /\ pc = "idle" /\ UNCHANGED <<list, result, blocks>>
    BY <1>1 DEF HeapInv, GetAddrInfo, Ready
  <2>2. (pc' = "append" /\ code' = "ok") \/ pc' = "idle"
    BY <1>1 DEF GetAddrInfo
  <2> QED BY <2>1, <2>2 DEF HeapInv
<1>2. CASE AppendResult
  <2>1. PICK e : list' = Append(list, e)
    BY <1>2 DEF AppendResult
  <2>2. IsSeq(list') /\ Len(list') = Len(list) + 1
    BY <2>1, AppendToSeq DEF HeapInv
  <2>3. pc = "append" /\ blocks' = blocks + 1 /\ UNCHANGED <<pc, result, code>>
    BY <1>2 DEF AppendResult
  <2> QED BY <2>2, <2>3 DEF HeapInv
<1>3. CASE OutOfMemory
  <2>1. list' = <<>> /\ pc' = "idle" /\ blocks' = blocks - Len(list) /\ UNCHANGED result
    BY <1>3 DEF OutOfMemory, FreeChain
  <2>2. IsSeq(list') /\ Len(list') = 0 /\ pc = "append" /\ result = <<>>
    BY <1>3, <2>1, EmptyListIsSeq DEF HeapInv, OutOfMemory
  <2> QED BY <2>1, <2>2 DEF HeapInv
<1>4. CASE ReturnList
  BY <1>4 DEF HeapInv, ReturnList
<1>5. CASE FreeAddrInfo
  BY <1>5 DEF HeapInv, FreeAddrInfo, FreeChain, loop
<1>6. CASE UNCHANGED <<pc, list, result, blocks>> /\ (result = <<>> \/ UNCHANGED code)
           /\ (pc = "idle" \/ UNCHANGED code)
  BY <1>6 DEF HeapInv
<1>7. CASE InetNtop
  BY <1>6, <1>7 DEF InetNtop, loop
<1>8. CASE JobQuery
  BY <1>6, <1>8 DEF JobQuery, avars, loop
<1>9. CASE Proceed
  BY <1>6, <1>9 DEF Proceed, AForget
<1>10. CASE UNCHANGED vars
  BY <1>6, <1>10 DEF vars, avars, loop
<1> QED BY <1>1, <1>2, <1>3, <1>4, <1>5, <1>7, <1>8, <1>9, <1>10 DEF Next, Resolver, ANext

\* The resolver loses no block and frees none twice, whichever allocation fails
\* (w2k_s232.c:258-302, 415-451).
THEOREM NothingLeaksHolds == Spec => []NothingLeaks
<1>1. Init => HeapInv
  <2> SUFFICES ASSUME Init PROVE HeapInv
    OBVIOUS
  <2>1. IsSeq(list) /\ Len(list) = 0 /\ IsSeq(result) /\ Len(result) = 0
    BY EmptyListIsSeq DEF Init, AInit
  <2> QED BY <2>1 DEF Init, AInit, HeapInv
<1>2. HeapInv => NothingLeaks
  BY DEF HeapInv, NothingLeaks
<1> QED BY <1>1, <1>2, HeapStep, PTL DEF Spec
----------------------------------------------------------------------------
\* While a call is in progress, what it may say is recorded as it becomes true.
MomentInv ==
    /\ members \subseteq Process /\ capacity \in Nat
    /\ query \in {"none", "sync", "job"}
    /\ query # "none" =>
          /\ answer = "none"
          /\ Says(target, members) \in been
          /\ Cardinality(members) > JobLimit => crowded
    /\ AnswerOfTheMoment

LEMMA MembersCounted == ASSUME members \subseteq Process PROVE Cardinality(members) \in Nat
BY JobsAssumption, FS_Subset, FS_CardinalityType

LEMMA MomentStep == MomentInv /\ [Next]_vars => MomentInv'
<1> SUFFICES ASSUME MomentInv, [Next]_vars PROVE MomentInv'
  OBVIOUS
<1>1. CASE IsProcessInJob
  <2>1. answer = "none" /\ answer' = "none" /\ query' \in {"sync", "job"} /\ members' \subseteq Process
        /\ been' = {Says(target', members')} /\ crowded' = (Cardinality(members') > JobLimit)
    BY <1>1 DEF IsProcessInJob
  <2>2. capacity' \in Nat
    BY <1>1, JobsAssumption DEF IsProcessInJob
  <2> QED BY <2>1, <2>2 DEF MomentInv, AnswerOfTheMoment
<1>2. CASE JobChanges
  <2>1. query # "none" /\ members' \subseteq Process /\ UNCHANGED <<query, handle, target, capacity, answer>>
    BY <1>2 DEF JobChanges, MomentInv
  <2>2. Says(target', members') \in been' /\ been \subseteq been'
    BY <1>2, <2>1 DEF JobChanges
  <2>3. (Cardinality(members') > JobLimit => crowded') /\ (crowded => crowded')
    BY <1>2 DEF JobChanges
  <2> QED BY <2>1, <2>2, <2>3 DEF MomentInv, AnswerOfTheMoment
<1>3. ASSUME NEW a, Answer(a), handle = "job" =>
                /\ a \in {"TRUE", "FALSE"} => a \in been
                /\ a = "too many" => crowded
      PROVE  MomentInv'
  BY <1>3 DEF Answer, MomentInv, AnswerOfTheMoment
<1>4. CASE QueryFails
  BY <1>3, <1>4 DEF QueryFails
<1>5. CASE AssumeNoJob \/ NoJobOfOurs
  BY <1>3, <1>5 DEF AssumeNoJob, NoJobOfOurs
<1>6. CASE ListFits
  <2>1. Answer(Says(target, members)) /\ Says(target, members) \in been
    BY <1>6 DEF ListFits, MomentInv
  <2> QED BY <1>3, <2>1 DEF Says
<1>7. CASE Enlarge
  BY <1>7, MembersCounted DEF Enlarge, Reported, MomentInv, AnswerOfTheMoment
<1>8. CASE Double
  <2>1. CASE GivesUp /\ Answer("too many")
    <3>1. Cardinality(members) > JobLimit
      <4>1. Cardinality(members) \in Nat /\ capacity \in Nat /\ JobLimit \in Nat
        BY MembersCounted, JobsAssumption DEF MomentInv
      <4>2. Cardinality(members) > capacity /\ capacity >= JobLimit
        BY <1>8, <2>1 DEF Double, GivesUp
      <4> QED BY <4>1, <4>2
    <3> QED BY <1>3, <1>8, <2>1, <3>1 DEF Double, MomentInv
  <2>2. CASE capacity' = 2 * capacity
             /\ UNCHANGED <<members, query, handle, target, been, crowded, answer>>
    <3>1. capacity' \in Nat
      BY <2>2 DEF MomentInv
    <3> QED BY <2>2, <3>1, Zenon DEF MomentInv, AnswerOfTheMoment
  <2> QED BY <1>8, <2>1, <2>2 DEF Double
<1>9. CASE UNCHANGED jvars
  BY <1>9 DEF jvars, MomentInv, AnswerOfTheMoment
<1>10. CASE Proceed
  BY <1>10 DEF Proceed, JForget, MomentInv, AnswerOfTheMoment
<1> QED BY <1>1, <1>2, <1>4, <1>5, <1>6, <1>7, <1>8, <1>9, <1>10
        DEF Next, Resolver, JobQuery, JNext, QueryStep, vars

\* IsProcessInJob never says of a job what was at no moment of the call so, and gives
\* up on no job that stayed within the limit (w2k_sync.c:443-482, w2k_job.c:111-147).
THEOREM AnswerOfTheMomentHolds == Spec => []AnswerOfTheMoment
<1>1. Init => MomentInv
  BY DEF Init, JInit, MomentInv, AnswerOfTheMoment
<1>2. MomentInv => AnswerOfTheMoment
  BY DEF MomentInv
<1> QED BY <1>1, <1>2, MomentStep, PTL DEF Spec
----------------------------------------------------------------------------
(* Going through a text *)


PortState == {Refused} \cup 0 .. MaxPort

LEMMA PortClosed == ASSUME NEW s \in PortState, NEW c \in Char PROVE PortStep(s, c) \in PortState
<1>1. CASE s = Refused
  BY <1>1 DEF PortState, PortStep
<1>2. CASE s \in 0 .. MaxPort /\ c \in Digit /\ ~TooLarge(s * 10 + c)
  <2>1. s * 10 + c \in 0 .. MaxPort
    <3>1. ASSUME NEW p \in Nat, NEW m \in Nat, ~(p > m) PROVE p \in 0 .. m
      BY <3>1
    <3>2. s \in Nat /\ c \in Nat /\ MaxPort \in Nat
      BY <1>2 DEF MaxPort, Digit
    <3>3. s * 10 + c \in Nat
      BY <3>2
    <3>4. ~(s * 10 + c > MaxPort)
      BY <1>2 DEF TooLarge
    <3> QED BY <3>1, <3>2, <3>3, <3>4, Zenon
  <2>2. s # Refused
    BY <1>2, SMTT(30) DEF MaxPort, Refused
  <2> QED BY <1>2, <2>1, <2>2 DEF PortState, PortStep
<1>3. CASE c \notin Digit \/ TooLarge(s * 10 + c)
  BY <1>3 DEF PortState, PortStep
<1> QED BY <1>1, <1>2, <1>3 DEF PortState

LEMMA PortScan ==
  ASSUME NEW t \in Seq(Char)
  PROVE  \E v \in [0 .. Len(t) -> PortState] :
            /\ v[0] = (IF t = <<>> THEN Refused ELSE 0)
            /\ \A k \in 1 .. Len(t) : v[k] = PortStep(v[k - 1], t[k])
            /\ ParsePort(t) = v[Len(t)]
<1> DEFINE b == IF t = <<>> THEN Refused ELSE 0
           g == [p \in PortState \X (1 .. Len(t)) |-> PortStep(p[1], t[p[2]])]
           Step(v) == [k \in 0 .. Len(t) |-> IF k = 0 THEN b ELSE PortStep(v[k - 1], t[k])]
<1>0. Len(t) \in Nat /\ \A k \in 1 .. Len(t) : t[k] \in Char
  OBVIOUS
<1>1. b \in PortState
  BY DEF PortState, MaxPort
<1>2. \A s \in PortState, k \in 1 .. Len(t) : g[<<s, k>>] = PortStep(s, t[k])
  BY <1>0
<1>3. g \in [PortState \X (1 .. Len(t)) -> PortState]
  BY <1>0, PortClosed
<1>4. PICK f \in [0 .. Len(t) -> PortState] : IsRun(f, Len(t), b, g)
  <2> DEFINE n == Len(t)
  <2>1. n \in Nat /\ b \in PortState /\ g \in [PortState \X (1 .. n) -> PortState]
    BY <1>0, <1>1, <1>3
  <2> HIDE DEF b, g, n
  <2> QED BY <2>1, Recursion DEF n
<1>5. ASSUME NEW k \in 1 .. Len(t) PROVE f[k] = PortStep(f[k - 1], t[k])
  <2>1. k - 1 \in 0 .. Len(t)
    BY <1>0
  <2> HIDE DEF g
  <2> QED BY <1>2, <1>4, <2>1 DEF IsRun
<1>6. f[0] = b
  BY <1>4 DEF IsRun
<1>7. f = Step(f)
  BY <1>0, <1>4, <1>5, <1>6
<1> DEFINE v == CHOOSE v : v = Step(v)
<1>8. v = Step(v)
  BY <1>7
<1>9. ParsePort(t) = v[Len(t)]
  BY DEF ParsePort
<1> HIDE DEF v
<1>10. v[0] = b /\ \A k \in 1 .. Len(t) : v[k] = PortStep(v[k - 1], t[k])
  BY <1>0, <1>8
<1>11. v \in [0 .. Len(t) -> PortState]
  <2> DEFINE P == {k \in 0 .. Len(t) : v[k] \in PortState}
  <2>1. 0 \in P
    BY <1>0, <1>1, <1>10
  <2>2. ASSUME NEW k \in 1 .. Len(t), k - 1 \in P PROVE k \in P
    BY <1>0, <1>10, <2>2, PortClosed
  <2> HIDE DEF P
  <2>3. \A k \in 0 .. Len(t) : k \in P
    BY <1>0, <2>1, <2>2, Induction
  <2>4. \A k \in 0 .. Len(t) : v[k] \in PortState
    BY <2>3 DEF P
  <2> QED BY <1>8, <2>4
<1> QED BY <1>9, <1>10, <1>11

LEMMA ValueScan ==
  ASSUME NEW t \in Seq(Nat)
  PROVE  \E v \in [0 .. Len(t) -> Nat] :
            /\ v[0] = 0
            /\ \A k \in 1 .. Len(t) : v[k] = v[k - 1] * 10 + t[k]
            /\ Value(t) = v[Len(t)]
<1> DEFINE g == [p \in Nat \X (1 .. Len(t)) |-> p[1] * 10 + t[p[2]]]
           Step(v) == [k \in 0 .. Len(t) |-> IF k = 0 THEN 0 ELSE v[k - 1] * 10 + t[k]]
<1>1. Len(t) \in Nat /\ \A k \in 1 .. Len(t) : t[k] \in Nat
  OBVIOUS
<1>2. \A s \in Nat, k \in 1 .. Len(t) : g[<<s, k>>] = s * 10 + t[k]
  BY <1>1
<1>3. g \in [Nat \X (1 .. Len(t)) -> Nat]
  BY <1>1
<1>4. PICK f \in [0 .. Len(t) -> Nat] : IsRun(f, Len(t), 0, g)
  <2> DEFINE n == Len(t)
  <2>1. n \in Nat /\ 0 \in Nat /\ g \in [Nat \X (1 .. n) -> Nat]
    BY <1>1, <1>3
  <2> HIDE DEF g, n
  <2> QED BY <2>1, Recursion DEF n
<1>5. ASSUME NEW k \in 1 .. Len(t) PROVE f[k] = f[k - 1] * 10 + t[k]
  <2>1. k - 1 \in 0 .. Len(t)
    BY <1>1
  <2> HIDE DEF g
  <2> QED BY <1>2, <1>4, <2>1 DEF IsRun
<1>6. f[0] = 0
  BY <1>4 DEF IsRun
<1>7. f = Step(f)
  BY <1>1, <1>4, <1>5, <1>6
<1> DEFINE v == CHOOSE v : v = Step(v)
<1>8. v = Step(v)
  BY <1>7
<1>9. Value(t) = v[Len(t)]
  BY DEF Value
<1> HIDE DEF v
<1>10. v[0] = 0 /\ \A k \in 1 .. Len(t) : v[k] = v[k - 1] * 10 + t[k]
  BY <1>1, <1>8, SMTT(30)
<1>11. v \in [0 .. Len(t) -> Nat]
  <2> DEFINE P == {k \in 0 .. Len(t) : v[k] \in Nat}
  <2>1. 0 \in P
    BY <1>1, <1>10
  <2>2. ASSUME NEW k \in 1 .. Len(t), k - 1 \in P PROVE k \in P
    <3>1. v[k - 1] \in Nat /\ t[k] \in Nat
      BY <1>1, <2>2
    <3>2. v[k] = v[k - 1] * 10 + t[k] /\ k \in 0 .. Len(t)
      BY <1>1, <1>10
    <3> QED BY <3>1, <3>2
  <2> HIDE DEF P
  <2>3. \A k \in 0 .. Len(t) : k \in P
    BY <1>1, <2>1, <2>2, Induction
  <2>4. \A k \in 0 .. Len(t) : v[k] \in Nat
    BY <2>3 DEF P
  <2> QED BY <1>8, <2>4
<1> QED BY <1>9, <1>10, <1>11

LEMMA ValueEmpty == ASSUME NEW t \in Seq(Nat), Len(t) = 0 PROVE Value(t) = 0
BY ValueScan

LEMMA ValueAppend ==
  ASSUME NEW t \in Seq(Nat), NEW d \in Nat
  PROVE  Value(t) \in Nat /\ Value(Append(t, d)) = Value(t) * 10 + d
<1> DEFINE n == Len(t)
           u == Append(t, d)
<1>1. n \in Nat /\ u \in Seq(Nat) /\ Len(u) = n + 1 /\ u[n + 1] = d /\ \A k \in 1 .. n : u[k] = t[k]
  OBVIOUS
<1>2. PICK v \in [0 .. n -> Nat] : /\ v[0] = 0
                                   /\ \A k \in 1 .. n : v[k] = v[k - 1] * 10 + t[k]
                                   /\ Value(t) = v[n]
  BY ValueScan
<1> HIDE DEF u, n
<1>3. PICK w \in [0 .. n + 1 -> Nat] : /\ w[0] = 0
                                       /\ \A k \in 1 .. n + 1 : w[k] = w[k - 1] * 10 + u[k]
                                       /\ Value(u) = w[n + 1]
  <2>1. \E w \in [0 .. Len(u) -> Nat] : /\ w[0] = 0
                                        /\ \A k \in 1 .. Len(u) : w[k] = w[k - 1] * 10 + u[k]
                                        /\ Value(u) = w[Len(u)]
    BY <1>1, ValueScan
  <2> QED BY <1>1, <2>1
<1> DEFINE P == {k \in 0 .. n : v[k] = w[k]}
<1>4. 0 \in P
  BY <1>1, <1>2, <1>3
<1>5. ASSUME NEW k \in 1 .. n, k - 1 \in P PROVE k \in P
  BY <1>1, <1>2, <1>3, <1>5
<1> HIDE DEF P
<1>6. \A k \in 0 .. n : k \in P
  <2>1. n \in Nat
    BY <1>1
  <2> QED BY <2>1, <1>4, <1>5, Induction
<1>7. v[n] = w[n] /\ v[n] \in Nat
  BY <1>1, <1>6 DEF P
<1>8. n + 1 \in 1 .. n + 1 /\ (n + 1) - 1 = n
  BY <1>1
<1>9. w[n + 1] = w[n] * 10 + d
  BY <1>1, <1>3, <1>8
<1> QED BY <1>2, <1>3, <1>7, <1>9 DEF u

\* The number that stands in t after a, up to b.
Number(t, a, b) == Value(SubSeq(t, a + 1, b))

LEMMA NumberFrom ==
  ASSUME NEW t \in Seq(Nat), NEW a \in 0 .. Len(t)
  PROVE  /\ Number(t, a, a) = 0
         /\ \A b \in a .. Len(t) : Number(t, a, b) \in Nat
         /\ \A b \in a + 1 .. Len(t) : Number(t, a, b) = Number(t, a, b - 1) * 10 + t[b]
<1>1. Number(t, a, a) = 0
  <2>1. SubSeq(t, a + 1, a) \in Seq(Nat) /\ Len(SubSeq(t, a + 1, a)) = 0
    BY Part
  <2> QED BY <2>1, ValueEmpty DEF Number
<1>2. ASSUME NEW b \in a .. Len(t) PROVE Number(t, a, b) \in Nat
  <2>1. SubSeq(t, a + 1, b) \in Seq(Nat)
    BY Part
  <2> QED BY <2>1, ValueAppend DEF Number
<1>3. ASSUME NEW b \in a + 1 .. Len(t) PROVE Number(t, a, b) = Number(t, a, b - 1) * 10 + t[b]
  <2> DEFINE s == SubSeq(t, a + 1, b)
             r == SubSeq(t, a + 1, b - 1)
  <2>0. b - 1 \in a .. Len(t) /\ b \in a .. Len(t) /\ b \in 1 .. Len(t) /\ t[b] \in Nat
        /\ a \in Nat /\ b \in Nat
    OBVIOUS
  <2>1. s \in Seq(Nat) /\ Len(s) = b - a /\ \A i \in 1 .. b - a : s[i] = t[a + i]
    BY <2>0, Part
  <2>2. r \in Seq(Nat) /\ Len(r) = (b - 1) - a /\ \A i \in 1 .. (b - 1) - a : r[i] = t[a + i]
    BY <2>0, Part
  <2> DEFINE q == Append(r, t[b])
  <2> HIDE DEF s, r
  <2>3. q \in Seq(Nat) /\ Len(q) = b - a /\ \A i \in 1 .. (b - 1) - a : q[i] = t[a + i]
    BY <2>0, <2>2
  <2>4. q[b - a] = t[b]
    BY <2>0, <2>2
  <2> HIDE DEF q
  <2>5. \A i \in 1 .. b - a : s[i] = q[i]
    <3> TAKE i \in 1 .. b - a
    <3>1. CASE i = b - a
      <4>1. a + i = b
        BY <2>0, <3>1
      <4> QED BY <2>1, <2>4, <3>1, <4>1
    <3>2. CASE i # b - a
      <4>1. i \in 1 .. (b - 1) - a
        BY <2>0, <3>2
      <4> QED BY <2>1, <2>3, <4>1
    <3> QED BY <3>1, <3>2
  <2>6. s = q
    <3> DEFINE n == b - a
    <3>1. n \in Nat /\ s \in Seq(Nat) /\ q \in Seq(Nat) /\ Len(s) = n /\ Len(q) = n
      BY <2>0, <2>1, <2>3
    <3>2. \A i \in 1 .. n : s[i] = q[i]
      BY <2>5
    <3> HIDE DEF n
    <3> QED BY <3>1, <3>2
  <2> QED BY <2>0, <2>2, <2>6, ValueAppend DEF Number, s, r, q
<1> QED BY <1>1, <1>2, <1>3

\* More digits do not make it less.
LEMMA NumberGrows ==
  ASSUME NEW t \in Seq(Nat), NEW a \in 0 .. Len(t), NEW b \in a .. Len(t), NEW c \in b .. Len(t)
  PROVE  Number(t, a, b) <= Number(t, a, c)
<1> DEFINE P == {k \in 0 .. c - b : Number(t, a, b) <= Number(t, a, b + k)}
<1>1. Len(t) \in Nat /\ a \in Nat /\ b \in Nat /\ c \in Nat /\ a <= b /\ b <= c /\ c <= Len(t) /\ c - b \in Nat
  OBVIOUS
<1>2. 0 \in P
  <2>1. Number(t, a, b) \in Nat /\ b + 0 = b
    BY NumberFrom
  <2> QED BY <1>1, <2>1
<1>3. ASSUME NEW k \in 1 .. c - b, k - 1 \in P PROVE k \in P
  <2>1. b + k \in a + 1 .. Len(t) /\ b + (k - 1) \in a .. Len(t) /\ (b + k) - 1 = b + (k - 1)
        /\ b + k \in 1 .. Len(t)
    BY <1>1
  <2>2. Number(t, a, b + k) = Number(t, a, b + (k - 1)) * 10 + t[b + k]
    <3>1. Number(t, a, b + k) = Number(t, a, (b + k) - 1) * 10 + t[b + k]
      BY <2>1, NumberFrom
    <3> QED BY <2>1, <3>1
  <2>3. Number(t, a, b + (k - 1)) \in Nat /\ Number(t, a, b) \in Nat /\ t[b + k] \in Nat
    <3>1. Number(t, a, b + (k - 1)) \in Nat /\ Number(t, a, b) \in Nat
      BY <2>1, NumberFrom
    <3>2. t[b + k] \in Nat
      BY <2>1
    <3> QED BY <3>1, <3>2
  <2>4. Number(t, a, b) <= Number(t, a, b + (k - 1))
    BY <1>3
  <2> QED BY <2>2, <2>3, <2>4
<1> HIDE DEF P
<1>4. \A k \in 0 .. c - b : k \in P
  <2> DEFINE n == c - b
  <2>1. n \in Nat
    BY <1>1
  <2> HIDE DEF n
  <2>2. 0 \in P /\ \A k \in 1 .. n : k - 1 \in P => k \in P
    BY <1>2, <1>3 DEF n
  <2>3. \A k \in 0 .. n : k \in P
    BY <2>1, <2>2, Induction
  <2> QED BY <2>3 DEF n
<1>5. Number(t, a, b) <= Number(t, a, b + (c - b)) /\ b + (c - b) = c
  BY <1>1, <1>4 DEF P
<1> QED BY <1>5

LEMMA WholeText ==
  ASSUME NEW t \in Seq(Char)
  PROVE  t \in Seq(Nat) /\ Value(t) = Number(t, 0, Len(t)) /\ Len(t) \in Nat /\ (t = <<>> <=> Len(t) = 0)
<1>1. t \in Seq(Nat) /\ Len(t) \in Nat /\ (t = <<>> <=> Len(t) = 0)
  BY DEF Char
<1>2. SubSeq(t, 0 + 1, Len(t)) = t
  <2> DEFINE n == Len(t)
             s == SubSeq(t, 0 + 1, n)
  <2>1. s \in Seq(Nat) /\ Len(s) = n - 0 /\ (\A i \in 1 .. n - 0 : s[i] = t[0 + i])
    BY <1>1, Part
  <2>2. n \in Nat /\ Len(t) = n /\ t \in Seq(Nat)
    BY <1>1
  <2> HIDE DEF n, s
  <2>3. Len(s) = n /\ \A i \in 1 .. n : s[i] = t[i]
    BY <2>1, <2>2
  <2>4. s = t
    BY <2>1, <2>2, <2>3
  <2> QED BY <2>4 DEF s, n
<1> QED BY <1>1, <1>2 DEF Number

\* A service is taken for a port exactly if it is a decimal number of sixteen bits,
\* whatever its leading zeros and its length, and then for that number
\* (w2k_s232.c:189-202).
THEOREM PortsAreRead ==
  ASSUME NEW t \in Seq(Char)
  PROVE  ParsePort(t) = IF t # <<>> /\ ToSet(t) \subseteq Digit /\ Value(t) <= MaxPort
                        THEN Value(t) ELSE Refused
<1> DEFINE N(k) == Number(t, 0, k)
           Fine(k) == (\A i \in 1 .. k : t[i] \in Digit) /\ N(k) <= MaxPort
<1>1. /\ t \in Seq(Nat) /\ Value(t) = N(Len(t)) /\ Len(t) \in Nat /\ (t = <<>> <=> Len(t) = 0)
      /\ \A k \in 1 .. Len(t) : t[k] \in Char
  BY WholeText
<1>2. PICK v \in [0 .. Len(t) -> PortState] :
            /\ v[0] = (IF t = <<>> THEN Refused ELSE 0)
            /\ \A k \in 1 .. Len(t) : v[k] = PortStep(v[k - 1], t[k])
            /\ ParsePort(t) = v[Len(t)]
  BY PortScan
<1>3. /\ N(0) = 0 /\ \A k \in 0 .. Len(t) : N(k) \in Nat
      /\ \A k \in 1 .. Len(t) : N(k) = N(k - 1) * 10 + t[k]
  <2>1. 0 \in 0 .. Len(t)
    BY <1>1
  <2> QED BY <1>1, <2>1, NumberFrom
<1>4. ASSUME NEW k \in 1 .. Len(t) PROVE N(k - 1) <= N(k)
  <2>1. 0 \in 0 .. Len(t) /\ k - 1 \in 0 .. Len(t) /\ k \in k - 1 .. Len(t)
    BY <1>1
  <2> QED BY <1>1, <2>1, NumberGrows
<1>5. CASE t = <<>>
  BY <1>1, <1>2, <1>5
<1>6. CASE t # <<>>
  <2> DEFINE P == {k \in 0 .. Len(t) : v[k] = IF Fine(k) THEN N(k) ELSE Refused}
  <2>1. 0 \in P
    <3>1. Fine(0) /\ v[0] = 0 /\ 0 \in 0 .. Len(t)
      BY <1>1, <1>2, <1>3, <1>6 DEF MaxPort
    <3> QED BY <1>3, <3>1
  <2>2. ASSUME NEW k \in 1 .. Len(t), k - 1 \in P PROVE k \in P
    <3>0. k \in 0 .. Len(t) /\ k - 1 \in 0 .. Len(t) /\ k \in Nat
      BY <1>1
    <3>a. N(k) \in Nat /\ N(k - 1) \in Nat /\ N(k - 1) <= N(k) /\ t[k] \in Char
          /\ N(k) = N(k - 1) * 10 + t[k]
      BY <1>1, <1>3, <1>4, <3>0
    <3>b. v[k - 1] = (IF Fine(k - 1) THEN N(k - 1) ELSE Refused) /\ v[k] = PortStep(v[k - 1], t[k])
      BY <1>2, <2>2
    <3>c. Fine(k) <=> (\A i \in 1 .. k - 1 : t[i] \in Digit) /\ t[k] \in Digit /\ N(k) <= MaxPort
      <4>1. (\A i \in 1 .. k : t[i] \in Digit) <=> (\A i \in 1 .. k - 1 : t[i] \in Digit) /\ t[k] \in Digit
        BY <3>0
      <4> HIDE DEF N
      <4> QED BY <4>1
    <3> HIDE DEF N
    <3>1. CASE ~Fine(k - 1)
      <4>1. v[k - 1] = Refused /\ ~Fine(k)
        BY <3>a, <3>b, <3>c, <3>1 DEF MaxPort
      <4> QED BY <3>0, <3>b, <4>1 DEF PortStep
    <3>2. CASE Fine(k - 1) /\ Fine(k)
      <4>1. v[k - 1] = N(k - 1) /\ t[k] \in Digit /\ N(k - 1) * 10 + t[k] <= MaxPort
        BY <3>a, <3>b, <3>c, <3>2
      <4>2. N(k - 1) # Refused /\ ~TooLarge(N(k - 1) * 10 + t[k])
        BY <3>a, <4>1 DEF Refused, TooLarge, MaxPort
      <4>3. v[k] = N(k)
        BY <3>a, <3>b, <4>1, <4>2 DEF PortStep
      <4> QED BY <3>0, <3>2, <4>3
    <3>3. CASE Fine(k - 1) /\ ~Fine(k)
      <4>1. v[k - 1] = N(k - 1) /\ (t[k] \notin Digit \/ N(k - 1) * 10 + t[k] > MaxPort)
        BY <3>a, <3>b, <3>c, <3>3 DEF MaxPort
      <4>2. v[k] = Refused
        BY <3>b, <4>1 DEF PortStep, TooLarge
      <4> QED BY <3>0, <3>3, <4>2
    <3> QED BY <3>1, <3>2, <3>3
  <2> HIDE DEF P
  <2>3. Len(t) \in P
    <3>1. \A k \in 0 .. Len(t) : k \in P
      BY <1>1, <2>1, <2>2, Induction
    <3> QED BY <1>1, <3>1
  <2>4. ParsePort(t) = IF Fine(Len(t)) THEN N(Len(t)) ELSE Refused
    BY <1>2, <2>3 DEF P
  <2>5. ToSet(t) \subseteq Digit <=> \A i \in 1 .. Len(t) : t[i] \in Digit
    BY <1>1 DEF ToSet
  <2> QED BY <1>1, <1>6, <2>4, <2>5
<1> QED BY <1>5, <1>6

ScanState == [bad : BOOLEAN, bytes : Seq(Byte), part : Byte, digits : Nat]
ScanStart == [bad |-> FALSE, bytes |-> <<>>, part |-> 0, digits |-> 0]

LEMMA ScanClosed ==
  ASSUME NEW s \in ScanState, NEW c \in Char, NEW r, r = ScanByte(s, c)
  PROVE  /\ r \in ScanState
         /\ s.bad => r.bad
         /\ ~s.bad /\ c \in Digit /\ s.part * 10 + c <= 255 =>
               ~r.bad /\ r.bytes = s.bytes /\ r.part = s.part * 10 + c /\ r.digits = s.digits + 1
         /\ ~s.bad /\ c = Dot /\ s.digits > 0 /\ Len(s.bytes) < 3 =>
               ~r.bad /\ r.bytes = Append(s.bytes, s.part) /\ r.part = 0 /\ r.digits = 0
         /\ ~r.bad =>
               ~s.bad /\ ((c \in Digit /\ s.part * 10 + c <= 255) \/ (c = Dot /\ s.digits > 0 /\ Len(s.bytes) < 3))
<1> DEFINE Number1 == c \in Digit /\ s.part * 10 + c <= 255
           Separator == c = Dot /\ s.digits > 0 /\ Len(s.bytes) < 3
<1>0. s.bad \in BOOLEAN /\ s.bytes \in Seq(Byte) /\ s.part \in Byte /\ s.digits \in Nat
      /\ s = [bad |-> s.bad, bytes |-> s.bytes, part |-> s.part, digits |-> s.digits]
  BY DEF ScanState
<1>1. CASE s.bad
  <2>1. r = s
    BY <1>1 DEF ScanByte
  <2> QED BY <1>1, <2>1
<1>2. CASE ~s.bad /\ Number1
  <2>1. ~(c = Dot)
    BY <1>2 DEF Digit, Dot
  <2>2. r = [s EXCEPT !.part = @ * 10 + c, !.digits = @ + 1]
    BY <1>2, <2>1 DEF ScanByte
  <2>3. r = [bad |-> s.bad, bytes |-> s.bytes, part |-> s.part * 10 + c, digits |-> s.digits + 1]
    BY <1>0, <2>2
  <2>4. s.part * 10 + c \in Byte /\ s.digits + 1 \in Nat
    <3>1. ASSUME NEW p \in 0 .. 255, c \in 0 .. 9, p * 10 + c <= 255 PROVE p * 10 + c \in 0 .. 255
      BY <3>1
    <3>2. s.part \in 0 .. 255 /\ c \in 0 .. 9 /\ s.part * 10 + c <= 255
      BY <1>0, <1>2, Zenon DEF Byte, Digit
    <3>3. s.part * 10 + c \in 0 .. 255
      BY <3>1, <3>2, Zenon
    <3>4. s.digits + 1 \in Nat
      BY <1>0
    <3> QED BY <3>3, <3>4 DEF Byte
  <2>5. r \in ScanState
    BY <1>0, <2>3, <2>4 DEF ScanState
  <2>6. ~r.bad /\ r.bytes = s.bytes /\ r.part = s.part * 10 + c /\ r.digits = s.digits + 1
    BY <1>2, <2>3
  <2>7. s.bad => r.bad
    BY <1>2, Zenon
  <2>8. ~s.bad /\ ((c \in Digit /\ s.part * 10 + c <= 255) \/ (c = Dot /\ s.digits > 0 /\ Len(s.bytes) < 3))
    BY <1>2, Zenon
  <2>9. ~(~s.bad /\ c = Dot /\ s.digits > 0 /\ Len(s.bytes) < 3)
    BY <2>1, Zenon
  <2> QED BY <2>5, <2>6, <2>7, <2>8, <2>9, Zenon
<1>3. CASE ~s.bad /\ Separator
  <2>1. ~(c \in Digit)
    BY <1>3 DEF Digit, Dot
  <2>2. r = [s EXCEPT !.bytes = Append(@, s.part), !.part = 0, !.digits = 0]
    BY <1>3, <2>1 DEF ScanByte
  <2>3. r = [bad |-> s.bad, bytes |-> Append(s.bytes, s.part), part |-> 0, digits |-> 0]
    BY <1>0, <2>2
  <2>4. Append(s.bytes, s.part) \in Seq(Byte) /\ 0 \in Byte
    BY <1>0 DEF Byte
  <2>5. r \in ScanState
    BY <1>0, <2>3, <2>4 DEF ScanState
  <2>6. ~r.bad /\ r.bytes = Append(s.bytes, s.part) /\ r.part = 0 /\ r.digits = 0
    BY <1>3, <2>3
  <2> QED BY <1>3, <2>1, <2>5, <2>6
<1>4. CASE ~s.bad /\ ~Number1 /\ ~Separator
  <2>1. r = [s EXCEPT !.bad = TRUE]
    BY <1>4 DEF ScanByte
  <2>2. r = [bad |-> TRUE, bytes |-> s.bytes, part |-> s.part, digits |-> s.digits]
    BY <1>0, <2>1
  <2>3. r \in ScanState /\ r.bad
    BY <1>0, <2>2 DEF ScanState
  <2> QED BY <1>4, <2>3
<1> QED BY <1>1, <1>2, <1>3, <1>4

LEMMA QuadScan ==
  ASSUME NEW t \in Seq(Char)
  PROVE  \E v \in [0 .. Len(t) -> ScanState] :
            /\ v[0] = ScanStart
            /\ \A k \in 1 .. Len(t) : v[k] = ScanByte(v[k - 1], t[k])
            /\ ParseIPv4(t) = LET s == v[Len(t)]
                              IN  IF s.bad \/ s.digits = 0 \/ Len(s.bytes) < 3 THEN Null
                                  ELSE Append(s.bytes, s.part)
<1> DEFINE g == [p \in ScanState \X (1 .. Len(t)) |-> ScanByte(p[1], t[p[2]])]
           Step(v) == [k \in 0 .. Len(t) |-> IF k = 0 THEN ScanStart ELSE ScanByte(v[k - 1], t[k])]
<1>0. Len(t) \in Nat /\ \A k \in 1 .. Len(t) : t[k] \in Char
  OBVIOUS
<1>1. ScanStart \in ScanState
  <2>1. <<>> \in Seq(Byte) /\ 0 \in Byte
    BY DEF Byte
  <2> QED BY <2>1 DEF ScanStart, ScanState
<1>2. \A s \in ScanState, k \in 1 .. Len(t) : g[<<s, k>>] = ScanByte(s, t[k])
  BY <1>0
<1>3. g \in [ScanState \X (1 .. Len(t)) -> ScanState]
  BY <1>0, ScanClosed
<1>4. PICK f \in [0 .. Len(t) -> ScanState] : IsRun(f, Len(t), ScanStart, g)
  <2> DEFINE n == Len(t)
  <2>1. n \in Nat /\ ScanStart \in ScanState /\ g \in [ScanState \X (1 .. n) -> ScanState]
    BY <1>0, <1>1, <1>3
  <2> HIDE DEF g, n
  <2> QED BY <2>1, Recursion DEF n
<1>5. ASSUME NEW k \in 1 .. Len(t) PROVE f[k] = ScanByte(f[k - 1], t[k])
  <2>1. k - 1 \in 0 .. Len(t)
    BY <1>0
  <2> HIDE DEF g
  <2> QED BY <1>2, <1>4, <2>1 DEF IsRun
<1>6. f[0] = ScanStart
  BY <1>4 DEF IsRun
<1>7. f = Step(f)
  BY <1>0, <1>4, <1>5, <1>6
<1> DEFINE v == CHOOSE v : v = Step(v)
<1>8. v = Step(v)
  BY <1>7
<1>9. ParseIPv4(t) = LET s == v[Len(t)]
                     IN  IF s.bad \/ s.digits = 0 \/ Len(s.bytes) < 3 THEN Null ELSE Append(s.bytes, s.part)
  BY Zenon DEF ParseIPv4, ScanStart
<1> HIDE DEF v
<1>10. v[0] = ScanStart /\ \A k \in 1 .. Len(t) : v[k] = ScanByte(v[k - 1], t[k])
  BY <1>0, <1>8
<1>11. v \in [0 .. Len(t) -> ScanState]
  <2> DEFINE P == {k \in 0 .. Len(t) : v[k] \in ScanState}
  <2>1. 0 \in P
    BY <1>0, <1>1, <1>10
  <2>2. ASSUME NEW k \in 1 .. Len(t), k - 1 \in P PROVE k \in P
    <3>1. v[k - 1] \in ScanState /\ t[k] \in Char /\ v[k] = ScanByte(v[k - 1], t[k]) /\ k \in 0 .. Len(t)
      BY <1>0, <1>10, <2>2
    <3>2. v[k] \in ScanState
      BY <3>1, ScanClosed
    <3> QED BY <3>1, <3>2
  <2> HIDE DEF P
  <2>3. \A k \in 0 .. Len(t) : k \in P
    BY <1>0, <2>1, <2>2, Induction
  <2>4. \A k \in 0 .. Len(t) : v[k] \in ScanState
    BY <2>3 DEF P
  <2> QED BY <1>8, <2>4
<1> QED BY <1>9, <1>10, <1>11

LEMMA NoPart ==
  ASSUME NEW S, NEW t \in Seq(S), NEW a \in Nat, NEW b \in Int, b <= a
  PROVE  SubSeq(t, a + 1, b) = <<>>
<1>1. Len(SubSeq(t, a + 1, b)) = 0 /\ SubSeq(t, a + 1, b) \in Seq(S)
  OBVIOUS
<1> QED BY <1>1

LEMMA ByteField ==
  ASSUME NEW t \in Seq(Char), NEW a \in 0 .. Len(t), NEW b \in 0 .. Len(t)
  PROVE  IsByte(SubSeq(t, a + 1, b)) <=>
            a < b /\ (\A i \in a + 1 .. b : t[i] \in Digit) /\ Number(t, a, b) <= 255
<1> DEFINE f == SubSeq(t, a + 1, b)
<1>1. Len(t) \in Nat /\ a \in Nat /\ b \in Nat /\ t \in Seq(Nat)
  BY WholeText
<1>2. CASE b <= a
  <2>1. f = <<>>
    BY <1>1, <1>2, NoPart
  <2> QED BY <1>1, <1>2, <2>1 DEF IsByte
<1>3. CASE a < b
  <2>1. b \in a .. Len(t)
    BY <1>1, <1>3
  <2>2. f \in Seq(Nat) /\ Len(f) = b - a /\ \A i \in 1 .. b - a : f[i] = t[a + i]
    BY <1>1, <2>1, Part
  <2> DEFINE n == b - a
  <2>4. n \in Nat /\ n # 0
    BY <1>1, <1>3
  <2>5. ToSet(f) \subseteq Digit <=> \A i \in a + 1 .. b : t[i] \in Digit
    <3>1. ASSUME \A i \in 1 .. n : t[a + i] \in Digit, NEW m \in a + 1 .. b PROVE t[m] \in Digit
      <4>1. m - a \in 1 .. n /\ a + (m - a) = m
        BY <1>1
      <4>2. t[a + (m - a)] \in Digit
        BY <3>1, <4>1
      <4> QED BY <4>1, <4>2
    <3>2. ASSUME \A i \in a + 1 .. b : t[i] \in Digit, NEW m \in 1 .. n PROVE t[a + m] \in Digit
      <4>1. a + m \in a + 1 .. b
        BY <1>1
      <4> QED BY <3>2, <4>1
    <3>3. (\A i \in 1 .. n : t[a + i] \in Digit) <=> (\A i \in a + 1 .. b : t[i] \in Digit)
      BY <3>1, <3>2
    <3>4. DOMAIN f = 1 .. n /\ \A i \in 1 .. n : f[i] = t[a + i]
      BY <2>2, <2>4
    <3> HIDE DEF f, n
    <3>5. ToSet(f) \subseteq Digit <=> \A i \in 1 .. n : t[a + i] \in Digit
      BY <3>4 DEF ToSet
    <3> QED BY <3>3, <3>5
  <2>6. f # <<>>
    <3> HIDE DEF f, n
    <3> QED BY <2>2, <2>4 DEF n
  <2>7. Value(f) \in Byte <=> Number(t, a, b) <= 255
    <3>1. Value(f) = Number(t, a, b)
      BY DEF Number
    <3>2. Number(t, a, b) \in Nat
      BY <1>1, <2>1, NumberFrom
    <3>3. Number(t, a, b) \in Byte <=> Number(t, a, b) <= 255
      <4> DEFINE x == Number(t, a, b)
      <4>1. x \in Nat
        BY <3>2
      <4> HIDE DEF x
      <4>2. x \in Byte => x <= 255
        BY <4>1 DEF Byte
      <4>3. x <= 255 => x \in Byte
        BY <4>1 DEF Byte
      <4> QED BY <4>2, <4>3 DEF x
    <3> QED BY <3>1, <3>3, Zenon
  <2> HIDE DEF f
  <2>8. IsByte(f) <=> a < b /\ (\A i \in a + 1 .. b : t[i] \in Digit) /\ Number(t, a, b) <= 255
    BY <1>3, <2>5, <2>6, <2>7, Zenon DEF IsByte
  <2> QED BY <2>8 DEF f
<1> QED BY <1>1, <1>2, <1>3

\* Three dots between digits that make a byte each.
GoodCuts(t, c) ==
    /\ c[1] = 0 /\ c[5] = Len(t) + 1
    /\ \A n \in 2 .. 4 : c[n] \in 1 .. Len(t) /\ t[c[n]] = Dot
    /\ \A n \in 1 .. 4 : /\ c[n] < c[n + 1] - 1
                         /\ \A i \in c[n] + 1 .. c[n + 1] - 1 : t[i] \in Digit
                         /\ Number(t, c[n], c[n + 1] - 1) <= 255

LEMMA CutsAre ==
  ASSUME NEW t \in Seq(Char), NEW c \in Cuts(t)
  PROVE  (\A n \in 1 .. 4 : IsByte(Field(t, c, n))) <=> GoodCuts(t, c)
<1>1. Len(t) \in Nat /\ DOMAIN t = 1 .. Len(t)
  OBVIOUS
<1>2. PICK i, j, k \in 1 .. Len(t) :
          t[i] = Dot /\ t[j] = Dot /\ t[k] = Dot /\ c = <<0, i, j, k, Len(t) + 1>>
  <2> DEFINE dots == {i \in 1 .. Len(t) : t[i] = Dot}
  <2>1. c \in {<<0, i, j, k, Len(t) + 1>> : i \in dots, j \in dots, k \in dots}
    BY <1>1 DEF Cuts
  <2>2. PICK i \in dots, j \in dots, k \in dots : c = <<0, i, j, k, Len(t) + 1>>
    BY <2>1
  <2> QED BY <2>2
<1>3. c[1] = 0 /\ c[2] = i /\ c[3] = j /\ c[4] = k /\ c[5] = Len(t) + 1
  BY <1>2
<1>4. ASSUME NEW n \in 2 .. 4 PROVE c[n] \in 1 .. Len(t) /\ t[c[n]] = Dot
  <2>1. n = 2 \/ n = 3 \/ n = 4
    OBVIOUS
  <2>2. c[n] = i \/ c[n] = j \/ c[n] = k
    BY <1>3, <2>1
  <2> QED BY <1>2, <2>2
<1>5. ASSUME NEW n \in 1 .. 4 PROVE c[n] \in 0 .. Len(t) /\ c[n + 1] - 1 \in 0 .. Len(t)
  <2>1. n = 1 \/ n = 2 \/ n = 3 \/ n = 4
    OBVIOUS
  <2> QED BY <1>1, <1>3, <2>1
<1>6. \A n \in 1 .. 4 : IsByte(Field(t, c, n)) <=>
          /\ c[n] < c[n + 1] - 1
          /\ \A m \in c[n] + 1 .. c[n + 1] - 1 : t[m] \in Digit
          /\ Number(t, c[n], c[n + 1] - 1) <= 255
  BY <1>5, ByteField DEF Field
<1> QED BY <1>3, <1>4, <1>6, Zenon DEF GoodCuts

LEMMA CutsRange ==
  ASSUME NEW t \in Seq(Char), NEW c, GoodCuts(t, c), NEW n \in 1 .. 4
  PROVE  /\ c[n] \in 0 .. Len(t) /\ c[n + 1] - 1 \in c[n] + 1 .. Len(t)
         /\ c[n + 1] \in 1 .. Len(t) + 1 /\ (n < 4 => c[n + 1] <= Len(t))
<1>1. Len(t) \in Nat
  OBVIOUS
<1>2. c[n] \in 0 .. Len(t)
  <2>1. n = 1 \/ n \in 2 .. 4
    OBVIOUS
  <2> QED BY <1>1, <2>1, SMTT(30) DEF GoodCuts
<1>3. c[n + 1] \in 1 .. Len(t) + 1 /\ (n < 4 => c[n + 1] <= Len(t))
  <2>1. n = 4 \/ n + 1 \in 2 .. 4
    OBVIOUS
  <2> QED BY <1>1, <2>1 DEF GoodCuts
<1>4. c[n] < c[n + 1] - 1
  BY DEF GoodCuts
<1> QED BY <1>1, <1>2, <1>3, <1>4

\* Where the scan of a dotted quad is after k characters: in its nth number.
Reached(s, t, c, n, k) ==
    /\ c[n] <= k /\ k < c[n + 1]
    /\ ~s.bad /\ Len(s.bytes) = n - 1
    /\ \A m \in 1 .. n - 1 : s.bytes[m] = Number(t, c[m], c[m + 1] - 1)
    /\ s.part = Number(t, c[n], k) /\ s.digits = k - c[n]

LEMMA ReachedStep ==
  ASSUME NEW t \in Seq(Char), NEW c, GoodCuts(t, c), NEW k \in 1 .. Len(t), NEW n \in 1 .. 4,
         NEW s \in ScanState, Reached(s, t, c, n, k - 1)
  PROVE  \E m \in 1 .. 4 : Reached(ScanByte(s, t[k]), t, c, m, k)
<1> DEFINE r == ScanByte(s, t[k])
<1>1. /\ Len(t) \in Nat /\ t \in Seq(Nat) /\ t[k] \in Char /\ k \in Nat
      /\ s.bytes \in Seq(Byte) /\ s.part \in Byte /\ s.digits \in Nat
  BY WholeText DEF ScanState
<1>2. /\ c[n] \in 0 .. Len(t) /\ c[n + 1] - 1 \in c[n] + 1 .. Len(t)
      /\ c[n + 1] \in 1 .. Len(t) + 1 /\ (n < 4 => c[n + 1] <= Len(t))
  BY CutsRange
<1>3. /\ c[n] <= k - 1 /\ k - 1 < c[n + 1]
      /\ ~s.bad /\ Len(s.bytes) = n - 1
      /\ \A m \in 1 .. n - 1 : s.bytes[m] = Number(t, c[m], c[m + 1] - 1)
      /\ s.part = Number(t, c[n], k - 1) /\ s.digits = (k - 1) - c[n]
  BY DEF Reached
<1>a. k \in Nat /\ c[n] \in Nat /\ c[n + 1] \in Nat /\ c[n] <= k - 1 /\ k - 1 < c[n + 1]
  BY <1>1, <1>2, <1>3, SMTT(30)
<1>4. CASE k < c[n + 1]
  <2>1. k \in c[n] + 1 .. c[n + 1] - 1 /\ k \in c[n] + 1 .. Len(t) /\ c[n + 1] - 1 \in k .. Len(t)
        /\ k \in c[n] .. Len(t)
    <3> DEFINE lo == c[n]
               hi == c[n + 1]
               L == Len(t)
    <3>1. /\ L \in Nat /\ k \in Nat /\ lo \in 0 .. L /\ hi - 1 \in lo + 1 .. L
          /\ lo <= k - 1 /\ k < hi /\ hi \in Nat
      BY <1>1, <1>2, <1>4, <1>a
    <3> HIDE DEF lo, hi, L
    <3>2. k \in lo + 1 .. hi - 1 /\ k \in lo + 1 .. L /\ hi - 1 \in k .. L /\ k \in lo .. L
      BY <3>1
    <3> QED BY <3>2 DEF lo, hi, L
  <2>2. t[k] \in Digit
    BY <2>1 DEF GoodCuts
  <2>3. s.part * 10 + t[k] = Number(t, c[n], k)
    BY <1>1, <1>2, <1>3, <2>1, NumberFrom
  <2>4. Number(t, c[n], k) <= 255
    <3>1. Number(t, c[n], k) <= Number(t, c[n], c[n + 1] - 1)
      BY <1>1, <1>2, <2>1, NumberGrows
    <3>2. Number(t, c[n], k) \in Nat /\ Number(t, c[n], c[n + 1] - 1) \in Nat
      <4>1. c[n + 1] - 1 \in c[n] .. Len(t)
        BY <1>2
      <4> QED BY <1>1, <1>2, <2>1, <4>1, NumberFrom
    <3>3. Number(t, c[n], c[n + 1] - 1) <= 255
      BY DEF GoodCuts
    <3> QED BY <3>1, <3>2, <3>3
  <2>5. ~r.bad /\ r.bytes = s.bytes /\ r.part = s.part * 10 + t[k] /\ r.digits = s.digits + 1
    <3>1. s.part * 10 + t[k] <= 255
      BY <2>3, <2>4
    <3> QED BY <1>1, <1>3, <2>2, <3>1, ScanClosed
  <2> HIDE DEF r
  <2>6. c[n] <= k /\ r.digits = k - c[n]
    <3>1. r.digits = ((k - 1) - c[n]) + 1
      BY <1>3, <2>5, Zenon
    <3> QED BY <1>a, <3>1
  <2>7. Reached(r, t, c, n, k)
    BY <1>3, <1>4, <2>3, <2>5, <2>6 DEF Reached
  <2> QED BY <2>7 DEF r
<1>5. CASE k = c[n + 1]
  <2>1. n \in 1 .. 3 /\ n + 1 \in 2 .. 4 /\ n + 1 \in 1 .. 4
    <3>1. n # 4
      <4>1. ASSUME n = 4 PROVE FALSE
        <5>1. c[4 + 1] = Len(t) + 1
          BY DEF GoodCuts
        <5> QED BY <1>1, <1>5, <4>1, <5>1
      <4> QED BY <4>1
    <3> QED BY <3>1
  <2>2. t[k] = Dot /\ s.digits > 0 /\ Len(s.bytes) < 3
    <3>1. t[k] = Dot
      BY <1>5, <2>1 DEF GoodCuts
    <3>2. c[n] < c[n + 1] - 1
      BY DEF GoodCuts
    <3>3. s.digits > 0
      BY <1>a, <1>3, <1>5, <3>2
    <3>4. Len(s.bytes) < 3
      BY <1>3, <2>1
    <3> QED BY <3>1, <3>3, <3>4
  <2>3. ~r.bad /\ r.bytes = Append(s.bytes, s.part) /\ r.part = 0 /\ r.digits = 0
    BY <1>1, <1>3, <2>2, ScanClosed
  <2> HIDE DEF r
  <2>4. k < c[n + 2]
    <3>1. c[n + 1] < c[(n + 1) + 1] - 1 /\ c[(n + 1) + 1] \in 1 .. Len(t) + 1
      BY <2>1, CutsRange DEF GoodCuts
    <3> QED BY <1>1, <1>5, <2>1, <3>1, SMTT(30)
  <2>5. Len(r.bytes) = n /\ \A m \in 1 .. n : r.bytes[m] = Number(t, c[m], c[m + 1] - 1)
    <3>1. s.part = Number(t, c[n], c[n + 1] - 1)
      BY <1>3, <1>5
    <3>2. Len(r.bytes) = n /\ r.bytes[n] = s.part /\ \A m \in 1 .. n - 1 : r.bytes[m] = s.bytes[m]
      BY <1>1, <1>3, <2>3
    <3>3. ASSUME NEW m \in 1 .. n PROVE r.bytes[m] = Number(t, c[m], c[m + 1] - 1)
      <4>1. m = n \/ m \in 1 .. n - 1
        BY <2>1
      <4> QED BY <1>3, <3>1, <3>2, <4>1
    <3> QED BY <3>2, <3>3
  <2>6. Number(t, k, k) = 0
    <3>1. k \in 0 .. Len(t)
      BY <1>1
    <3> QED BY <1>1, <3>1, NumberFrom
  <2>7. Reached(r, t, c, n + 1, k)
    <3> DEFINE q == n + 1
    <3>1. q - 1 = n /\ c[q] = k /\ c[q + 1] = c[n + 2] /\ k - c[q] = 0
      BY <1>a, <1>5
    <3>2. c[q] <= k /\ k < c[q + 1]
      BY <1>a, <2>4, <3>1
    <3> HIDE DEF q
    <3>3. Number(t, c[q], k) = 0
      BY <2>6, <3>1
    <3>4. Reached(r, t, c, q, k)
      BY <2>3, <2>5, <3>1, <3>2, <3>3 DEF Reached
    <3> QED BY <3>4 DEF q
  <2> QED BY <2>1, <2>7 DEF r
<1> QED BY <1>a, <1>4, <1>5

LEMMA CutsAreRead ==
  ASSUME NEW t \in Seq(Char), NEW c, GoodCuts(t, c)
  PROVE  ParseIPv4(t) = [n \in 1 .. 4 |-> Number(t, c[n], c[n + 1] - 1)]
<1> DEFINE L == Len(t)
<1>1. L \in Nat /\ t \in Seq(Nat)
  BY WholeText
<1>2. PICK v \in [0 .. L -> ScanState] :
            /\ v[0] = ScanStart
            /\ \A k \in 1 .. L : v[k] = ScanByte(v[k - 1], t[k])
            /\ ParseIPv4(t) = LET s == v[L]
                              IN  IF s.bad \/ s.digits = 0 \/ Len(s.bytes) < 3 THEN Null
                                  ELSE Append(s.bytes, s.part)
  BY QuadScan
<1> DEFINE P == {k \in 0 .. L : \E n \in 1 .. 4 : Reached(v[k], t, c, n, k)}
<1>3. 0 \in P
  <2>1. c[1] = 0 /\ c[1 + 1] \in 1 .. L + 1 /\ 0 \in 0 .. L
    BY <1>1, CutsRange, SMTT(30) DEF GoodCuts
  <2>2. Number(t, c[1], 0) = 0
    BY <1>1, <2>1, NumberFrom
  <2>3. ~v[0].bad /\ Len(v[0].bytes) = 1 - 1 /\ v[0].part = 0 /\ v[0].digits = 0 - c[1]
    BY <1>2, <2>1 DEF ScanStart
  <2>4. Reached(v[0], t, c, 1, 0)
    BY <1>1, <2>1, <2>2, <2>3 DEF Reached
  <2> QED BY <2>1, <2>4
<1>4. ASSUME NEW k \in 1 .. L, k - 1 \in P PROVE k \in P
  <2>1. PICK n \in 1 .. 4 : Reached(v[k - 1], t, c, n, k - 1)
    BY <1>4
  <2>2. v[k - 1] \in ScanState /\ v[k] = ScanByte(v[k - 1], t[k]) /\ k \in 0 .. L
    <3>1. k - 1 \in 0 .. L /\ k \in 0 .. L
      BY <1>1
    <3> HIDE DEF L
    <3> QED BY <1>2, <3>1
  <2>3. \E m \in 1 .. 4 : Reached(v[k], t, c, m, k)
    BY <2>1, <2>2, ReachedStep
  <2> QED BY <2>2, <2>3
<1> HIDE DEF P
<1>5. L \in P
  <2>1. \A k \in 0 .. L : k \in P
    BY <1>1, <1>3, <1>4, Induction
  <2> QED BY <1>1, <2>1
<1>6. PICK last \in 1 .. 4 : Reached(v[L], t, c, last, L)
  BY <1>5 DEF P
<1> DEFINE s == v[L]
<1>7. s \in ScanState
  BY <1>1, <1>2
<1> HIDE DEF s
<1>8. /\ L < c[last + 1] /\ ~s.bad /\ Len(s.bytes) = last - 1
      /\ \A m \in 1 .. last - 1 : s.bytes[m] = Number(t, c[m], c[m + 1] - 1)
      /\ s.part = Number(t, c[last], L) /\ s.digits = L - c[last]
  BY <1>6 DEF Reached, s
<1>9. last = 4
  <2>1. c[last + 1] \in 1 .. L + 1 /\ (last < 4 => c[last + 1] <= L)
    BY CutsRange
  <2> QED BY <1>1, <1>8, <2>1
<1>10. c[4] \in 0 .. L /\ c[5] = L + 1 /\ c[4] < c[5] - 1
  <2>1. c[4] \in 0 .. L /\ c[4] < c[4 + 1] - 1 /\ c[5] = L + 1
    BY CutsRange DEF GoodCuts
  <2> QED BY <2>1
<1>11. s.digits # 0 /\ Len(s.bytes) = 3 /\ s.part = Number(t, c[4], c[5] - 1)
  <2>1. s.part = Number(t, c[4], L) /\ s.digits = L - c[4] /\ Len(s.bytes) = 3
    BY <1>8, <1>9
  <2>2. c[5] - 1 = L /\ L - c[4] # 0
    BY <1>1, <1>10
  <2> QED BY <2>1, <2>2
<1>12. ParseIPv4(t) = Append(s.bytes, s.part)
  <2>1. ParseIPv4(t) = IF s.bad \/ s.digits = 0 \/ Len(s.bytes) < 3 THEN Null
                       ELSE Append(s.bytes, s.part)
    BY <1>2, Zenon DEF s
  <2>2. ~s.bad /\ ~(Len(s.bytes) < 3)
    BY <1>8, <1>11
  <2> QED BY <1>11, <2>1, <2>2, Zenon
<1>13. \A m \in 1 .. 3 : s.bytes[m] = Number(t, c[m], c[m + 1] - 1)
  BY <1>8, <1>9
<1> DEFINE a == [n \in 1 .. 4 |-> Number(t, c[n], c[n + 1] - 1)]
           b == Append(s.bytes, s.part)
<1>14. s.bytes \in Seq(Byte) /\ s.part \in Byte
  BY <1>7 DEF ScanState
<1>15. b \in Seq(Byte) /\ Len(b) = 4 /\ b[4] = s.part /\ \A m \in 1 .. 3 : b[m] = s.bytes[m]
  BY <1>11, <1>14
<1>16. b = [m \in 1 .. 4 |-> b[m]]
  BY <1>15, SMTT(30)
<1> HIDE DEF b
<1>17. \A m \in 1 .. 4 : b[m] = Number(t, c[m], c[m + 1] - 1)
  <2> TAKE m \in 1 .. 4
  <2>1. CASE m = 4
    BY <1>11, <1>15, <2>1
  <2>2. CASE m \in 1 .. 3
    BY <1>13, <1>15, <2>2
  <2> QED BY <2>1, <2>2
<1>18. b = a
  BY <1>16, <1>17
<1> QED BY <1>12, <1>18 DEF b

\* What the scan has found after k characters: the separators d up to the number
\* that it is in.
Opened(s, t, d, n, k) ==
    /\ Len(s.bytes) = n - 1
    /\ d[1] = 0 /\ d[n] <= k
    /\ \A m \in 2 .. n : d[m] \in 1 .. Len(t) /\ t[d[m]] = Dot
    /\ \A m \in 1 .. n - 1 : /\ d[m] < d[m + 1] - 1
                             /\ \A i \in d[m] + 1 .. d[m + 1] - 1 : t[i] \in Digit
                             /\ Number(t, d[m], d[m + 1] - 1) <= 255
    /\ s.digits = k - d[n] /\ s.part = Number(t, d[n], k)
    /\ \A i \in d[n] + 1 .. k : t[i] \in Digit

LEMMA OpenedStep ==
  ASSUME NEW t \in Seq(Char), NEW k \in 1 .. Len(t), NEW n \in 1 .. 4,
         NEW d \in [1 .. 4 -> 0 .. Len(t)], NEW s \in ScanState, Opened(s, t, d, n, k - 1),
         NEW r \in ScanState, r = ScanByte(s, t[k]), ~r.bad
  PROVE  \E m \in 1 .. 4, e \in [1 .. 4 -> 0 .. Len(t)] : Opened(r, t, e, m, k)
<1> DEFINE L == Len(t)
<1>1. /\ L \in Nat /\ t \in Seq(Nat) /\ t[k] \in Char /\ k \in Nat /\ d[n] \in 0 .. L
      /\ s.bytes \in Seq(Byte) /\ s.part \in Byte /\ s.digits \in Nat
  BY WholeText, SMTT(30) DEF ScanState
<1>2. /\ Len(s.bytes) = n - 1
      /\ d[1] = 0 /\ d[n] <= k - 1
      /\ \A m \in 2 .. n : d[m] \in 1 .. L /\ t[d[m]] = Dot
      /\ \A m \in 1 .. n - 1 : /\ d[m] < d[m + 1] - 1
                               /\ \A i \in d[m] + 1 .. d[m + 1] - 1 : t[i] \in Digit
                               /\ Number(t, d[m], d[m + 1] - 1) <= 255
      /\ s.digits = (k - 1) - d[n] /\ s.part = Number(t, d[n], k - 1)
      /\ \A i \in d[n] + 1 .. k - 1 : t[i] \in Digit
  BY DEF Opened
<1>a. L \in Nat /\ k \in 1 .. L /\ d[n] \in 0 .. L /\ d[n] <= k - 1
  BY <1>1, <1>2
<1>b. /\ ~s.bad /\ t[k] \in Digit /\ s.part * 10 + t[k] <= 255 =>
            ~r.bad /\ r.bytes = s.bytes /\ r.part = s.part * 10 + t[k] /\ r.digits = s.digits + 1
      /\ ~s.bad /\ t[k] = Dot /\ s.digits > 0 /\ Len(s.bytes) < 3 =>
            ~r.bad /\ r.bytes = Append(s.bytes, s.part) /\ r.part = 0 /\ r.digits = 0
  BY <1>1, ScanClosed, ZenonT(30)
<1>3. ~s.bad /\ ((t[k] \in Digit /\ s.part * 10 + t[k] <= 255) \/ (t[k] = Dot /\ s.digits > 0 /\ Len(s.bytes) < 3))
  BY <1>1, ScanClosed
<1>4. CASE t[k] \in Digit /\ s.part * 10 + t[k] <= 255
  <2>1. ~r.bad /\ r.bytes = s.bytes /\ r.part = s.part * 10 + t[k] /\ r.digits = s.digits + 1
    BY <1>3, <1>4, <1>b, Zenon
  <2>2. k \in d[n] + 1 .. L /\ d[n] <= k
    BY <1>a
  <2>3. r.part = Number(t, d[n], k)
    BY <1>1, <1>2, <2>1, <2>2, NumberFrom
  <2>4. r.digits = k - d[n]
    <3>1. r.digits = ((k - 1) - d[n]) + 1
      BY <1>2, <2>1, Zenon
    <3> QED BY <1>1, <3>1
  <2>5. ASSUME NEW i \in d[n] + 1 .. k PROVE t[i] \in Digit
    <3>1. i = k \/ i \in d[n] + 1 .. k - 1
      BY <1>1
    <3> QED BY <1>2, <1>4, <3>1
  <2>6. Opened(r, t, d, n, k)
    BY <1>2, <2>1, <2>2, <2>3, <2>4, <2>5, Zenon DEF Opened
  <2> QED BY <2>6
<1>5. CASE t[k] = Dot /\ s.digits > 0 /\ Len(s.bytes) < 3
  <2>1. ~r.bad /\ r.bytes = Append(s.bytes, s.part) /\ r.part = 0 /\ r.digits = 0
    BY <1>3, <1>5, <1>b, Zenon
  <2> DEFINE q == n + 1
             e == [d EXCEPT ![q] = k]
  <2>2. n \in 1 .. 3 /\ q \in 2 .. 4 /\ q - 1 = n /\ q \in 1 .. 4
    <3>1. n - 1 < 3
      BY <1>2, <1>5
    <3> QED BY <3>1
  <2>3. e \in [1 .. 4 -> 0 .. L] /\ e[q] = k /\ \A m \in 1 .. n : e[m] = d[m]
    BY <1>1, <2>2, SMTT(30)
  <2> HIDE DEF e, q
  <2>4. Len(r.bytes) = q - 1
    <3>1. Len(s.bytes) = n - 1 /\ s.bytes \in Seq(Byte) /\ s.part \in Byte
      BY <1>1, <1>2
    <3>2. Len(r.bytes) = (n - 1) + 1
      BY <2>1, <3>1
    <3> QED BY <2>2, <3>2
  <2>5. e[1] = 0 /\ e[q] <= k
    <3>1. 1 \in 1 .. n
      OBVIOUS
    <3> QED BY <1>1, <1>2, <2>3, <3>1
  <2>6. ASSUME NEW m \in 2 .. q PROVE e[m] \in 1 .. L /\ t[e[m]] = Dot
    <3>1. m = q \/ (m \in 2 .. n /\ m \in 1 .. n)
      BY <2>2
    <3> QED BY <1>2, <1>5, <2>3, <3>1
  <2>7. ASSUME NEW m \in 1 .. n
        PROVE  /\ e[m] < e[m + 1] - 1
               /\ \A i \in e[m] + 1 .. e[m + 1] - 1 : t[i] \in Digit
               /\ Number(t, e[m], e[m + 1] - 1) <= 255
    <3>1. CASE m = n
      <4>1. e[m] = d[n] /\ e[m + 1] = k
        BY <2>2, <2>3, <3>1
      <4>2. d[n] < k - 1
        <5>1. (k - 1) - d[n] > 0
          BY <1>2, <1>5
        <5> QED BY <1>a, <5>1
      <4>3. Number(t, d[n], k - 1) <= 255
        <5>1. s.part \in 0 .. 255
          BY <1>1 DEF Byte
        <5>2. s.part = Number(t, d[n], k - 1)
          BY <1>2
        <5> DEFINE p == s.part
        <5>3. p \in 0 .. 255
          BY <5>1
        <5> HIDE DEF p
        <5>4. p <= 255
          BY <5>3
        <5> QED BY <5>2, <5>4 DEF p
      <4> QED BY <1>2, <4>1, <4>2, <4>3
    <3>2. CASE m # n
      <4>1. m \in 1 .. n - 1 /\ m + 1 \in 1 .. n
        BY <3>2
      <4>2. e[m] = d[m] /\ e[m + 1] = d[m + 1]
        BY <2>3, <4>1
      <4> QED BY <1>2, <4>1, <4>2
    <3> QED BY <3>1, <3>2
  <2>8. r.digits = k - e[q] /\ r.part = Number(t, e[q], k) /\ \A i \in e[q] + 1 .. k : t[i] \in Digit
    <3>1. k - k = 0 /\ k \in 0 .. L /\ \A i \in k + 1 .. k : FALSE
      BY <1>1
    <3>2. Number(t, k, k) = 0
      BY <1>1, <3>1, NumberFrom
    <3> QED BY <2>1, <2>3, <3>1, <3>2
  <2>9. Opened(r, t, e, q, k)
    BY <2>2, <2>4, <2>5, <2>6, <2>7, <2>8 DEF Opened
  <2> QED BY <2>2, <2>3, <2>9
<1> QED BY <1>3, <1>4, <1>5

LEMMA CutsAreFound ==
  ASSUME NEW t \in Seq(Char), ParseIPv4(t) # Null
  PROVE  \E c \in Cuts(t) : GoodCuts(t, c)
<1> DEFINE L == Len(t)
           D == [1 .. 4 -> 0 .. L]
<1>1. L \in Nat /\ t \in Seq(Nat)
  BY WholeText
<1>2. PICK v \in [0 .. L -> ScanState] :
            /\ v[0] = ScanStart
            /\ \A k \in 1 .. L : v[k] = ScanByte(v[k - 1], t[k])
            /\ ParseIPv4(t) = LET s == v[L]
                              IN  IF s.bad \/ s.digits = 0 \/ Len(s.bytes) < 3 THEN Null
                                  ELSE Append(s.bytes, s.part)
  BY QuadScan
<1> DEFINE P == {k \in 0 .. L : v[k].bad \/ \E n \in 1 .. 4, d \in D : Opened(v[k], t, d, n, k)}
<1>3. 0 \in P
  <2> DEFINE d == [i \in 1 .. 4 |-> 0]
  <2>1. d \in D /\ 0 \in 0 .. L /\ d[1] = 0
    BY <1>1
  <2> HIDE DEF d
  <2>2. Number(t, d[1], 0) = 0
    BY <1>1, <2>1, NumberFrom
  <2>3. Len(v[0].bytes) = 1 - 1 /\ v[0].part = 0 /\ v[0].digits = 0 - d[1]
    BY <1>2, <2>1 DEF ScanStart
  <2>4. Opened(v[0], t, d, 1, 0)
    BY <2>1, <2>2, <2>3 DEF Opened
  <2> QED BY <2>1, <2>4
<1>4. ASSUME NEW k \in 1 .. L, k - 1 \in P PROVE k \in P
  <2>1. v[k - 1] \in ScanState /\ v[k] = ScanByte(v[k - 1], t[k]) /\ k \in 0 .. L /\ v[k] \in ScanState
        /\ t[k] \in Char
    <3>1. k \in 0 .. L /\ k - 1 \in 0 .. L /\ t[k] \in Char
      BY <1>1
    <3> QED BY <1>2, <3>1
  <2>2. CASE v[k].bad
    BY <2>1, <2>2
  <2>3. CASE ~v[k].bad
    <3>1. ~v[k - 1].bad
      <4>1. v[k - 1].bad => v[k].bad
        BY <2>1, ScanClosed
      <4> QED BY <2>3, <4>1
    <3>2. PICK n \in 1 .. 4, d \in D : Opened(v[k - 1], t, d, n, k - 1)
      BY <1>4, <3>1
    <3>3. \E m \in 1 .. 4, e \in [1 .. 4 -> 0 .. Len(t)] : Opened(v[k], t, e, m, k)
      BY <2>1, <2>3, <3>2, OpenedStep
    <3> QED BY <2>1, <3>3
  <2> QED BY <2>2, <2>3
<1> HIDE DEF P
<1>5. L \in P
  <2>1. \A k \in 0 .. L : k \in P
    BY <1>1, <1>3, <1>4, Induction
  <2> QED BY <1>1, <2>1
<1> DEFINE s == v[L]
<1>6. s \in ScanState
  BY <1>1, <1>2
<1>7. ParseIPv4(t) = IF s.bad \/ s.digits = 0 \/ Len(s.bytes) < 3 THEN Null ELSE Append(s.bytes, s.part)
  BY <1>2, Zenon
<1> HIDE DEF s
<1>8. ~s.bad /\ s.digits # 0 /\ ~(Len(s.bytes) < 3)
  BY <1>7
<1>9. PICK n \in 1 .. 4, d \in D : Opened(s, t, d, n, L)
  BY <1>5, <1>8 DEF P, s
<1>10. n = 4
  <2>1. Len(s.bytes) = n - 1
    BY <1>9 DEF Opened
  <2> QED BY <1>8, <2>1
<1>11. /\ d[1] = 0 /\ d[4] <= L /\ s.digits = L - d[4] /\ s.part = Number(t, d[4], L)
       /\ \A m \in 2 .. 4 : d[m] \in 1 .. L /\ t[d[m]] = Dot
       /\ \A m \in 1 .. 3 : /\ d[m] < d[m + 1] - 1
                            /\ \A i \in d[m] + 1 .. d[m + 1] - 1 : t[i] \in Digit
                            /\ Number(t, d[m], d[m + 1] - 1) <= 255
       /\ \A i \in d[4] + 1 .. L : t[i] \in Digit
  BY <1>9, <1>10 DEF Opened
<1> DEFINE c == <<0, d[2], d[3], d[4], L + 1>>
<1>12. c \in Cuts(t)
  <2> DEFINE dots == {i \in 1 .. L : t[i] = Dot}
  <2>1. d[2] \in dots /\ d[3] \in dots /\ d[4] \in dots
    BY <1>11
  <2> HIDE DEF dots
  <2>2. c \in {<<0, i, j, k, L + 1>> : i \in dots, j \in dots, k \in dots}
    BY <2>1
  <2>3. DOMAIN t = 1 .. L
    BY <1>1
  <2> QED BY <2>2, <2>3 DEF Cuts, dots
<1>13. c[1] = 0 /\ c[5] = L + 1 /\ \A m \in 1 .. 4 : c[m] = d[m]
  <2>1. c[1] = 0 /\ c[2] = d[2] /\ c[3] = d[3] /\ c[4] = d[4] /\ c[5] = L + 1 /\ d[1] = 0
    BY <1>11
  <2> HIDE DEF c
  <2>2. \A m \in 1 .. 4 : m = 1 \/ m = 2 \/ m = 3 \/ m = 4
    OBVIOUS
  <2> QED BY <2>1, <2>2
<1> HIDE DEF c
<1>14. ASSUME NEW m \in 1 .. 4
       PROVE  /\ c[m] < c[m + 1] - 1
              /\ \A i \in c[m] + 1 .. c[m + 1] - 1 : t[i] \in Digit
              /\ Number(t, c[m], c[m + 1] - 1) <= 255
  <2>1. CASE m = 4
    <3>1. c[m] = d[4] /\ c[m + 1] = L + 1 /\ c[m + 1] - 1 = L
      BY <1>1, <1>13, <2>1
    <3>2. d[4] < L
      <4>1. d[4] \in 0 .. L
        OBVIOUS
      <4>2. L - d[4] # 0
        BY <1>8, <1>11
      <4> QED BY <1>1, <4>1, <4>2
    <3>3. Number(t, d[4], L) <= 255
      <4> DEFINE p == s.part
      <4>1. p \in 0 .. 255
        BY <1>6 DEF ScanState, Byte
      <4>2. p = Number(t, d[4], L)
        BY <1>11
      <4> HIDE DEF p
      <4>3. p <= 255
        BY <4>1
      <4> QED BY <4>2, <4>3
    <3> QED BY <1>11, <3>1, <3>2, <3>3
  <2>2. CASE m # 4
    <3>1. m \in 1 .. 3 /\ m + 1 \in 1 .. 4
      BY <2>2
    <3>2. c[m] = d[m] /\ c[m + 1] = d[m + 1]
      BY <1>13, <3>1
    <3> QED BY <1>11, <3>1, <3>2
  <2> QED BY <2>1, <2>2
<1>15. ASSUME NEW m \in 2 .. 4 PROVE c[m] \in 1 .. L /\ t[c[m]] = Dot
  BY <1>11, <1>13, SMTT(30)
<1>16. GoodCuts(t, c)
  BY <1>13, <1>14, <1>15, Zenon DEF GoodCuts
<1> QED BY <1>12, <1>16

\* A node is taken for an address exactly if it is a dotted quad, and it is one of
\* a single address: leading zeros and any length are read, a part above 255, a missing
\* or a fifth part are not (w2k_s232.c:204-236).
THEOREM NodesAreRead ==
  ASSUME NEW t \in Seq(Char)
  PROVE  /\ Quads(t) = IF ParseIPv4(t) = Null THEN {} ELSE {ParseIPv4(t)}
         /\ ParseIPv4(t) # Null => ParseIPv4(t) \in Address
<1>1. ASSUME NEW a \in Quads(t) PROVE a = ParseIPv4(t) /\ a \in Address
  <2>1. PICK c \in Cuts(t) : /\ \A n \in 1 .. 4 : IsByte(Field(t, c, n))
                             /\ a = [n \in 1 .. 4 |-> Value(Field(t, c, n))]
    BY <1>1, Zenon DEF Quads
  <2>2. GoodCuts(t, c)
    BY <2>1, CutsAre
  <2>3. ParseIPv4(t) = [n \in 1 .. 4 |-> Number(t, c[n], c[n + 1] - 1)]
    BY <2>2, CutsAreRead
  <2>4. a = ParseIPv4(t)
    BY <2>1, <2>3 DEF Field, Number
  <2>5. \A n \in 1 .. 4 : Value(Field(t, c, n)) \in Byte
    BY <2>1 DEF IsByte
  <2>6. a \in Address
    BY <2>1, <2>5 DEF Address
  <2> QED BY <2>4, <2>6
<1>2. ASSUME ParseIPv4(t) # Null PROVE ParseIPv4(t) \in Quads(t)
  <2>1. PICK c \in Cuts(t) : GoodCuts(t, c)
    BY <1>2, CutsAreFound
  <2>2. \A n \in 1 .. 4 : IsByte(Field(t, c, n))
    BY <2>1, CutsAre
  <2>3. [n \in 1 .. 4 |-> Value(Field(t, c, n))] \in Quads(t)
    BY <2>2, Zenon DEF Quads
  <2> QED BY <1>1, <2>3
<1>3. Null \notin Address
  BY AddrInfoAssumption
<1> QED BY <1>1, <1>2, <1>3

(* Texts that inet_ntop writes *)

LEMMA DigitText ==
  ASSUME NEW x \in Digit, NEW y \in Digit, NEW z \in Digit
  PROVE  /\ <<x>> \in Seq(Digit) /\ Len(<<x>>) = 1 /\ Value(<<x>>) = x
         /\ <<x, y>> \in Seq(Digit) /\ Len(<<x, y>>) = 2 /\ Value(<<x, y>>) = x * 10 + y
         /\ <<x, y, z>> \in Seq(Digit) /\ Len(<<x, y, z>>) = 3 /\ Value(<<x, y, z>>) = (x * 10 + y) * 10 + z
<1>0. x \in Nat /\ y \in Nat /\ z \in Nat
  BY DEF Digit
<1>1. <<>> \in Seq(Nat) /\ Len(<<>>) = 0 /\ <<x>> \in Seq(Nat) /\ <<x, y>> \in Seq(Nat)
  BY <1>0
<1>2. Value(<<>>) = 0
  BY <1>1, ValueEmpty
<1>3. Append(<<>>, x) = <<x>> /\ Append(<<x>>, y) = <<x, y>> /\ Append(<<x, y>>, z) = <<x, y, z>>
  <2>1. ASSUME NEW u \in Seq(Nat), NEW w \in Seq(Nat), Len(u) = Len(w), \A i \in 1 .. Len(u) : u[i] = w[i]
        PROVE  u = w
    BY <2>1, SMTT(30)
  <2>2. Append(<<>>, x) = <<x>>
    <3> DEFINE u == Append(<<>>, x)
               w == <<x>>
    <3>1. u \in Seq(Nat) /\ Len(u) = 1 /\ u[1] = x /\ w \in Seq(Nat) /\ Len(w) = 1 /\ w[1] = x
      BY <1>0, <1>1
    <3> HIDE DEF u, w
    <3>2. \A i \in 1 .. Len(u) : u[i] = w[i]
      BY <3>1
    <3>3. u = w
      BY <2>1, <3>1, <3>2
    <3> QED BY <3>3 DEF u, w
  <2>3. Append(<<x>>, y) = <<x, y>>
    <3> DEFINE u == Append(<<x>>, y)
               w == <<x, y>>
    <3>1. /\ u \in Seq(Nat) /\ Len(u) = 2 /\ u[1] = x /\ u[2] = y
          /\ w \in Seq(Nat) /\ Len(w) = 2 /\ w[1] = x /\ w[2] = y
      BY <1>0, <1>1
    <3> HIDE DEF u, w
    <3>2. \A i \in 1 .. Len(u) : u[i] = w[i]
      <4>1. \A i \in 1 .. 2 : i = 1 \/ i = 2
        OBVIOUS
      <4> QED BY <3>1, <4>1
    <3>3. u = w
      BY <2>1, <3>1, <3>2
    <3> QED BY <3>3 DEF u, w
  <2>4. Append(<<x, y>>, z) = <<x, y, z>>
    <3> DEFINE u == Append(<<x, y>>, z)
               w == <<x, y, z>>
    <3>1. /\ u \in Seq(Nat) /\ Len(u) = 3 /\ u[1] = x /\ u[2] = y /\ u[3] = z
          /\ w \in Seq(Nat) /\ Len(w) = 3 /\ w[1] = x /\ w[2] = y /\ w[3] = z
      BY <1>0, <1>1
    <3> HIDE DEF u, w
    <3>2. \A i \in 1 .. Len(u) : u[i] = w[i]
      <4>1. \A i \in 1 .. 3 : i = 1 \/ i = 2 \/ i = 3
        OBVIOUS
      <4> QED BY <3>1, <4>1
    <3>3. u = w
      BY <2>1, <3>1, <3>2
    <3> QED BY <3>3 DEF u, w
  <2> QED BY <2>2, <2>3, <2>4
<1>4. Value(<<x>>) = x
  <2>1. Value(<<x>>) = Value(<<>>) * 10 + x
    BY <1>0, <1>1, <1>3, ValueAppend
  <2> QED BY <1>0, <1>2, <2>1
<1>5. Value(<<x, y>>) = x * 10 + y
  BY <1>0, <1>1, <1>3, <1>4, ValueAppend
<1>6. Value(<<x, y, z>>) = (x * 10 + y) * 10 + z
  BY <1>0, <1>1, <1>3, <1>5, ValueAppend
<1>7. /\ <<x>> \in Seq(Digit) /\ Len(<<x>>) = 1 /\ <<x, y>> \in Seq(Digit) /\ Len(<<x, y>>) = 2
      /\ <<x, y, z>> \in Seq(Digit) /\ Len(<<x, y, z>>) = 3
  OBVIOUS
<1> QED BY <1>4, <1>5, <1>6, <1>7

LEMMA DecimalByteIs ==
  ASSUME NEW v \in Byte
  PROVE  DecimalByte(v) \in Seq(Digit) /\ Len(DecimalByte(v)) \in 1 .. 3 /\ Value(DecimalByte(v)) = v
<1>0. v \in 0 .. 255
  BY DEF Byte
<1>1. CASE v >= 100
  <2> DEFINE x == v \div 100
             y == (v % 100) \div 10
             z == v % 10
  <2>1. x \in 0 .. 9 /\ y \in 0 .. 9 /\ z \in 0 .. 9 /\ (x * 10 + y) * 10 + z = v
    BY <1>0, <1>1
  <2>2. DecimalByte(v) = <<x, y, z>>
    BY <1>1 DEF DecimalByte
  <2> HIDE DEF x, y, z
  <2>3. x \in Digit /\ y \in Digit /\ z \in Digit
    BY <2>1 DEF Digit
  <2>4. <<x, y, z>> \in Seq(Digit) /\ Len(<<x, y, z>>) = 3 /\ Value(<<x, y, z>>) = (x * 10 + y) * 10 + z
    BY <2>3, DigitText, ZenonT(30)
  <2>5. 3 \in 1 .. 3
    OBVIOUS
  <2> QED BY <2>1, <2>2, <2>4, <2>5, Zenon
<1>2. CASE v < 100 /\ v >= 10
  <2> DEFINE x == v \div 10
             y == v % 10
  <2>1. x \in 0 .. 9 /\ y \in 0 .. 9 /\ x * 10 + y = v
    BY <1>0, <1>2
  <2>2. DecimalByte(v) = <<x, y>>
    BY <1>0, <1>2 DEF DecimalByte
  <2> HIDE DEF x, y
  <2>3. x \in Digit /\ y \in Digit
    BY <2>1 DEF Digit
  <2>4. <<x, y>> \in Seq(Digit) /\ Len(<<x, y>>) = 2 /\ Value(<<x, y>>) = x * 10 + y
    BY <2>3, DigitText
  <2>5. 2 \in 1 .. 3
    OBVIOUS
  <2> QED BY <2>1, <2>2, <2>4, <2>5, Zenon
<1>3. CASE v < 10
  <2>1. v \in 0 .. 9 /\ DecimalByte(v) = <<v>>
    BY <1>0, <1>3 DEF DecimalByte
  <2>2. v \in Digit
    BY <2>1 DEF Digit
  <2>3. <<v>> \in Seq(Digit) /\ Len(<<v>>) = 1 /\ Value(<<v>>) = v
    BY <2>2, DigitText
  <2>4. 1 \in 1 .. 3
    OBVIOUS
  <2> QED BY <2>1, <2>3, <2>4, Zenon
<1> QED BY <1>0, <1>1, <1>2, <1>3

\* f stands in t after position i.
Stands(t, i, f) == i + Len(f) <= Len(t) /\ \A j \in 1 .. Len(f) : t[i + j] = f[j]

LEMMA StandsConcat ==
  ASSUME NEW p \in Seq(Char), NEW q \in Seq(Char)
  PROVE  /\ p \o q \in Seq(Char) /\ Len(p \o q) = Len(p) + Len(q)
         /\ Stands(p \o q, Len(p), q)
         /\ \A i \in Nat, f \in Seq(Char) : Stands(p, i, f) => Stands(p \o q, i, f)
<1> DEFINE s == p \o q
<1>1. s \in Seq(Char) /\ Len(s) = Len(p) + Len(q) /\ Len(p) \in Nat /\ Len(q) \in Nat
  OBVIOUS
<1>2. (\A i \in 1 .. Len(p) : s[i] = p[i]) /\ \A i \in 1 .. Len(q) : s[Len(p) + i] = q[i]
  OBVIOUS
<1> HIDE DEF s
<1>3. Stands(s, Len(p), q)
  BY <1>1, <1>2 DEF Stands
<1>4. ASSUME NEW i \in Nat, NEW f \in Seq(Char), Stands(p, i, f) PROVE Stands(s, i, f)
  <2>1. Len(f) \in Nat /\ i + Len(f) <= Len(p) /\ \A j \in 1 .. Len(f) : p[i + j] = f[j]
    BY <1>4 DEF Stands
  <2>2. \A j \in 1 .. Len(f) : i + j \in 1 .. Len(p)
    BY <1>1, <2>1
  <2>3. \A j \in 1 .. Len(f) : s[i + j] = f[j]
    BY <1>2, <2>1, <2>2
  <2> QED BY <1>1, <2>1, <2>3 DEF Stands
<1> QED BY <1>1, <1>3, <1>4 DEF s

LEMMA StandingPart ==
  ASSUME NEW t \in Seq(Char), NEW i \in Nat, NEW f \in Seq(Char), Stands(t, i, f)
  PROVE  SubSeq(t, i + 1, i + Len(f)) = f
<1> DEFINE n == Len(f)
           s == SubSeq(t, i + 1, i + n)
<1>1. n \in Nat /\ Len(t) \in Nat /\ i + n <= Len(t) /\ \A j \in 1 .. n : t[i + j] = f[j]
  BY DEF Stands
<1>2. i \in 0 .. Len(t) /\ i + n \in i .. Len(t) /\ (i + n) - i = n
  BY <1>1
<1>3. s \in Seq(Char) /\ Len(s) = n /\ \A j \in 1 .. n : s[j] = t[i + j]
  BY <1>2, Part
<1>4. f \in Seq(Char) /\ Len(f) = n
  OBVIOUS
<1> HIDE DEF s, n
<1>5. s = f
  BY <1>1, <1>3, <1>4
<1> QED BY <1>5 DEF s, n

\* What inet_ntop writes is read back as the same address, and takes at most fifteen
\* characters, for every address (w2k_s232.c:204-236, 453-497).
THEOREM WrittenIsReadBack ==
  ASSUME NEW a \in Address
  PROVE  Dotted(a) \in Seq(Char) /\ Len(Dotted(a)) \in 7 .. 15 /\ ParseIPv4(Dotted(a)) = a
<1> DEFINE d == [n \in 1 .. 4 |-> DecimalByte(a[n])]
           dot == <<Dot>>
           n0 == 1
           n1 == Len(d[1])
           n2 == Len(d[2])
           n3 == Len(d[3])
           n4 == Len(d[4])
           t2 == d[1] \o dot
           t3 == t2 \o d[2]
           t4 == t3 \o dot
           t5 == t4 \o d[3]
           t6 == t5 \o dot
           t7 == t6 \o d[4]
<1>1. Dotted(a) = t7
  BY DEF Dotted
<1>2. ASSUME NEW n \in 1 .. 4
      PROVE  d[n] \in Seq(Digit) /\ d[n] \in Seq(Char) /\ Len(d[n]) \in 1 .. 3 /\ Value(d[n]) = a[n]
  <2>1. a[n] \in Byte
    BY DEF Address
  <2>2. DecimalByte(a[n]) \in Seq(Digit) /\ Len(DecimalByte(a[n])) \in 1 .. 3
        /\ Value(DecimalByte(a[n])) = a[n]
    BY <2>1, DecimalByteIs
  <2>3. d[n] = DecimalByte(a[n])
    OBVIOUS
  <2>4. d[n] \in Seq(Char)
    <3>1. Digit \subseteq Char
      BY DEF Digit, Char
    <3> HIDE DEF d
    <3> QED BY <2>2, <2>3, <3>1
  <2> QED BY <2>2, <2>3, <2>4
<1> HIDE DEF d
<1>3. dot \in Seq(Char) /\ Len(dot) = n0 /\ dot[1] = Dot /\ n0 \in Nat
  BY DEF Char, Dot
<1>b. Len(dot) = 1
  OBVIOUS
<1> HIDE DEF dot
<1>4. /\ n1 \in 1 .. 3 /\ n2 \in 1 .. 3 /\ n3 \in 1 .. 3 /\ n4 \in 1 .. 3
      /\ Len(d[1]) = n1 /\ Len(d[2]) = n2 /\ Len(d[3]) = n3 /\ Len(d[4]) = n4
      /\ d[1] \in Seq(Char) /\ d[2] \in Seq(Char) /\ d[3] \in Seq(Char) /\ d[4] \in Seq(Char)
  BY <1>2
<1> HIDE DEF n1, n2, n3, n4
<1> DEFINE p1 == n1
           p2 == n1 + 1
           p3 == n1 + n2 + 1
           p4 == n1 + n2 + 2
           p5 == n1 + n2 + n3 + 2
           p6 == n1 + n2 + n3 + 3
           p7 == n1 + n2 + n3 + n4 + 3
<1>a. /\ p1 \in Nat /\ p2 \in Nat /\ p3 \in Nat /\ p4 \in Nat /\ p5 \in Nat /\ p6 \in Nat /\ p7 \in Nat
      /\ p1 = n1 /\ p2 = p1 + n0 /\ p3 = p2 + n2 /\ p4 = p3 + n0 /\ p5 = p4 + n3 /\ p6 = p5 + n0 /\ p7 = p6 + n4
      /\ p7 \in 7 .. 15 /\ 0 \in Nat
  BY <1>4
<1>c. p2 = p1 + 1 /\ p4 = p3 + 1 /\ p6 = p5 + 1
  BY <1>a
<1> HIDE DEF n0, p1, p2, p3, p4, p5, p6, p7
<1>5. t2 \in Seq(Char) /\ Len(t2) = p2 /\ Stands(t2, p1, dot) /\ Stands(t2, 0, d[1])
  <2>1. Stands(d[1], 0, d[1])
    <3>1. Len(d[1]) \in Nat /\ 0 + Len(d[1]) <= Len(d[1]) /\ \A j \in 1 .. Len(d[1]) : 0 + j = j
      BY <1>4
    <3> QED BY <3>1 DEF Stands
  <2>2. Stands(t2, 0, d[1])
    BY <1>3, <1>4, <1>a, <2>1, StandsConcat
  <2>3. t2 \in Seq(Char) /\ Len(t2) = n1 + n0 /\ Stands(t2, n1, dot)
    BY <1>3, <1>4, StandsConcat
  <2> QED BY <1>a, <2>2, <2>3
<1> HIDE DEF t2
<1>6. /\ t3 \in Seq(Char) /\ Len(t3) = p3
      /\ Stands(t3, p1, dot)
      /\ Stands(t3, 0, d[1])
      /\ Stands(t3, p2, d[2])
  <2>1. t3 \in Seq(Char) /\ Len(t3) = p2 + n2 /\ Stands(t3, p2, d[2])
    BY <1>3, <1>4, <1>5, StandsConcat
  <2>2. \A i \in Nat, f \in Seq(Char) : Stands(t2, i, f) => Stands(t3, i, f)
    BY <1>3, <1>4, <1>5, StandsConcat
  <2> HIDE DEF t3
  <2> QED BY <1>3, <1>4, <1>a, <1>5, <2>1, <2>2
<1> HIDE DEF t3
<1>7. /\ t4 \in Seq(Char) /\ Len(t4) = p4
      /\ Stands(t4, p1, dot)
      /\ Stands(t4, 0, d[1])
      /\ Stands(t4, p2, d[2])
      /\ Stands(t4, p3, dot)
  <2>1. t4 \in Seq(Char) /\ Len(t4) = p3 + n0 /\ Stands(t4, p3, dot)
    BY <1>3, <1>4, <1>6, StandsConcat
  <2>2. \A i \in Nat, f \in Seq(Char) : Stands(t3, i, f) => Stands(t4, i, f)
    BY <1>3, <1>4, <1>6, StandsConcat
  <2> HIDE DEF t4
  <2> QED BY <1>3, <1>4, <1>a, <1>6, <2>1, <2>2
<1> HIDE DEF t4
<1>8. /\ t5 \in Seq(Char) /\ Len(t5) = p5
      /\ Stands(t5, p1, dot)
      /\ Stands(t5, 0, d[1])
      /\ Stands(t5, p2, d[2])
      /\ Stands(t5, p3, dot)
      /\ Stands(t5, p4, d[3])
  <2>1. t5 \in Seq(Char) /\ Len(t5) = p4 + n3 /\ Stands(t5, p4, d[3])
    BY <1>3, <1>4, <1>7, StandsConcat
  <2>2. \A i \in Nat, f \in Seq(Char) : Stands(t4, i, f) => Stands(t5, i, f)
    BY <1>3, <1>4, <1>7, StandsConcat
  <2> HIDE DEF t5
  <2> QED BY <1>3, <1>4, <1>a, <1>7, <2>1, <2>2
<1> HIDE DEF t5
<1>9. /\ t6 \in Seq(Char) /\ Len(t6) = p6
      /\ Stands(t6, p1, dot)
      /\ Stands(t6, 0, d[1])
      /\ Stands(t6, p2, d[2])
      /\ Stands(t6, p3, dot)
      /\ Stands(t6, p4, d[3])
      /\ Stands(t6, p5, dot)
  <2>1. t6 \in Seq(Char) /\ Len(t6) = p5 + n0 /\ Stands(t6, p5, dot)
    BY <1>3, <1>4, <1>8, StandsConcat
  <2>2. \A i \in Nat, f \in Seq(Char) : Stands(t5, i, f) => Stands(t6, i, f)
    BY <1>3, <1>4, <1>8, StandsConcat
  <2> HIDE DEF t6
  <2> QED BY <1>3, <1>4, <1>a, <1>8, <2>1, <2>2
<1> HIDE DEF t6
<1>10. /\ t7 \in Seq(Char) /\ Len(t7) = p7
      /\ Stands(t7, p1, dot)
      /\ Stands(t7, 0, d[1])
      /\ Stands(t7, p2, d[2])
      /\ Stands(t7, p3, dot)
      /\ Stands(t7, p4, d[3])
      /\ Stands(t7, p5, dot)
      /\ Stands(t7, p6, d[4])
  <2>1. t7 \in Seq(Char) /\ Len(t7) = p6 + n4 /\ Stands(t7, p6, d[4])
    BY <1>3, <1>4, <1>9, StandsConcat
  <2>2. \A i \in Nat, f \in Seq(Char) : Stands(t6, i, f) => Stands(t7, i, f)
    BY <1>3, <1>4, <1>9, StandsConcat
  <2> HIDE DEF t7
  <2> QED BY <1>3, <1>4, <1>a, <1>9, <2>1, <2>2
<1> HIDE DEF t7
<1> DEFINE c == <<0, p2, p4, p6, Len(t7) + 1>>
<1>11. c[1] = 0 /\ c[2] = p2 /\ c[3] = p4 /\ c[4] = p6 /\ c[5] = p7 + 1
  BY <1>10
<1>12. c \in Cuts(t7)
  <2> DEFINE dots == {i \in DOMAIN t7 : t7[i] = Dot}
  <2>1. ASSUME NEW p \in Nat, Stands(t7, p, dot) PROVE p + 1 \in dots
    <3>1. p + 1 <= Len(t7) /\ t7[p + 1] = Dot
      BY <1>3, <1>b, <2>1 DEF Stands
    <3>2. p + 1 \in 1 .. Len(t7) /\ DOMAIN t7 = 1 .. Len(t7)
      BY <1>10, <3>1
    <3> QED BY <3>1, <3>2
  <2>2. p2 \in dots /\ p4 \in dots /\ p6 \in dots
    BY <1>10, <1>a, <1>c, <2>1
  <2> HIDE DEF dots
  <2>3. c \in {<<0, i, j, k, Len(t7) + 1>> : i \in dots, j \in dots, k \in dots}
    BY <2>2
  <2> QED BY <2>3 DEF Cuts, dots
<1> HIDE DEF c
<1>13. ASSUME NEW n \in 1 .. 4 PROVE Field(t7, c, n) = d[n]
  <2>1. c[n] \in Nat /\ c[n + 1] - 1 = c[n] + Len(d[n]) /\ Stands(t7, c[n], d[n])
    <3>1. n = 1 \/ n = 2 \/ n = 3 \/ n = 4
      OBVIOUS
    <3>2. CASE n = 1
      <4>1. c[n] = 0 /\ c[n + 1] = p2 /\ d[n] = d[1]
        BY <1>11, <3>2
      <4>2. p2 - 1 = 0 + n1
        <5>1. p2 = n1 + 1 /\ n1 \in Nat
          BY <1>4, <1>a, <1>c
        <5> QED BY <5>1
      <4> QED BY <1>4, <1>a, <1>10, <4>1, <4>2
    <3>3. CASE n = 2
      <4>1. c[n] = p2 /\ c[n + 1] = p4 /\ d[n] = d[2]
        BY <1>11, <3>3
      <4>2. p4 - 1 = p2 + n2
        BY <1>4, <1>a, <1>c
      <4> QED BY <1>4, <1>a, <1>10, <4>1, <4>2
    <3>4. CASE n = 3
      <4>1. c[n] = p4 /\ c[n + 1] = p6 /\ d[n] = d[3]
        BY <1>11, <3>4
      <4>2. p6 - 1 = p4 + n3
        BY <1>4, <1>a, <1>c
      <4> QED BY <1>4, <1>a, <1>10, <4>1, <4>2
    <3>5. CASE n = 4
      <4>1. c[n] = p6 /\ c[n + 1] = p7 + 1 /\ d[n] = d[4]
        BY <1>11, <3>5
      <4>2. (p7 + 1) - 1 = p6 + n4
        BY <1>4, <1>a, <1>c
      <4> QED BY <1>4, <1>a, <1>10, <4>1, <4>2
    <3> QED BY <3>1, <3>2, <3>3, <3>4, <3>5
  <2>2. SubSeq(t7, c[n] + 1, c[n] + Len(d[n])) = d[n]
    BY <1>2, <1>10, <2>1, StandingPart
  <2> QED BY <2>1, <2>2 DEF Field
<1>14. ASSUME NEW n \in 1 .. 4 PROVE IsByte(d[n]) /\ Value(d[n]) = a[n]
  <2>1. d[n] \in Seq(Digit) /\ Len(d[n]) \in 1 .. 3 /\ Value(d[n]) = a[n] /\ a[n] \in Byte
    BY <1>2 DEF Address
  <2>2. ToSet(d[n]) \subseteq Digit /\ d[n] # <<>>
    BY <2>1 DEF ToSet
  <2> QED BY <2>1, <2>2 DEF IsByte
<1>15. GoodCuts(t7, c)
  BY <1>10, <1>12, <1>13, <1>14, CutsAre
<1>16. ParseIPv4(t7) = [n \in 1 .. 4 |-> Number(t7, c[n], c[n + 1] - 1)]
  BY <1>10, <1>15, CutsAreRead
<1>17. \A n \in 1 .. 4 : Number(t7, c[n], c[n + 1] - 1) = a[n]
  BY <1>13, <1>14 DEF Field, Number
<1>18. a = [n \in 1 .. 4 |-> a[n]]
  BY DEF Address
<1>19. ParseIPv4(t7) = a
  BY <1>16, <1>17, <1>18
<1>20. Len(t7) \in 7 .. 15
  BY <1>a, <1>10
<1> QED BY <1>1, <1>10, <1>19, <1>20

----------------------------------------------------------------------------
(* The list that is returned *)

LEMMA VariantsAre ==
  ASSUME NEW c
  PROVE  /\ DOMAIN Variants(c) = 1 .. Len(Variants(c)) /\ Len(Variants(c)) \in 0 .. 2
         /\ Variants(c) # <<>> => Len(Variants(c)) \in 1 .. 2
<1> DEFINE s == IF c.protocol \in {"any", "tcp"} THEN <<[type |-> "stream", protocol |-> "tcp"]>> ELSE <<>>
           d == IF c.protocol \in {"any", "udp"} THEN <<[type |-> "dgram", protocol |-> "udp"]>> ELSE <<>>
           R == {[type |-> "stream", protocol |-> "tcp"], [type |-> "dgram", protocol |-> "udp"]}
<1>1. CASE c.socktype = "any"
  <2>1. s \in Seq(R) /\ Len(s) \in 0 .. 1 /\ d \in Seq(R) /\ Len(d) \in 0 .. 1
    <3> DEFINE r1 == [type |-> "stream", protocol |-> "tcp"]
               r2 == [type |-> "dgram", protocol |-> "udp"]
    <3>1. r1 \in R /\ r2 \in R
      OBVIOUS
    <3>2. (s = <<r1>> \/ s = <<>>) /\ (d = <<r2>> \/ d = <<>>)
      OBVIOUS
    <3> HIDE DEF R, s, d, r1, r2
    <3>3. ASSUME NEW r \in R PROVE <<r>> \in Seq(R) /\ Len(<<r>>) \in 0 .. 1 /\ <<>> \in Seq(R) /\ Len(<<>>) \in 0 .. 1
      OBVIOUS
    <3>4. s \in Seq(R) /\ Len(s) \in 0 .. 1
      BY <3>1, <3>2, <3>3
    <3>5. d \in Seq(R) /\ Len(d) \in 0 .. 1
      BY <3>1, <3>2, <3>3
    <3> QED BY <3>4, <3>5
  <2>2. Variants(c) = s \o d
    BY <1>1 DEF Variants
  <2> HIDE DEF s, d, R
  <2>3. s \o d \in Seq(R) /\ Len(s \o d) = Len(s) + Len(d)
    BY <2>1
  <2>4. Variants(c) \in Seq(R) /\ Len(Variants(c)) \in 0 .. 2
    BY <2>1, <2>2, <2>3
  <2> QED BY <2>4
<1>2. CASE c.socktype # "any"
  <2>1. PICK r : Variants(c) = <<r>>
    BY <1>2, Zenon DEF Variants
  <2> QED BY <2>1
<1> QED BY <1>1, <1>2

LEMMA OkMeans ==
  ASSUME NEW c, NEW host, NEW known, Refusal(c, host, known) = "ok"
  PROVE  /\ Variants(c) # <<>>
         /\ \A i \in DOMAIN Variants(c) : ServiceOf(c, Variants(c)[i], known) # Refused
         /\ Numeric(c) = Null => "numerichost" \notin c.flags /\ host # Null /\ host # <<>>
<1> DEFINE tests == Tests(c, host, known)
           failed == {i \in DOMAIN tests : tests[i][1]}
<1>1. DOMAIN tests = 1 .. 9
  BY DEF Tests
<1>2. \A i \in 1 .. 9 : tests[i][2] # "ok"
  <2> TAKE i \in 1 .. 9
  <2>1. i = 1 \/ i = 2 \/ i = 3 \/ i = 4 \/ i = 5 \/ i = 6 \/ i = 7 \/ i = 8 \/ i = 9
    OBVIOUS
  <2>2. tests[1][2] # "ok" /\ tests[2][2] # "ok" /\ tests[3][2] # "ok"
    BY DEF Tests
  <2>3. tests[4][2] # "ok" /\ tests[5][2] # "ok" /\ tests[6][2] # "ok"
    BY DEF Tests
  <2>4. tests[7][2] # "ok" /\ tests[8][2] # "ok" /\ tests[9][2] # "ok"
    BY DEF Tests
  <2> HIDE DEF tests
  <2> QED BY <2>1, <2>2, <2>3, <2>4
<1>3. Refusal(c, host, known) = IF failed = {} THEN "ok" ELSE tests[Min(failed)][2]
  BY Zenon DEF Refusal
<1>4. failed = {}
  <2>1. SUFFICES ASSUME failed # {} PROVE FALSE
    OBVIOUS
  <2>2. failed \subseteq Nat
    BY <1>1
  <2>3. \E x \in failed : \A y \in failed : x <= y
    <3> HIDE DEF failed
    <3> QED BY <2>1, <2>2, Least
  <2>4. Min(failed) \in failed
    <3> HIDE DEF failed
    <3> QED BY <2>3 DEF Min
  <2>5. tests[Min(failed)][2] # "ok"
    BY <1>1, <1>2, <2>4
  <2> QED BY <1>3, <2>1, <2>5
<1>5. ~tests[5][1] /\ ~tests[6][1] /\ ~tests[7][1] /\ ~tests[8][1] /\ ~tests[9][1]
  BY <1>1, <1>4
<1>6. ~(Variants(c) = <<>>)
  BY <1>5 DEF Tests
<1>7. ~(\E i \in DOMAIN Variants(c) : ServiceOf(c, Variants(c)[i], known) = Refused)
  BY <1>5 DEF Tests
<1>8. ~(Numeric(c) = Null /\ "numerichost" \in c.flags)
  BY <1>5 DEF Tests
<1>9. ~(Numeric(c) = Null /\ host = Null)
  BY <1>5 DEF Tests
<1>10. ~(Numeric(c) = Null /\ host = <<>>)
  BY <1>5 DEF Tests
<1> QED BY <1>6, <1>7, <1>8, <1>9, <1>10

\* The port that a call asks for.
PortRight(c, p) ==
    /\ p <= MaxPort
    /\ p = IF c.service = Null THEN 0
           ELSE IF ToSet(c.service) \subseteq Digit /\ c.service # <<>>
                THEN Value(c.service) ELSE ServicePort

LEMMA ServiceRight ==
  ASSUME NEW c \in Calls, NEW v, NEW known \in Known(c.service), ServiceOf(c, v, known) # Refused
  PROVE  PortRight(c, ServiceOf(c, v, known))
<1> DEFINE p == ServiceOf(c, v, known)
<1>1. CASE c.service = Null
  <2>1. p = 0
    BY <1>1 DEF ServiceOf
  <2>2. 0 <= MaxPort
    BY DEF MaxPort
  <2>3. PortRight(c, 0)
    BY <1>1, <2>2 DEF PortRight
  <2> QED BY <2>1, <2>3
<1>2. CASE c.service # Null
  <2>1. c.service \in Seq(Char)
    BY <1>2, AddrInfoAssumption
  <2> DEFINE digits == c.service # <<>> /\ ToSet(c.service) \subseteq Digit
  <2>2. ParsePort(c.service) = IF digits /\ Value(c.service) <= MaxPort THEN Value(c.service) ELSE Refused
    BY <2>1, PortsAreRead, Zenon
  <2> HIDE DEF digits
  <2>3. CASE ParsePort(c.service) # Refused
    <3>1. p = ParsePort(c.service)
      BY <1>2, <2>3 DEF ServiceOf
    <3>2. digits /\ p = Value(c.service) /\ p <= MaxPort
      BY <2>2, <2>3, <3>1
    <3> HIDE DEF p
    <3>3. ToSet(c.service) \subseteq Digit /\ c.service # <<>>
      BY <3>2 DEF digits
    <3>4. PortRight(c, p)
      BY <1>2, <3>2, <3>3, Zenon DEF PortRight
    <3> QED BY <3>4 DEF p
  <2>4. CASE ParsePort(c.service) = Refused
    <3>1. known # {} /\ p = ServicePort
      BY <1>2, <2>4 DEF ServiceOf
    <3>2. Letter \in ToSet(c.service)
      BY <3>1 DEF Known
    <3>3. ~(ToSet(c.service) \subseteq Digit)
      BY <3>2 DEF Letter, Digit
    <3>4. ServicePort <= MaxPort
      BY DEF ServicePort, MaxPort
    <3>5. PortRight(c, ServicePort)
      BY <1>2, <3>3, <3>4, Zenon DEF PortRight
    <3> QED BY <3>1, <3>5
  <2> QED BY <2>3, <2>4
<1> QED BY <1>1, <1>2

Rank(i, n) == ((i - 1) \div n) + 1
Turn(i, n) == ((i - 1) % n) + 1

\* What an entry of the list must be.
EntryRight(i, entry) ==
    /\ entry.address = addrs[Rank(i, Len(ports))]
    /\ entry.kind = Variants(call)[Turn(i, Len(ports))]
    /\ entry.canonical = (i = 1 /\ "canonname" \in call.flags /\ call.node # Null)
    /\ PortRight(call, entry.port)

\* What a call that passed the tests goes on with.
AskInv ==
    pc = "append" \/ result # <<>> =>
        /\ IsSeq(addrs) /\ IsSeq(ports)
        /\ Len(ports) = Len(Variants(call)) /\ Len(ports) \in 1 .. 2
        /\ \A v \in 1 .. Len(ports) : PortRight(call, ports[v])

NodeInv ==
    pc = "append" /\ call.node # Null =>
        /\ call.node \in Seq(Char)
        /\ IF ParseIPv4(call.node) # Null THEN addrs = <<ParseIPv4(call.node)>>
           ELSE addrs \in Hosts /\ "numerichost" \notin call.flags

ListInv ==
    /\ pc = "append" =>
          /\ index \in 1 .. Len(addrs) + 1 /\ variant \in 1 .. Len(ports)
          /\ index > Len(addrs) => variant = 1
          /\ Len(list) = (index - 1) * Len(ports) + (variant - 1)
          /\ canonical = (Len(list) = 0 /\ "canonname" \in call.flags /\ call.node # Null)
          /\ \A i \in 1 .. Len(list) : EntryRight(i, list[i])
    /\ result # <<>> =>
          /\ Len(result) = Len(addrs) * Len(ports)
          /\ \A i \in 1 .. Len(result) : EntryRight(i, result[i])

TextInv ==
    text # Null =>
        \E a \in Addresses, size \in BufferSizes :
           text = [address |-> a, size |-> size, written |-> IF size < Needed(a) THEN Null ELSE Dotted(a)]

ResolverInv == HeapInv /\ AskInv /\ NodeInv /\ ListInv /\ TextInv

LEMMA Places ==
  ASSUME NEW n \in 1 .. 2, NEW x \in Nat, NEW v \in 1 .. n, NEW i \in Nat, i = x * n + v
  PROVE  Rank(i, n) = x + 1 /\ Turn(i, n) = v
<1>1. CASE n = 1
  <2>1. v = 1 /\ i = x * 1 + 1
    BY <1>1
  <2>2. (i - 1) \div 1 = x /\ (i - 1) % 1 = 0
    BY <2>1
  <2> QED BY <1>1, <2>1, <2>2 DEF Rank, Turn
<1>2. CASE n = 2
  <2>1. i = x * 2 + v /\ (v = 1 \/ v = 2)
    BY <1>2
  <2>2. (i - 1) \div 2 = x /\ (i - 1) % 2 = v - 1
    BY <2>1
  <2> QED BY <1>2, <2>1, <2>2 DEF Rank, Turn
<1> QED BY <1>1, <1>2

LEMMA Asked ==
  ASSUME ResolverInv, GetAddrInfo, pc' = "append"
  PROVE  AskInv' /\ NodeInv' /\ ListInv'
<1>1. PICK c \in Calls, host \in Hosts : \E known \in Known(c.service) :
          /\ call' = c
          /\ pc' = (IF Refusal(c, host, known) = "ok" THEN "append" ELSE "idle")
          /\ addrs' = (IF Refusal(c, host, known) # "ok" THEN <<>>
                      ELSE IF Numeric(c) # Null THEN <<Numeric(c)>> ELSE host)
          /\ ports' = (IF Refusal(c, host, known) # "ok" THEN <<>>
                      ELSE [i \in DOMAIN Variants(c) |-> ServiceOf(c, Variants(c)[i], known)])
          /\ canonical' = (Refusal(c, host, known) = "ok" /\ "canonname" \in c.flags /\ c.node # Null)
  BY DEF GetAddrInfo
<1>a. PICK known \in Known(c.service) :
          /\ call' = c
          /\ pc' = (IF Refusal(c, host, known) = "ok" THEN "append" ELSE "idle")
          /\ addrs' = (IF Refusal(c, host, known) # "ok" THEN <<>>
                      ELSE IF Numeric(c) # Null THEN <<Numeric(c)>> ELSE host)
          /\ ports' = (IF Refusal(c, host, known) # "ok" THEN <<>>
                      ELSE [i \in DOMAIN Variants(c) |-> ServiceOf(c, Variants(c)[i], known)])
          /\ canonical' = (Refusal(c, host, known) = "ok" /\ "canonname" \in c.flags /\ c.node # Null)
  BY <1>1
<1>2. Refusal(c, host, known) = "ok"
  BY <1>a
<1>3. /\ Variants(c) # <<>>
      /\ \A i \in DOMAIN Variants(c) : ServiceOf(c, Variants(c)[i], known) # Refused
      /\ Numeric(c) = Null => "numerichost" \notin c.flags /\ host # Null /\ host # <<>>
  BY <1>2, OkMeans
<1>4. index' = 1 /\ variant' = 1 /\ list' = <<>> /\ result' = <<>> /\ Len(list') = 0
  BY EmptyListIsSeq DEF GetAddrInfo, Ready, ResolverInv, HeapInv
<1>5. DOMAIN Variants(c) = 1 .. Len(Variants(c)) /\ Len(Variants(c)) \in 1 .. 2
  BY <1>3, VariantsAre
<1> DEFINE n == Len(Variants(c))
           service == [i \in 1 .. n |-> ServiceOf(c, Variants(c)[i], known)]
<1>6. ports' = service
  BY <1>a, <1>2, <1>5
<1>7. \A i \in 1 .. n : PortRight(c, service[i])
  <2> TAKE i \in 1 .. n
  <2>1. service[i] = ServiceOf(c, Variants(c)[i], known) /\ ServiceOf(c, Variants(c)[i], known) # Refused
    BY <1>3, <1>5
  <2> QED BY <2>1, ServiceRight
<1>8. IsSeq(service) /\ Len(service) = n
  <2> DEFINE S == {service[i] : i \in 1 .. n}
  <2>1. n \in Nat /\ service \in [1 .. n -> S]
    BY <1>5
  <2> HIDE DEF service, S, n
  <2>2. service \in Seq(S) /\ Len(service) = n
    BY <2>1
  <2> QED BY <2>2 DEF IsSeq
<1> HIDE DEF service
<1>9. IsSeq(addrs') /\ Len(addrs') \in Nat
  <2>1. CASE Numeric(c) # Null
    <3>1. addrs' = <<Numeric(c)>>
      BY <1>a, <1>2, <2>1
    <3> DEFINE x == Numeric(c)
    <3> HIDE DEF x
    <3>2. <<x>> \in Seq({x})
      OBVIOUS
    <3>3. IsSeq(addrs')
      BY <3>1, <3>2 DEF IsSeq, x
    <3> QED BY <3>3, LenInNat
  <2>2. CASE Numeric(c) = Null
    <3>1. addrs' = host /\ host \in Seq(Address)
      BY <1>a, <1>2, <1>3, <2>2, AddrInfoAssumption
    <3>2. IsSeq(addrs')
      BY <3>1 DEF IsSeq
    <3> QED BY <3>2, LenInNat
  <2> QED BY <2>1, <2>2
<1>10. AskInv'
  <2>1. IsSeq(addrs') /\ IsSeq(ports') /\ Len(ports') = Len(Variants(call')) /\ Len(ports') \in 1 .. 2
    BY <1>a, <1>5, <1>6, <1>8, <1>9
  <2>2. \A v \in 1 .. Len(ports') : PortRight(call', ports'[v])
    BY <1>a, <1>6, <1>7, <1>8
  <2> QED BY <2>1, <2>2 DEF AskInv
<1>11. NodeInv'
  <2> SUFFICES ASSUME c.node # Null
               PROVE  /\ c.node \in Seq(Char)
                      /\ IF ParseIPv4(c.node) # Null THEN addrs' = <<ParseIPv4(c.node)>>
                         ELSE addrs' \in Hosts /\ "numerichost" \notin c.flags
    BY <1>1 DEF NodeInv
  <2>1. c.node \in Seq(Char)
    BY AddrInfoAssumption
  <2>2. Numeric(c) = ParseIPv4(c.node)
    BY DEF Numeric
  <2>3. addrs' = IF Numeric(c) # Null THEN <<Numeric(c)>> ELSE host
    BY <1>a, <1>2
  <2> QED BY <1>3, <2>1, <2>2, <2>3
<1>12. ListInv'
  <2>1. index' \in 1 .. Len(addrs') + 1 /\ variant' \in 1 .. Len(ports') /\ variant' = 1
    BY <1>4, <1>5, <1>6, <1>8, <1>9
  <2>2. Len(list') = (index' - 1) * Len(ports') + (variant' - 1)
    <3>1. Len(ports') \in Nat /\ index' - 1 = 0 /\ variant' - 1 = 0
      BY <1>4, <1>5, <1>6, <1>8
    <3> QED BY <1>4, <3>1
  <2>3. canonical' = (Len(list') = 0 /\ "canonname" \in call'.flags /\ call'.node # Null)
    BY <1>a, <1>2, <1>4
  <2>4. \A i \in 1 .. Len(list') : FALSE
    BY <1>4
  <2> QED BY <1>4, <2>1, <2>2, <2>3, <2>4 DEF ListInv
<1> QED BY <1>10, <1>11, <1>12

LEMMA Appended ==
  ASSUME ResolverInv, AppendResult
  PROVE  AskInv' /\ NodeInv' /\ ListInv'
<1>1. /\ pc = "append" /\ index <= Len(addrs) /\ canonical' = FALSE
      /\ list' = Append(list, [address |-> addrs[index], port |-> ports[variant],
                               kind |-> Variants(call)[variant], canonical |-> canonical])
      /\ IF variant < Len(ports) THEN variant' = variant + 1 /\ index' = index
         ELSE variant' = 1 /\ index' = index + 1
      /\ UNCHANGED <<pc, call, addrs, ports, result>>
  BY DEF AppendResult
<1>2. AskInv' /\ NodeInv'
  BY <1>1 DEF ResolverInv, AskInv, NodeInv
<1> DEFINE n == Len(ports)
           e == [address |-> addrs[index], port |-> ports[variant],
                 kind |-> Variants(call)[variant], canonical |-> canonical]
           k == Len(list)
<1>3. /\ IsSeq(addrs) /\ n \in 1 .. 2 /\ \A v \in 1 .. n : PortRight(call, ports[v])
      /\ index \in 1 .. Len(addrs) + 1 /\ variant \in 1 .. n
      /\ k = (index - 1) * n + (variant - 1)
      /\ canonical = (k = 0 /\ "canonname" \in call.flags /\ call.node # Null)
      /\ \A i \in 1 .. k : EntryRight(i, list[i])
      /\ IsSeq(list) /\ result = <<>>
  BY <1>1 DEF ResolverInv, AskInv, ListInv, HeapInv
<1>4. Len(addrs) \in Nat /\ k \in Nat
  BY <1>3, LenInNat
<1>5. Len(list') = k + 1 /\ list'[k + 1] = e /\ \A i \in 1 .. k : list'[i] = list[i]
  <2>1. PICK S : list \in Seq(S)
    BY <1>3 DEF IsSeq
  <2> HIDE DEF e
  <2>2. list \in Seq(S \cup {e}) /\ e \in S \cup {e}
    BY <2>1
  <2>3. list' = Append(list, e)
    BY <1>1 DEF e
  <2> QED BY <2>2, <2>3
<1>6. Rank(k + 1, n) = index /\ Turn(k + 1, n) = variant
  <2>1. k + 1 = (index - 1) * n + variant
    <3> DEFINE x == (index - 1) * n
    <3>1. x \in Int /\ variant \in Int /\ k = x + (variant - 1)
      BY <1>3, <1>4
    <3> HIDE DEF x
    <3>2. k + 1 = x + variant
      BY <3>1
    <3> QED BY <3>2 DEF x
  <2>2. index - 1 \in Nat /\ k + 1 \in Nat /\ (index - 1) + 1 = index
    BY <1>3, <1>4
  <2> DEFINE x == index - 1
             i == k + 1
  <2>3. x \in Nat /\ i \in Nat /\ i = x * n + variant /\ x + 1 = index /\ n \in 1 .. 2
        /\ variant \in 1 .. n
    BY <1>3, <2>1, <2>2
  <2> HIDE DEF n, i, x
  <2>4. Rank(i, n) = x + 1 /\ Turn(i, n) = variant
    BY <2>3, Places
  <2> QED BY <2>3, <2>4 DEF i
<1>7. EntryRight(k + 1, e)
  <2>1. e.address = addrs[index] /\ e.kind = Variants(call)[variant] /\ e.port = ports[variant]
        /\ e.canonical = canonical
    OBVIOUS
  <2> HIDE DEF e
  <2>2. canonical = (k + 1 = 1 /\ "canonname" \in call.flags /\ call.node # Null)
    BY <1>3, <1>4, SMTT(30)
  <2>3. PortRight(call, e.port)
    BY <1>3, <2>1
  <2> QED BY <1>6, <2>1, <2>2, <2>3 DEF EntryRight
<1>8. ASSUME NEW i \in 1 .. k + 1 PROVE EntryRight(i, list'[i])
  <2>1. i \in 1 .. k \/ i = k + 1
    BY <1>4
  <2> QED BY <1>3, <1>5, <1>7, <2>1
<1>9. \A i \in 1 .. k + 1 : EntryRight(i, list[i])'
  <2>1. UNCHANGED <<call, addrs, ports>>
    BY <1>1
  <2> HIDE DEF k
  <2>2. ASSUME NEW i \in 1 .. k + 1 PROVE EntryRight(i, list[i])'
    BY <1>8, <2>1 DEF EntryRight
  <2> QED BY <2>2
<1>10. index' \in 1 .. Len(addrs) + 1 /\ variant' \in 1 .. n /\ (index' > Len(addrs) => variant' = 1)
  <2>1. CASE variant < n
    <3>1. variant' = variant + 1 /\ index' = index
      BY <1>1, <2>1
    <3>2. index \in Nat /\ variant \in Nat /\ n \in Nat
      BY <1>3, <1>4
    <3> HIDE DEF n, k, e
    <3> QED BY <1>1, <1>3, <1>4, <2>1, <3>1, <3>2
  <2>2. CASE ~(variant < n)
    <3>1. variant' = 1 /\ index' = index + 1
      BY <1>1, <2>2
    <3> HIDE DEF n, k, e
    <3> QED BY <1>1, <1>3, <1>4, <3>1
  <2> QED BY <2>1, <2>2
<1>11. k + 1 = (index' - 1) * n + (variant' - 1)
  <2>1. CASE variant < n
    <3>1. variant' = variant + 1 /\ index' = index
      BY <1>1, <2>1
    <3> DEFINE x == (index - 1) * n
    <3>2. x \in Int /\ variant \in Int /\ k = x + (variant - 1)
      BY <1>3, <1>4
    <3> HIDE DEF x, n, k
    <3>3. k + 1 = x + ((variant + 1) - 1)
      BY <3>2
    <3> QED BY <3>1, <3>3 DEF x
  <2>2. CASE variant = n
    <3>1. variant' = 1 /\ index' = index + 1
      BY <1>1, <1>3, <2>2
    <3>2. index \in Int /\ n \in 1 .. 2 /\ k = (index - 1) * n + (n - 1)
      BY <1>3, <1>4, <2>2
    <3> HIDE DEF n, k
    <3>3. n = 1 \/ n = 2
      BY <3>2
    <3>4. k + 1 = ((index + 1) - 1) * n + (1 - 1)
      <4>1. CASE n = 1
        BY <3>2, <4>1
      <4>2. CASE n = 2
        BY <3>2, <4>2
      <4> QED BY <3>3, <4>1, <4>2
    <3> QED BY <3>1, <3>4
  <2>3. variant < n \/ variant = n
    BY <1>3
  <2> QED BY <2>1, <2>2, <2>3
<1>12. canonical' = (Len(list') = 0 /\ "canonname" \in call'.flags /\ call'.node # Null)
  <2>1. Len(list') # 0
    BY <1>4, <1>5
  <2> QED BY <1>1, <2>1
<1>13. ListInv'
  <2>1. UNCHANGED <<pc, call, addrs, ports, result>> /\ Len(list') = k + 1
    BY <1>1, <1>5
  <2>2. index' \in 1 .. Len(addrs') + 1 /\ variant' \in 1 .. Len(ports')
        /\ (index' > Len(addrs') => variant' = 1)
    BY <1>10, <2>1
  <2>3. Len(list') = (index' - 1) * Len(ports') + (variant' - 1)
    BY <1>11, <2>1
  <2>4. \A i \in 1 .. Len(list') : EntryRight(i, list[i])'
    BY <1>9, <2>1
  <2>5. result' = <<>>
    BY <1>3, <2>1
  <2> QED BY <1>12, <2>2, <2>3, <2>4, <2>5 DEF ListInv
<1> QED BY <1>2, <1>13


LEMMA Returned ==
  ASSUME ResolverInv, ReturnList
  PROVE  AskInv' /\ NodeInv' /\ ListInv'
<1>1. /\ pc = "append" /\ index > Len(addrs) /\ result' = list /\ pc' = "idle"
      /\ UNCHANGED <<call, addrs, ports>>
  BY DEF ReturnList
<1>2. AskInv' /\ NodeInv'
  BY <1>1 DEF ResolverInv, AskInv, NodeInv
<1>3. /\ index \in 1 .. Len(addrs) + 1 /\ variant = 1 /\ Len(ports) \in 1 .. 2
      /\ Len(list) = (index - 1) * Len(ports) + (variant - 1)
      /\ IsSeq(addrs)
      /\ \A i \in 1 .. Len(list) : EntryRight(i, list[i])
  BY <1>1 DEF ResolverInv, AskInv, ListInv
<1>4. Len(list) = Len(addrs) * Len(ports)
  <2> DEFINE m == Len(addrs)
             x == m * Len(ports)
  <2>1. m \in Nat
    BY <1>3, LenInNat
  <2>2. index - 1 = m
    BY <1>1, <1>3, <2>1
  <2>3. x \in Int
    BY <1>3, <2>1
  <2> HIDE DEF m
  <2>4. (index - 1) * Len(ports) = x
    BY <2>2
  <2> HIDE DEF x
  <2>5. Len(list) = x + 0
    BY <1>3, <2>3, <2>4
  <2> QED BY <2>3, <2>5 DEF x, m
<1>5. \A i \in 1 .. Len(result') : EntryRight(i, result[i])'
  <2>1. ASSUME NEW i \in 1 .. Len(list) PROVE EntryRight(i, result[i])'
    BY <1>1, <1>3 DEF EntryRight
  <2> QED BY <1>1, <2>1
<1>6. ListInv'
  BY <1>1, <1>4, <1>5 DEF ListInv
<1> QED BY <1>2, <1>6

\* No call is in progress and the caller holds no chain: nothing is claimed of a list.
LEMMA NoList ==
  ASSUME pc' = "idle", result' = <<>>
  PROVE  AskInv' /\ NodeInv' /\ ListInv'
BY DEF AskInv, NodeInv, ListInv

LEMMA TextStep ==
  ASSUME ResolverInv, [Next]_vars
  PROVE  TextInv'
<1>1. CASE InetNtop
  BY <1>1 DEF InetNtop, TextInv
<1>2. CASE text' = text
  BY <1>2 DEF ResolverInv, TextInv
<1>3. CASE text' = Null
  BY <1>3 DEF TextInv
<1>4. ASSUME ~InetNtop PROVE text' = text \/ text' = Null
  BY <1>4 DEF Next, Resolver, ANext, JobQuery, Proceed, AForget, GetAddrInfo, AppendResult,
     OutOfMemory, ReturnList, FreeAddrInfo, avars, vars
<1> QED BY <1>1, <1>2, <1>3, <1>4

LEMMA ResolverStep == ResolverInv /\ [Next]_vars => ResolverInv'
<1> SUFFICES ASSUME ResolverInv, [Next]_vars PROVE ResolverInv'
  OBVIOUS
<1>1. HeapInv' /\ TextInv'
  BY HeapStep, TextStep DEF ResolverInv
<1>2. AskInv' /\ NodeInv' /\ ListInv'
  <2>1. CASE GetAddrInfo
    <3>1. CASE pc' = "append"
      BY <2>1, <3>1, Asked
    <3>2. CASE pc' # "append"
      <4>1. pc' = "idle" /\ result' = <<>>
        BY <2>1, <3>2, <1>1 DEF GetAddrInfo, Ready, ResolverInv, HeapInv
      <4> QED BY <4>1, NoList
    <3> QED BY <3>1, <3>2
  <2>2. CASE AppendResult
    BY <2>2, Appended
  <2>3. CASE OutOfMemory
    <3>1. pc' = "idle" /\ result' = <<>>
      BY <2>3 DEF OutOfMemory, ResolverInv, HeapInv
    <3> QED BY <3>1, NoList
  <2>4. CASE ReturnList
    BY <2>4, Returned
  <2>5. CASE FreeAddrInfo
    <3>1. pc' = "idle" /\ result' = <<>>
      BY <2>5 DEF FreeAddrInfo
    <3> QED BY <3>1, NoList
  <2>6. CASE InetNtop
    <3>1. pc' = "idle" /\ result' = <<>>
      BY <2>6 DEF InetNtop, Ready, ResolverInv, HeapInv
    <3> QED BY <3>1, NoList
  <2>7. CASE Proceed
    <3>1. pc' = "idle" /\ result' = <<>>
      BY <2>7 DEF Proceed, AForget
    <3> QED BY <3>1, NoList
  <2>8. CASE UNCHANGED avars
    <3>1. UNCHANGED <<pc, call, addrs, ports, index, variant, canonical, list, result>>
      BY <2>8 DEF avars, loop
    <3>2. AskInv' /\ NodeInv'
      BY <3>1 DEF ResolverInv, AskInv, NodeInv
    <3>3. ListInv'
      BY <3>1 DEF ResolverInv, ListInv, EntryRight
    <3> QED BY <3>2, <3>3
  <2> QED BY <2>1, <2>2, <2>3, <2>4, <2>5, <2>6, <2>7, <2>8
          DEF Next, Resolver, ANext, JobQuery, vars
<1> QED BY <1>1, <1>2 DEF ResolverInv

LEMMA ResolverStarts == Init => ResolverInv
<1> SUFFICES ASSUME Init PROVE ResolverInv
  OBVIOUS
<1>1. pc = "idle" /\ result = <<>> /\ list = <<>> /\ text = Null /\ blocks = 0 /\ code = "none"
  BY DEF Init, AInit
<1>2. HeapInv
  BY <1>1, EmptyListIsSeq DEF HeapInv
<1>3. AskInv /\ NodeInv /\ ListInv /\ TextInv
  BY <1>1 DEF AskInv, NodeInv, ListInv, TextInv
<1> QED BY <1>2, <1>3 DEF ResolverInv

LEMMA ListFollows == ResolverInv => ListIsComplete
<1> SUFFICES ASSUME ResolverInv, result # <<>> PROVE ListIsComplete
  BY DEF ListIsComplete
<1> DEFINE n == Len(Variants(call))
<1>1. /\ n = Len(ports) /\ n \in 1 .. 2 /\ IsSeq(addrs) /\ IsSeq(result)
      /\ Len(result) = Len(addrs) * n
      /\ \A i \in 1 .. Len(result) : EntryRight(i, result[i])
  BY DEF ResolverInv, AskInv, ListInv, HeapInv
<1>2. Len(result) = n * Len(addrs)
  <2>1. Len(addrs) \in Nat
    BY <1>1, LenInNat
  <2>2. n \in Nat
    BY <1>1
  <2> HIDE DEF n
  <2>3. Len(addrs) * n = n * Len(addrs)
    BY <2>1, <2>2
  <2> QED BY <1>1, <2>3
<1>3. DOMAIN result = 1 .. Len(result)
  BY <1>1 DEF IsSeq
<1>4. ASSUME NEW i \in DOMAIN result
      PROVE  /\ result[i].address = addrs[((i - 1) \div n) + 1]
             /\ result[i].kind = Variants(call)[((i - 1) % n) + 1]
             /\ result[i].canonical = (i = 1 /\ "canonname" \in call.flags /\ call.node # Null)
             /\ PortRight(call, result[i].port)
  <2>1. EntryRight(i, result[i])
    BY <1>1, <1>3
  <2> HIDE DEF n
  <2> QED BY <1>1, <2>1 DEF EntryRight, Rank, Turn
<1> HIDE DEF n
<1> QED BY <1>2, <1>4, Zenon DEF ListIsComplete, PortRight, n

LEMMA TextFollows == ResolverInv => TextReadsBack
<1> SUFFICES ASSUME ResolverInv PROVE TextReadsBack
  OBVIOUS
<1>1. ASSUME pc = "append", call.node # Null
      PROVE  IF Quads(call.node) # {} THEN \E a \in Quads(call.node) : addrs = <<a>>
             ELSE addrs \in Hosts /\ "numerichost" \notin call.flags
  <2> DEFINE a == ParseIPv4(call.node)
  <2>1. call.node \in Seq(Char)
        /\ IF a # Null THEN addrs = <<a>> ELSE addrs \in Hosts /\ "numerichost" \notin call.flags
    BY <1>1 DEF ResolverInv, NodeInv
  <2>2. Quads(call.node) = IF a = Null THEN {} ELSE {a}
    BY <2>1, NodesAreRead, Zenon
  <2> HIDE DEF a
  <2>3. CASE a = Null
    BY <2>1, <2>2, <2>3
  <2>4. CASE a # Null
    BY <2>1, <2>2, <2>4
  <2> QED BY <2>3, <2>4
<1>2. ASSUME text # Null
      PROVE  IF text.written = Null THEN text.size < 16
             ELSE ParseIPv4(text.written) = text.address /\ Len(text.written) < text.size
  <2>1. PICK a \in Addresses, size \in BufferSizes :
           text = [address |-> a, size |-> size, written |-> IF size < Needed(a) THEN Null ELSE Dotted(a)]
    BY <1>2 DEF ResolverInv, TextInv
  <2>2. Dotted(a) \in Seq(Char) /\ Len(Dotted(a)) \in 7 .. 15 /\ ParseIPv4(Dotted(a)) = a
    BY WrittenIsReadBack, AddrInfoAssumption, Zenon
  <2>3. size \in Nat /\ Dotted(a) # Null /\ Needed(a) = Len(Dotted(a)) + 1
    BY <2>2, AddrInfoAssumption DEF Needed
  <2>4. CASE size < Needed(a)
    <3>1. text.written = Null /\ text.size = size
      BY <2>1, <2>4
    <3>2. size < 16
      <4> DEFINE m == Len(Dotted(a))
                 need == Needed(a)
      <4>1. size \in Nat /\ m \in 7 .. 15 /\ need = m + 1 /\ size < need
        BY <2>2, <2>3, <2>4
      <4> HIDE DEF m, need
      <4> QED BY <4>1
    <3> QED BY <3>1, <3>2
  <2>5. CASE ~(size < Needed(a))
    <3>1. text.written = Dotted(a) /\ text.size = size /\ text.address = a
      BY <2>1, <2>5
    <3>2. Len(Dotted(a)) < size
      <4> DEFINE m == Len(Dotted(a))
                 need == Needed(a)
      <4>1. size \in Nat /\ m \in 7 .. 15 /\ need = m + 1 /\ ~(size < need)
        BY <2>2, <2>3, <2>5
      <4> HIDE DEF m, need
      <4>2. m < size
        BY <4>1
      <4> QED BY <4>2 DEF m
    <3> QED BY <2>2, <2>3, <3>1, <3>2
  <2> QED BY <2>4, <2>5
<1> QED BY <1>1, <1>2 DEF TextReadsBack

\* Whatever getaddrinfo is called with and whatever the name services answer, the
\* chain it returns lists every address with every variant of the hints, in order,
\* with the port that the service text means, and with the name on the first entry.
THEOREM ListIsCompleteHolds == Spec => []ListIsComplete
<1>1. Init => ResolverInv
  BY ResolverStarts
<1>2. ResolverInv /\ [Next]_vars => ResolverInv'
  BY ResolverStep
<1>3. ResolverInv => ListIsComplete
  BY ListFollows
<1> QED BY <1>1, <1>2, <1>3, PTL DEF Spec

\* A node text of any length is taken for an address exactly if it is a dotted quad,
\* and what inet_ntop writes for any address fits and is read back as that address.
THEOREM TextReadsBackHolds == Spec => []TextReadsBack
<1>1. Init => ResolverInv
  BY ResolverStarts
<1>2. ResolverInv /\ [Next]_vars => ResolverInv'
  BY ResolverStep
<1>3. ResolverInv => TextReadsBack
  BY TextFollows
<1> QED BY <1>1, <1>2, <1>3, PTL DEF Spec
============================================================================
