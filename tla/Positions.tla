----------------------------- MODULE Positions ------------------------------
(***************************************************************************)
(* Facts about going through a sequence position by position, for the      *)
(* proofs about texts: a set of positions has a least and a greatest one,  *)
(* induction over positions, and the existence of what a loop computes.    *)
(***************************************************************************)
EXTENDS Integers, Sequences, WellFoundedInduction, TLAPS

\* The least of a set of numbers.
LEMMA Least ==
  ASSUME NEW T, T \subseteq Nat, T # {}
  PROVE  \E x \in T : \A y \in T : x <= y
<1>1. IsWellFoundedOn({p \in Nat \X Nat : p[1] < p[2]}, Nat)
  BY Zenon, NatLessThanWellFounded DEF OpToRel
<1>2. PICK x \in T : \A y \in T : <<y, x>> \notin {p \in Nat \X Nat : p[1] < p[2]}
  BY <1>1, WFMin
<1>3. \A y \in T : ~(y < x)
  BY <1>2
<1> QED BY <1>3

\* The greatest of a set of numbers that are bounded.
LEMMA Greatest ==
  ASSUME NEW n \in Nat, NEW T, T \subseteq 0 .. n, T # {}
  PROVE  \E x \in T : \A y \in T : x >= y
<1> DEFINE Below == {d \in 0 .. n : n - d \in T}
<1>1. Below \subseteq Nat /\ Below # {}
  <2>1. PICK x \in T : x \in 0 .. n
    OBVIOUS
  <2>2. n - x \in 0 .. n /\ n - (n - x) = x
    BY <2>1
  <2>3. n - x \in Below
    BY <2>2
  <2>4. Below \subseteq Nat
    OBVIOUS
  <2> HIDE DEF Below
  <2> QED BY <2>3, <2>4
<1>2. PICK d \in Below : \A e \in Below : d <= e
  BY <1>1, Least
<1>3. n - d \in T /\ d \in 0 .. n
  BY <1>2
<1>4. ASSUME NEW y \in T PROVE n - d >= y
  <2>1. y \in 0 .. n /\ n - y \in 0 .. n /\ n - (n - y) = y
    OBVIOUS
  <2>2. d <= n - y
    BY <1>2, <2>1
  <2> QED BY <1>3, <2>1, <2>2
<1> QED BY <1>3, <1>4

\* What holds at 0, and at k if it holds at k - 1, holds up to n.
LEMMA Induction ==
  ASSUME NEW n \in Nat, NEW P, 0 \in P, \A k \in 1 .. n : k - 1 \in P => k \in P
  PROVE  \A k \in 0 .. n : k \in P
<1> SUFFICES ASSUME NEW k \in 0 .. n, k \notin P PROVE FALSE
  OBVIOUS
<1> DEFINE Out == {j \in 0 .. n : j \notin P}
<1>1. Out \subseteq Nat /\ Out # {}
  OBVIOUS
<1>2. PICK m \in Out : \A j \in Out : m <= j
  BY <1>1, Least
<1>3. m \in 1 .. n /\ m \notin P
  OBVIOUS
<1>4. m - 1 \in 0 .. n /\ m - 1 \notin Out
  BY <1>2, <1>3
<1> QED BY <1>3, <1>4

\* f is what a loop of n steps computes from b, its step k by g.
IsRun(f, n, b, g) == f[0] = b /\ \A k \in 1 .. n : f[k] = g[<<f[k - 1], k>>]

LEMMA Recursion ==
  ASSUME NEW n \in Nat, NEW S, NEW b \in S, NEW g \in [S \X (1 .. n) -> S]
  PROVE  \E f \in [0 .. n -> S] : IsRun(f, n, b, g)
<1> DEFINE P == {m \in 0 .. n : \E f \in [0 .. m -> S] : IsRun(f, m, b, g)}
<1>1. 0 \in P
  <2> DEFINE z == [k \in 0 .. 0 |-> b]
  <2>1. z \in [0 .. 0 -> S] /\ z[0] = b /\ \A k \in 1 .. 0 : FALSE
    OBVIOUS
  <2> HIDE DEF z
  <2>2. IsRun(z, 0, b, g) /\ 0 \in 0 .. n
    BY <2>1 DEF IsRun
  <2> QED BY <2>1, <2>2
<1>2. ASSUME NEW m \in 1 .. n, m - 1 \in P PROVE m \in P
  <2>1. PICK f \in [0 .. m - 1 -> S] : IsRun(f, m - 1, b, g)
    BY <1>2
  <2> DEFINE h == [k \in 0 .. m |-> IF k = m THEN g[<<f[m - 1], m>>] ELSE f[k]]
  <2>2. h \in [0 .. m -> S]
    OBVIOUS
  <2>3. h[0] = b
    BY <2>1 DEF IsRun
  <2>4. ASSUME NEW k \in 1 .. m PROVE h[k] = g[<<h[k - 1], k>>]
    <3>1. k - 1 \in 0 .. m /\ k - 1 # m
      OBVIOUS
    <3>2. CASE k = m
      BY <3>1, <3>2
    <3>3. CASE k # m
      <4>1. k \in 1 .. m - 1
        BY <3>3
      <4> QED BY <2>1, <3>1, <3>3, <4>1 DEF IsRun
    <3> QED BY <3>2, <3>3
  <2> HIDE DEF h
  <2>5. IsRun(h, m, b, g) /\ m \in 0 .. n
    BY <2>3, <2>4 DEF IsRun
  <2> QED BY <2>2, <2>5
<1> HIDE DEF P
<1>3. n \in P
  BY <1>1, <1>2, Induction
<1> QED BY <1>3 DEF P

\* A part of a sequence.
LEMMA Part ==
  ASSUME NEW S, NEW t \in Seq(S), NEW a \in 0 .. Len(t), NEW b \in a .. Len(t)
  PROVE  /\ SubSeq(t, a + 1, b) \in Seq(S) /\ Len(SubSeq(t, a + 1, b)) = b - a
         /\ \A i \in 1 .. b - a : SubSeq(t, a + 1, b)[i] = t[a + i]
<1>1. Len(t) \in Nat /\ a \in Nat /\ b \in Nat /\ a <= b /\ b <= Len(t)
  OBVIOUS
<1>2. \A i \in a + 1 .. b : t[i] \in S
  BY <1>1
<1> QED BY <1>1, <1>2
============================================================================
