----------------------------- MODULE VEH_proofs -----------------------------
(***************************************************************************)
(* The registrations are whole, every dispatch calls what it owes and      *)
(* nothing twice, a removed handler is entered no more, and only the one   *)
(* step that takes g_lock again can meet freed memory: for any threads,    *)
(* any registrations, and handlers that add and remove others.             *)
(*                                                                         *)
(* The first part is about lists that are given by a function; the second  *)
(* about the registrations and the walks over them.                        *)
(***************************************************************************)
EXTENDS VEH, FiniteSetTheorems, TLAPS

USE VEHAssumption
-----------------------------------------------------------------------------
(* Lists *)

IsLink(f) == \A p \in Entry : f[p] \in Node

Follows(n, f, S) == n \in S \cup {Anchor} /\ \A p \in S : f[p] \in S \cup {Anchor}

\* From is the least set of entries that holds n and follows f.
LEMMA FromIsLeast ==
  ASSUME NEW n \in Node, NEW f, IsLink(f)
  PROVE  /\ From(n, f) \subseteq Entry
         /\ Follows(n, f, From(n, f))
         /\ \A S \in SUBSET Entry : Follows(n, f, S) => From(n, f) \subseteq S
<1>1. From(n, f) \subseteq Entry
  BY DEF From
<1>2. \A S \in SUBSET Entry : Follows(n, f, S) => From(n, f) \subseteq S
  BY DEF From, Follows
<1>3. n \in From(n, f) \cup {Anchor}
  BY DEF From, Node
<1>4. ASSUME NEW p \in From(n, f) PROVE f[p] \in From(n, f) \cup {Anchor}
  <2>1. f[p] \in Node
    BY <1>1 DEF IsLink
  <2>2. ASSUME NEW S \in SUBSET Entry, Follows(n, f, S), f[p] # Anchor PROVE f[p] \in S
    BY <1>2, <2>2 DEF Follows
  <2> QED BY <2>1, <2>2 DEF From, Follows, Node
<1> QED BY <1>1, <1>2, <1>3, <1>4 DEF Follows

\* Nothing lies behind the head.
LEMMA FromAnchor == ASSUME NEW f PROVE From(Anchor, f) = {}
<1>1. {} \in SUBSET Entry /\ Anchor \in {} \cup {Anchor} /\ \A p \in {} : f[p] \in {} \cup {Anchor}
  OBVIOUS
<1>2. \A e \in From(Anchor, f) : e \in {}
  BY <1>1 DEF From
<1> QED BY <1>2

LEMMA FromStep ==
  ASSUME NEW n \in Entry, NEW f, IsLink(f)
  PROVE  From(n, f) = {n} \cup From(f[n], f)
<1>1. n \in Node /\ f[n] \in Node
  BY DEF IsLink, Node
<1> DEFINE S == {n} \cup From(f[n], f)
<1>2. S \subseteq Entry /\ Follows(n, f, S)
  BY <1>1, FromIsLeast DEF Follows
<1>3. From(n, f) \subseteq S
  BY <1>1, <1>2, FromIsLeast
<1>4. n \in From(n, f) /\ Follows(f[n], f, From(n, f)) /\ From(n, f) \subseteq Entry
  <2>1. n # Anchor
    BY DEF Node
  <2> QED BY <1>1, <2>1, FromIsLeast DEF Follows
<1>5. From(f[n], f) \subseteq From(n, f)
  BY <1>1, <1>4, FromIsLeast
<1> QED BY <1>3, <1>4, <1>5

LEMMA FromTransitive ==
  ASSUME NEW n \in Node, NEW f, IsLink(f), NEW m \in From(n, f)
  PROVE  m \in Entry /\ From(m, f) \subseteq From(n, f) /\ From(f[m], f) \subseteq From(n, f)
<1>1. m \in Entry /\ Follows(m, f, From(n, f)) /\ From(n, f) \subseteq Entry
  BY FromIsLeast DEF Follows
<1>2. From(m, f) \subseteq From(n, f)
  BY <1>1, FromIsLeast DEF Node
<1> QED BY <1>1, <1>2, FromStep

\* A node from which the links lead to the head is not met again.
LEMMA NoRing ==
  ASSUME NEW m \in Entry, NEW f, IsLink(f), NEW p \in From(m, f), f[p] = Anchor
  PROVE  m \notin From(f[m], f)
<1> SUFFICES ASSUME m \in From(f[m], f) PROVE FALSE
  OBVIOUS
<1> DEFINE B == {q \in Entry : m \in From(q, f)}
<1>1. ASSUME NEW q \in B PROVE f[q] \in B \cup {Anchor}
  <2>1. f[q] \in Node /\ m \in {q} \cup From(f[q], f)
    BY FromStep DEF IsLink
  <2>2. m \in From(f[q], f)
    BY <2>1
  <2> QED BY <2>1, <2>2 DEF Node
<1>2. m \in B
  BY FromStep
<1>3. Follows(m, f, B)
  BY <1>1, <1>2 DEF Follows
<1>4. m \in Node /\ B \in SUBSET Entry
  BY DEF Node
<1>5. From(m, f) \subseteq B
  <2> HIDE DEF B
  <2> QED BY <1>3, <1>4, FromIsLeast
<1>6. p \in Entry /\ m \in From(p, f)
  BY <1>5
<1>7. m = p
  BY <1>6, FromStep, FromAnchor
<1> QED BY <1>7, FromAnchor

\* x leaves the list behind its predecessor b; what leads to x still does.
LEMMA UnlinkNode ==
  ASSUME NEW f \in [Node -> Node], NEW x \in Entry, NEW b \in Node, f[b] = x, b # x, f[x] # x,
         NEW f2 \in [Node -> Node], f2[b] = f[x], \A p \in Node : p # b => f2[p] = f[p],
         NEW n \in Node
  PROVE  /\ IsLink(f) /\ IsLink(f2)
         /\ From(n, f2) \subseteq From(n, f)
         /\ From(n, f) \subseteq From(n, f2) \cup {x}
         /\ x \in From(n, f) \ From(n, f2) => b \in From(n, f2)
<1>1. IsLink(f) /\ IsLink(f2) /\ x \in Node /\ x # Anchor
  BY DEF IsLink, Node
<1> DEFINE L == From(n, f)
           L2 == From(n, f2)
<1>2. /\ L \subseteq Entry /\ Follows(n, f, L) /\ L2 \subseteq Entry /\ Follows(n, f2, L2)
      /\ \A S \in SUBSET Entry : Follows(n, f, S) => L \subseteq S
      /\ \A S \in SUBSET Entry : Follows(n, f2, S) => L2 \subseteq S
  BY <1>1, FromIsLeast
<1>3. f2[b] = f[x] /\ \A p \in Node : p # b => f2[p] = f[p]
  OBVIOUS
<1>4. L2 \subseteq L
  <2>1. ASSUME NEW p \in L PROVE f2[p] \in L \cup {Anchor}
    <3>1. CASE p = b
      <4>1. x \in L
        BY <1>1, <1>2, <3>1 DEF Follows
      <4> QED BY <1>2, <1>3, <3>1, <4>1 DEF Follows
    <3>2. CASE p # b
      BY <1>2, <1>3, <3>2 DEF Follows, Node
    <3> QED BY <3>1, <3>2
  <2>2. Follows(n, f2, L)
    BY <1>2, <2>1 DEF Follows
  <2> QED BY <1>2, <2>2
<1>5. L \subseteq L2 \cup (IF b \in L2 THEN {x} ELSE {})
  <2> DEFINE S == L2 \cup (IF b \in L2 THEN {x} ELSE {})
  <2>1. ASSUME NEW p \in S PROVE f[p] \in S \cup {Anchor}
    <3>1. CASE p = b
      BY <3>1
    <3>2. CASE p # b /\ p \in L2
      BY <1>2, <1>3, <3>2 DEF Follows, Node
    <3>3. CASE p \notin L2
      <4>1. p = x /\ b \in L2
        BY <3>3
      <4>2. f2[b] \in L2 \cup {Anchor}
        BY <1>2, <4>1 DEF Follows
      <4> QED BY <1>3, <4>1, <4>2
    <3> QED BY <3>1, <3>2, <3>3
  <2>2. S \in SUBSET Entry
    BY <1>2
  <2>3. Follows(n, f, S)
    <3>1. n \in S \cup {Anchor}
      BY <1>2 DEF Follows
    <3> HIDE DEF S
    <3> QED BY <2>1, <3>1 DEF Follows
  <2> QED BY <1>2, <2>2, <2>3
<1> QED BY <1>1, <1>4, <1>5

\* e joins between b and n2, of which one is the head; nothing has led to e.
LEMMA InsertNode ==
  ASSUME NEW f \in [Node -> Node], NEW e \in Entry, NEW b \in Node, NEW a \in Node,
         f[b] = a, b # e, a # e, a = Anchor \/ b = Anchor,
         \A p \in Node : f[p] = e => p = e,
         NEW f2 \in [Node -> Node],
         f2[e] = a, f2[b] = e, \A p \in Node \ {e, b} : f2[p] = f[p],
         NEW n \in Node, n # e
  PROVE  /\ IsLink(f) /\ IsLink(f2)
         /\ e \notin From(n, f)
         /\ From(n, f2) = From(n, f) \cup (IF b \in From(n, f) THEN {e} ELSE {})
<1>1. IsLink(f) /\ IsLink(f2) /\ e \in Node /\ e # Anchor
  BY DEF IsLink, Node
<1> DEFINE L == From(n, f)
           L2 == From(n, f2)
<1>2. /\ L \subseteq Entry /\ Follows(n, f, L) /\ L2 \subseteq Entry /\ Follows(n, f2, L2)
      /\ \A S \in SUBSET Entry : Follows(n, f, S) => L \subseteq S
      /\ \A S \in SUBSET Entry : Follows(n, f2, S) => L2 \subseteq S
  BY <1>1, FromIsLeast
<1>3. f2[e] = a /\ f2[b] = e /\ \A p \in Node \ {e, b} : f2[p] = f[p]
  OBVIOUS
<1>4. e \notin L
  <2>1. Follows(n, f, L \ {e})
    BY <1>1, <1>2 DEF Follows, Node
  <2> QED BY <1>2, <2>1
<1>5. L \subseteq L2
  <2>1. ASSUME NEW p \in L2 \ {e} PROVE f[p] \in (L2 \ {e}) \cup {Anchor}
    <3>1. f[p] # e /\ p \in Node
      BY <1>2 DEF Node
    <3>2. CASE p = b
      BY <1>2, <3>2 DEF Node
    <3>3. CASE p # b
      BY <1>2, <1>3, <3>1, <3>3 DEF Follows
    <3> QED BY <3>2, <3>3
  <2>2. Follows(n, f, L2 \ {e})
    BY <1>2, <2>1 DEF Follows
  <2> QED BY <1>2, <2>2
<1>6. ASSUME b \in L PROVE e \in L2
  <2>1. b \in L2
    BY <1>5, <1>6
  <2>2. f2[b] \in L2 \cup {Anchor}
    BY <1>2, <2>1 DEF Follows
  <2> QED BY <1>1, <1>3, <2>2
<1>7. L2 \subseteq L \cup (IF b \in L THEN {e} ELSE {})
  <2> DEFINE S == L \cup (IF b \in L THEN {e} ELSE {})
  <2>1. ASSUME NEW p \in S PROVE f2[p] \in S \cup {Anchor}
    <3>1. CASE p = e
      <4>1. b \in L
        BY <1>4, <3>1
      <4>2. a = Anchor
        BY <1>2, <4>1
      <4> QED BY <1>3, <3>1, <4>2
    <3>2. CASE p = b
      <4>1. b \in L
        BY <3>2
      <4> QED BY <1>3, <3>2, <4>1
    <3>3. CASE p # e /\ p # b
      <4>1. p \in L /\ p \in Node \ {e, b}
        BY <1>2, <3>3 DEF Node
      <4> QED BY <1>2, <1>3, <4>1 DEF Follows
    <3> QED BY <3>1, <3>2, <3>3
  <2>2. S \in SUBSET Entry
    BY <1>2
  <2>3. Follows(n, f2, S)
    <3>1. n \in S \cup {Anchor}
      BY <1>2 DEF Follows
    <3> HIDE DEF S
    <3> QED BY <2>1, <3>1 DEF Follows
  <2> QED BY <1>2, <2>2, <2>3
<1>8. L2 = L \cup (IF b \in L THEN {e} ELSE {})
  <2> HIDE DEF L, L2
  <2> QED BY <1>5, <1>6, <1>7
<1> QED BY <1>1, <1>3, <1>4, <1>8
-----------------------------------------------------------------------------
(* The invariant *)

Allocated == {e \in Entry : heap[e] # "none"}

\* The list closes in both directions, and an entry that was never registered is
\* nobody's successor.
RingInv ==
    /\ \A n \in Linked \cup {Anchor} :
          /\ blink[n] \in Linked \cup {Anchor}
          /\ blink[flink[n]] = n /\ flink[blink[n]] = n
    /\ \A e \in Entry \ Allocated :
          /\ refs[e] = 0 /\ ~deleted[e]
          /\ flink[e] = e /\ \A p \in Node : flink[p] = e => p = e

\* The list holds what is live; who unlinked an entry is the one to free it.
HeapInv ==
    /\ Linked = {e \in Entry : heap[e] = "live" /\ \A t \in Thread : garbage[t] # e}
    /\ \A t \in Thread : garbage[t] # None =>
          /\ heap[garbage[t]] = "live"
          /\ \A u \in Thread : garbage[u] = garbage[t] => u = t
    /\ \A e \in Allocated \ Linked : deleted[e]

Called(t) == {called[t][i] : i \in DOMAIN called[t]}

\* The entries a dispatch has still before it, also those that left the list.
Ahead(t) == From(IF pc[t] = "handler" THEN flink[cursor[t]] ELSE cursor[t], flink)

\* A dispatch has all it owes before it and all it has called behind it.
WalkSound(t) ==
    /\ pc[t] = "resume" => cursor[t] \in Allocated \cup {Anchor}
    /\ pc[t] = "idle" => owed[t] = {}
    /\ pc[t] \in {"handler", "resume"} =>
          owed[t] \subseteq Ahead(t) /\ Called(t) \cap Ahead(t) = {}
    /\ owed[t] \subseteq {e \in Linked : ~deleted[e]}
    /\ Called(t) \subseteq Allocated
    /\ IsInjective(called[t])

DispatchInv == \A t \in Thread : WalkSound(t)

VEHInv == TypeOK /\ RingInv /\ HeapInv /\ LeadsBack /\ References /\ DispatchInv
-----------------------------------------------------------------------------
(* What the invariant says of the list, and how the list changes *)

LEMMA ListFacts ==
  ASSUME TypeOK, RingInv, HeapInv, LeadsBack
  PROVE  /\ IsLink(flink) /\ Linked \subseteq Allocated /\ Anchor \notin Entry
         /\ \A n \in Linked \cup {Anchor} : flink[n] \in Linked \cup {Anchor}
         /\ \A n \in Allocated \cup {Anchor} : From(n, flink) \subseteq Allocated
         /\ \A x \in Allocated : x \notin From(flink[x], flink) /\ flink[x] # x
<1>1. IsLink(flink) /\ flink[Anchor] \in Node
  BY DEF TypeOK, IsLink, Node
<1>2. Linked \subseteq Allocated
  BY DEF HeapInv, Allocated
<1>3. Follows(flink[Anchor], flink, Linked)
  BY <1>1, FromIsLeast DEF Linked
<1>4. ASSUME NEW q \in Allocated PROVE flink[q] \in Allocated \cup {Anchor}
  <2>1. q \in Entry /\ q \in Node /\ flink[q] \in Node
    BY <1>1 DEF Allocated, IsLink, Node
  <2>2. flink[q] \notin Entry \ Allocated
    BY <2>1 DEF RingInv
  <2> QED BY <2>1, <2>2 DEF Node
<1>5. ASSUME NEW n \in Allocated \cup {Anchor} PROVE From(n, flink) \subseteq Allocated
  <2>1. n \in Node /\ Allocated \in SUBSET Entry
    BY DEF Node, Allocated
  <2>2. Follows(n, flink, Allocated)
    BY <1>4 DEF Follows
  <2> QED BY <1>1, <2>1, <2>2, FromIsLeast
<1>6. ASSUME NEW x \in Allocated PROVE x \notin From(flink[x], flink) /\ flink[x] # x
  <2>1. x \in Entry /\ \E p \in From(x, flink) : flink[p] = Anchor
    BY DEF Allocated, LeadsBack
  <2>2. x \notin From(flink[x], flink)
    BY <1>1, <2>1, NoRing
  <2>3. x \in From(x, flink)
    BY <1>1, <2>1, FromStep
  <2> QED BY <2>2, <2>3
<1> QED BY <1>1, <1>2, <1>3, <1>5, <1>6 DEF Follows

\* An entry is unlinked: the others are where they were, for every walk.
LEMMA UnlinkLists ==
  ASSUME TypeOK, RingInv, HeapInv, LeadsBack, NEW x \in Linked, Unlink(x)
  PROVE  /\ flink' \in [Node -> Node] /\ blink' \in [Node -> Node]
         /\ Linked' = Linked \ {x}
         /\ \A n \in Node : /\ From(n, flink') \subseteq From(n, flink)
                            /\ From(n, flink) \subseteq From(n, flink') \cup {x}
         /\ \A c \in Linked \ {x} :
               /\ From(flink'[c], flink') \subseteq From(flink[c], flink)
               /\ From(flink[c], flink) \subseteq From(flink'[c], flink') \cup {x}
         /\ heap' = heap /\ (\A e \in Entry \ Allocated : refs'[e] = refs[e] /\ deleted'[e] = deleted[e])
               => RingInv'
         /\ heap' = heap => LeadsBack'
<1> DEFINE b == blink[x]
           a == flink[x]
<1>1. /\ flink \in [Node -> Node] /\ blink \in [Node -> Node]
      /\ x \in Entry /\ x \in Node /\ x # Anchor /\ a \in Node /\ b \in Node
      /\ x \in Allocated
  BY ListFacts DEF TypeOK, Node, Allocated
<1>2. /\ flink[b] = x /\ blink[a] = x /\ a # x /\ b # x
      /\ a \in Linked \cup {Anchor} /\ b \in Linked \cup {Anchor}
  <2>1. flink[b] = x /\ blink[a] = x /\ b \in Linked \cup {Anchor}
    BY DEF RingInv
  <2>2. a # x /\ a \in Linked \cup {Anchor}
    BY <1>1, ListFacts
  <2> QED BY <2>1, <2>2
<1>3. flink' = [flink EXCEPT ![b] = a] /\ blink' = [blink EXCEPT ![a] = b]
  BY DEF Unlink
<1>4. /\ flink' \in [Node -> Node] /\ IsLink(flink) /\ IsLink(flink')
      /\ \A n \in Node : /\ From(n, flink') \subseteq From(n, flink)
                         /\ From(n, flink) \subseteq From(n, flink') \cup {x}
                         /\ x \in From(n, flink) \ From(n, flink') => b \in From(n, flink')
  <2>1. /\ b # x /\ flink[b] = x /\ flink[x] # x /\ flink'[b] = flink[x]
        /\ flink \in [Node -> Node] /\ flink' \in [Node -> Node]
        /\ b \in Node /\ x \in Entry
        /\ \A p \in Node : p # b => flink'[p] = flink[p]
    BY <1>1, <1>2, <1>3
  <2> HIDE DEF b, a
  <2>2. ASSUME NEW n \in Node, NEW f2, f2 = flink', NEW c, c = b
        PROVE  /\ IsLink(flink) /\ IsLink(f2)
               /\ From(n, f2) \subseteq From(n, flink)
               /\ From(n, flink) \subseteq From(n, f2) \cup {x}
               /\ x \in From(n, flink) \ From(n, f2) => c \in From(n, f2)
    BY <2>1, <2>2, UnlinkNode
  <2> QED BY <1>1, <2>1, <2>2
<1>5. blink' \in [Node -> Node]
  BY <1>1, <1>3
<1>6. /\ flink'[b] = a /\ \A p \in Node : p # b => flink'[p] = flink[p]
      /\ blink'[a] = b /\ \A p \in Node : p # a => blink'[p] = blink[p]
  BY <1>1, <1>3
<1>7. /\ Linked \cup {Anchor} \subseteq Node
      /\ \A n \in Linked \cup {Anchor} :
            /\ flink[n] \in Linked \cup {Anchor} /\ blink[n] \in Linked \cup {Anchor}
            /\ blink[flink[n]] = n /\ flink[blink[n]] = n
  BY ListFacts DEF RingInv, Allocated, Node
<1> HIDE DEF a, b
<1>8. Linked' = Linked \ {x}
  <2>1. Linked' \subseteq Linked \ {x}
    <3>1. ASSUME NEW p \in (Linked \ {x}) \cup {Anchor}
          PROVE  flink'[p] \in (Linked \ {x}) \cup {Anchor}
      BY <1>1, <1>2, <1>6, <1>7
    <3>2. Follows(flink'[Anchor], flink', Linked \ {x})
      BY <3>1 DEF Follows
    <3>3. Linked \ {x} \in SUBSET Entry /\ flink'[Anchor] \in Node
      BY <1>4, <1>7, ListFacts DEF Allocated, Node
    <3> QED BY <1>4, <3>2, <3>3, FromIsLeast DEF Linked
  <2>2. Linked \subseteq Linked' \cup {x}
    <3>1. CASE b = Anchor
      <4>1. Linked = {x} \cup From(a, flink)
        BY <1>1, <1>2, <1>4, <3>1, FromStep DEF Linked, a
      <4>2. Linked' = From(a, flink')
        BY <1>6, <3>1 DEF Linked
      <4> QED BY <1>1, <1>4, <4>1, <4>2
    <3>2. CASE b # Anchor
      <4>1. Linked' = From(flink[Anchor], flink') /\ flink[Anchor] \in Node
        BY <1>1, <1>6, <3>2 DEF Linked, Node
      <4> QED BY <1>4, <4>1 DEF Linked
    <3> QED BY <3>1, <3>2
  <2> QED BY <2>1, <2>2
<1>9. ASSUME NEW c \in Linked \ {x}
      PROVE  /\ From(flink'[c], flink') \subseteq From(flink[c], flink)
             /\ From(flink[c], flink) \subseteq From(flink'[c], flink') \cup {x}
  <2>1. c \in Node
    BY <1>7
  <2>2. CASE c = b
    <3>1. flink[c] = x /\ flink'[c] = a
      BY <1>2, <1>6, <2>2
    <3>2. From(x, flink) = {x} \cup From(a, flink)
      BY <1>1, <1>4, FromStep DEF a
    <3> QED BY <1>1, <1>4, <3>1, <3>2
  <2>3. CASE c # b
    <3>1. flink'[c] = flink[c] /\ flink[c] \in Node
      BY <1>1, <1>6, <2>1, <2>3
    <3> QED BY <1>4, <3>1
  <2> QED BY <2>2, <2>3
<1>10. ASSUME heap' = heap,
              \A e \in Entry \ Allocated : refs'[e] = refs[e] /\ deleted'[e] = deleted[e]
       PROVE  RingInv'
  <2>1. Allocated' = Allocated
    BY <1>10 DEF Allocated
  <2>2. ASSUME NEW n \in Linked' \cup {Anchor}
        PROVE  /\ blink'[n] \in Linked' \cup {Anchor}
               /\ blink'[flink'[n]] = n /\ flink'[blink'[n]] = n
    <3>1. n \in Linked \cup {Anchor} /\ n # x /\ n \in Node
      BY <1>1, <1>7, <1>8
    <3>2. blink'[n] \in Linked' \cup {Anchor}
      BY <1>2, <1>6, <1>7, <1>8, <3>1
    <3>3. blink'[flink'[n]] = n
      BY <1>2, <1>6, <1>7, <3>1
    <3>4. flink'[blink'[n]] = n
      BY <1>2, <1>6, <1>7, <3>1
    <3> QED BY <3>2, <3>3, <3>4
  <2>3. ASSUME NEW e \in Entry \ Allocated
        PROVE  /\ refs'[e] = 0 /\ ~deleted'[e]
               /\ flink'[e] = e /\ \A p \in Node : flink'[p] = e => p = e
    <3>1. /\ refs[e] = 0 /\ ~deleted[e]
          /\ flink[e] = e /\ \A p \in Node : flink[p] = e => p = e
      BY DEF RingInv
    <3>2. e # b /\ e # a /\ e \in Node
      <4>1. Anchor \notin Entry /\ Linked \subseteq Allocated
        BY ListFacts
      <4> QED BY <1>2, <4>1 DEF Node
    <3>3. flink'[e] = e /\ \A p \in Node : flink'[p] = e => p = e
      BY <1>6, <3>1, <3>2
    <3> QED BY <1>10, <3>1, <3>3
  <2> QED BY <2>1, <2>2, <2>3 DEF RingInv
<1>11. ASSUME heap' = heap PROVE LeadsBack'
  <2> SUFFICES ASSUME NEW e \in Entry, heap[e] # "none"
               PROVE  \E p \in From(e, flink') : flink'[p] = Anchor
    BY <1>11 DEF LeadsBack
  <2>1. PICK p \in From(e, flink) : flink[p] = Anchor
    BY DEF LeadsBack
  <2>2. e \in Node /\ p \in Entry /\ p \in Node /\ p # b
    <3>1. e \in Node /\ p \in Entry
      BY <1>4, FromIsLeast DEF Node
    <3> QED BY <1>1, <1>2, <2>1, <3>1 DEF Node
  <2>3. CASE p \in From(e, flink')
    BY <1>6, <2>1, <2>2, <2>3
  <2>4. CASE p \notin From(e, flink')
    <3>1. p = x /\ b \in From(e, flink')
      BY <1>4, <2>2, <2>4
    <3>2. flink'[b] = Anchor
      BY <1>6, <2>1, <3>1 DEF a
    <3> QED BY <3>1, <3>2
  <2> QED BY <2>3, <2>4
<1> QED BY <1>4, <1>5, <1>8, <1>9, <1>10, <1>11

\* A new entry joins at either end: a walk meets it, if at all, besides what it met.
LEMMA InsertLists ==
  ASSUME TypeOK, RingInv, HeapInv, LeadsBack, NEW e \in Entry \ Allocated, NEW first \in BOOLEAN,
         InsertBefore(e, IF first THEN flink[Anchor] ELSE Anchor),
         Allocated' = Allocated \cup {e},
         \A x \in Entry \ {e} : refs'[x] = refs[x] /\ deleted'[x] = deleted[x] /\ heap'[x] = heap[x]
  PROVE  /\ flink' \in [Node -> Node] /\ blink' \in [Node -> Node]
         /\ Linked' = Linked \cup {e}
         /\ \A n \in Allocated \cup {Anchor} :
               /\ From(n, flink) \subseteq From(n, flink')
               /\ From(n, flink') \subseteq From(n, flink) \cup {e}
         /\ \A c \in Linked :
               /\ From(flink[c], flink) \subseteq From(flink'[c], flink')
               /\ From(flink'[c], flink') \subseteq From(flink[c], flink) \cup {e}
         /\ RingInv' /\ LeadsBack'
<1> DEFINE a == IF first THEN flink[Anchor] ELSE Anchor
           b == blink[a]
<1>1. /\ flink \in [Node -> Node] /\ blink \in [Node -> Node]
      /\ e \in Entry /\ e \in Node /\ e # Anchor /\ Anchor \in Node /\ Anchor \notin Entry
      /\ Linked \subseteq Allocated /\ Linked \cup {Anchor} \subseteq Node
      /\ Allocated \subseteq Entry /\ IsLink(flink)
  BY ListFacts DEF TypeOK, Node, Allocated
<1>2. \A n \in Linked \cup {Anchor} :
         /\ flink[n] \in Linked \cup {Anchor} /\ blink[n] \in Linked \cup {Anchor}
         /\ blink[flink[n]] = n /\ flink[blink[n]] = n
  BY ListFacts DEF RingInv
<1>3. /\ a \in Linked \cup {Anchor} /\ b \in Linked \cup {Anchor}
      /\ flink[b] = a /\ b # e /\ a # e /\ (a = Anchor \/ b = Anchor)
      /\ a \in Node /\ b \in Node
  <2>1. a \in Linked \cup {Anchor} /\ (a = Anchor \/ b = Anchor)
    BY <1>2
  <2> HIDE DEF a
  <2> QED BY <1>1, <1>2, <2>1
<1>4. /\ flink' = [flink EXCEPT ![e] = a, ![b] = e]
      /\ blink' = [blink EXCEPT ![e] = b, ![a] = e]
  BY DEF InsertBefore
<1>5. \A p \in Node : flink[p] = e => p = e
  BY DEF RingInv
<1> HIDE DEF a, b
<1>6. /\ flink' \in [Node -> Node] /\ flink'[e] = a /\ flink'[b] = e
      /\ \A p \in Node \ {e, b} : flink'[p] = flink[p]
      /\ blink' \in [Node -> Node] /\ blink'[e] = b /\ blink'[a] = e
      /\ \A p \in Node \ {e, a} : blink'[p] = blink[p]
  BY <1>1, <1>3, <1>4
<1>7. ASSUME NEW n \in Node, n # e
      PROVE  /\ IsLink(flink')
             /\ From(n, flink') = From(n, flink) \cup (IF b \in From(n, flink) THEN {e} ELSE {})
  <2>1. ASSUME NEW f2, f2 = flink', NEW c, c = b, NEW d, d = a
        PROVE  IsLink(f2) /\ From(n, f2) = From(n, flink) \cup (IF c \in From(n, flink) THEN {e} ELSE {})
    <3>1. /\ flink \in [Node -> Node] /\ c \in Node /\ d \in Node
          /\ flink[c] = d /\ c # e /\ d # e /\ (d = Anchor \/ c = Anchor)
          /\ \A p \in Node : flink[p] = e => p = e
      BY <1>1, <1>3, <1>5, <2>1
    <3>2. /\ f2 \in [Node -> Node] /\ f2[e] = d /\ f2[c] = e
          /\ \A p \in Node \ {e, c} : f2[p] = flink[p]
      BY <1>6, <2>1
    <3> QED BY <1>1, <1>7, <3>1, <3>2, InsertNode
  <2> QED BY <2>1
<1>8. IsLink(flink')
  BY <1>1, <1>7
<1>9. From(e, flink') = {e} \cup From(a, flink')
  BY <1>6, <1>8, FromStep
<1>10. ASSUME NEW n \in Allocated \cup {Anchor}
       PROVE  /\ From(n, flink) \subseteq From(n, flink')
              /\ From(n, flink') \subseteq From(n, flink) \cup {e}
  BY <1>1, <1>7 DEF Node
<1>11. ASSUME NEW c \in Linked
       PROVE  /\ From(flink[c], flink) \subseteq From(flink'[c], flink')
              /\ From(flink'[c], flink') \subseteq From(flink[c], flink) \cup {e}
  <2>1. CASE c = b
    <3>1. a = Anchor
      BY <1>1, <1>3, <2>1
    <3>2. From(flink[c], flink) = {} /\ From(flink'[c], flink') = {e}
      BY <1>3, <1>6, <1>9, <2>1, <3>1, FromAnchor
    <3> QED BY <3>2
  <2>2. CASE c # b
    <3>1. flink'[c] = flink[c] /\ flink[c] \in Allocated \cup {Anchor}
      BY <1>1, <1>2, <1>6, <2>2
    <3> QED BY <1>10, <3>1
  <2> QED BY <2>1, <2>2
<1>12. Linked' = Linked \cup {e}
  <2>1. CASE b = Anchor
    <3>1. Linked' = {e} \cup From(a, flink')
      BY <1>6, <1>9, <2>1 DEF Linked
    <3>2. From(a, flink) = Linked /\ Anchor \notin From(a, flink)
      BY <1>1, <1>3, <2>1 DEF Linked
    <3> QED BY <1>3, <1>7, <2>1, <3>1, <3>2
  <2>2. CASE b # Anchor
    <3>1. flink'[Anchor] = flink[Anchor] /\ flink[Anchor] # e /\ flink[Anchor] \in Node
      BY <1>1, <1>2, <1>6, <2>2
    <3>2. b \in Linked
      BY <1>3, <2>2
    <3> QED BY <1>7, <3>1, <3>2 DEF Linked
  <2> QED BY <2>1, <2>2
<1>13. RingInv'
  <2>1. ASSUME NEW n \in Linked' \cup {Anchor}
        PROVE  /\ blink'[n] \in Linked' \cup {Anchor}
               /\ blink'[flink'[n]] = n /\ flink'[blink'[n]] = n
    <3>1. n \in Linked \cup {Anchor} \/ n = e
      BY <1>12
    <3>2. CASE n = e
      BY <1>3, <1>6, <1>12, <3>2
    <3>3. CASE n \in Linked \cup {Anchor}
      <4>1. n \in Node /\ n # e
        BY <1>1, <3>3
      <4>2. blink'[n] \in Linked' \cup {Anchor} /\ flink'[blink'[n]] = n
        <5>1. CASE n = a
          BY <1>6, <1>12, <5>1
        <5>2. CASE n # a
          BY <1>1, <1>2, <1>3, <1>6, <1>12, <3>3, <4>1, <5>2
        <5> QED BY <5>1, <5>2
      <4>3. blink'[flink'[n]] = n
        <5>1. CASE n = b
          BY <1>6, <5>1
        <5>2. CASE n # b
          <6>1. flink'[n] = flink[n] /\ flink[n] \in Linked \cup {Anchor} /\ blink[flink[n]] = n
            BY <1>2, <1>6, <3>3, <4>1, <5>2
          <6>2. flink[n] # a /\ flink[n] \in Node \ {e, a}
            BY <1>1, <5>2, <6>1 DEF b
          <6> QED BY <1>6, <6>1, <6>2
        <5> QED BY <5>1, <5>2
      <4> QED BY <4>2, <4>3
    <3> QED BY <3>1, <3>2, <3>3
  <2>2. ASSUME NEW x \in Entry \ Allocated'
        PROVE  /\ refs'[x] = 0 /\ ~deleted'[x]
               /\ flink'[x] = x /\ \A p \in Node : flink'[p] = x => p = x
    <3>1. x \in Entry \ Allocated /\ x # e
      OBVIOUS
    <3>2. /\ refs[x] = 0 /\ ~deleted[x]
          /\ flink[x] = x /\ \A p \in Node : flink[p] = x => p = x
      BY <3>1 DEF RingInv
    <3>3. x # b /\ x # a /\ x \in Node
      BY <1>1, <1>3, <3>1 DEF Node
    <3>4. flink'[x] = x /\ \A p \in Node : flink'[p] = x => p = x
      BY <1>6, <3>1, <3>2, <3>3
    <3> QED BY <3>1, <3>2, <3>4
  <2> QED BY <2>1, <2>2 DEF RingInv
<1>14. LeadsBack'
  <2>1. ASSUME NEW x \in Allocated
        PROVE  \E p \in From(x, flink') : flink'[p] = Anchor
    <3>1. x \in Node /\ x # e
      BY <1>1 DEF Node
    <3>2. PICK p \in From(x, flink) : flink[p] = Anchor
      BY DEF LeadsBack, Allocated
    <3>3. p \in Node /\ p # e
      <4>1. From(x, flink) \subseteq Entry
        BY <1>1, <3>1, FromIsLeast
      <4>2. From(x, flink) \subseteq Allocated
        BY ListFacts
      <4> QED BY <4>1, <4>2 DEF Node
    <3>4. CASE p = b
      <4>1. e \in From(x, flink') /\ flink'[e] = Anchor
        BY <1>3, <1>6, <1>7, <3>1, <3>2, <3>4
      <4> QED BY <4>1
    <3>5. CASE p # b
      BY <1>6, <1>7, <3>1, <3>2, <3>3, <3>5
    <3> QED BY <3>4, <3>5
  <2>2. \E p \in From(e, flink') : flink'[p] = Anchor
    <3>1. CASE a = Anchor
      BY <1>6, <1>9, <3>1
    <3>2. CASE a # Anchor
      <4>1. a \in Allocated
        BY <1>1, <1>3, <3>2
      <4> QED BY <1>9, <2>1, <4>1
    <3> QED BY <3>1, <3>2
  <2>3. \A x \in Entry : heap'[x] # "none" => x \in Allocated \/ x = e
    BY DEF Allocated
  <2> QED BY <2>1, <2>2, <2>3 DEF LeadsBack
<1> QED BY <1>6, <1>10, <1>11, <1>12, <1>13, <1>14
-----------------------------------------------------------------------------
(* The walk *)

\* The walk stops at an entry it may not pass over, if there is one before it, and
\* passes over all that lie between.
LEMMA WalkStops ==
  ASSUME IsLink(flink), NEW n \in Node, NEW m, m = FirstLive(n)
  PROVE  /\ m \in From(n, flink) \cup {Anchor}
         /\ m # Anchor => ~Passed(m)
         /\ \A e \in From(n, flink) : Passed(e) \/ (m # Anchor /\ e \in {m} \cup From(flink[m], flink))
<1> DEFINE P == [p \in Entry |-> IF Passed(p) THEN flink[p] ELSE Anchor]
           W == From(n, P)
           stops == {e \in W : ~Passed(e)}
           L == From(n, flink)
<1>1. \A p \in Entry : (Passed(p) => P[p] = flink[p]) /\ (~Passed(p) => P[p] = Anchor)
  OBVIOUS
<1>2. IsLink(P)
  BY <1>1 DEF IsLink, Node
<1> HIDE DEF P
<1>3. /\ L \subseteq Entry /\ Follows(n, flink, L)
      /\ \A S \in SUBSET Entry : Follows(n, flink, S) => L \subseteq S
      /\ W \subseteq Entry /\ Follows(n, P, W)
      /\ \A S \in SUBSET Entry : Follows(n, P, S) => W \subseteq S
  BY <1>2, FromIsLeast
<1>4. W \subseteq L
  <2>1. Follows(n, P, L)
    BY <1>1, <1>3 DEF Follows
  <2> QED BY <1>3, <2>1
<1>5. m = IF stops = {} THEN Anchor ELSE CHOOSE e \in stops : TRUE
  BY DEF FirstLive, P
<1>6. CASE stops = {}
  <2>1. Follows(n, flink, W)
    BY <1>1, <1>3, <1>6 DEF Follows
  <2>2. L \subseteq W
    BY <1>3, <2>1
  <2>3. m = Anchor /\ \A e \in W : Passed(e)
    BY <1>5, <1>6
  <2> QED BY <2>2, <2>3
<1>7. CASE stops # {}
  <2>1. m \in W /\ ~Passed(m) /\ m \in Entry
    <3>1. m = CHOOSE e \in stops : TRUE
      BY <1>5, <1>7
    <3>2. m \in stops
      BY <1>7, <3>1
    <3> QED BY <1>3, <3>2
  <2> HIDE DEF stops
  <2>2. \A q \in W : m \in From(q, P)
    <3> DEFINE A == {q \in W : m \in From(q, P)}
    <3>1. ASSUME NEW q \in A PROVE P[q] \in A \cup {Anchor}
      <4>1. q \in Entry /\ P[q] \in W \cup {Anchor}
        BY <1>3 DEF Follows
      <4>2. m \in {q} \cup From(P[q], P)
        BY <1>2, <4>1, FromStep
      <4>3. CASE q = m
        BY <1>1, <2>1, <4>3
      <4>4. CASE q # m
        BY <4>1, <4>2, <4>4
      <4> QED BY <4>3, <4>4
    <3>2. n \in A \cup {Anchor}
      BY <1>3, <2>1 DEF Follows
    <3>3. A \in SUBSET Entry
      BY <1>3
    <3>4. Follows(n, P, A)
      BY <3>1, <3>2 DEF Follows
    <3>5. W \subseteq A
      <4> HIDE DEF A
      <4> QED BY <1>3, <3>3, <3>4
    <3> QED BY <3>5
  <2>3. ASSUME NEW q \in W, q # m PROVE Passed(q)
    <3> SUFFICES ASSUME ~Passed(q) PROVE FALSE
      OBVIOUS
    <3>1. q \in Entry /\ P[q] = Anchor
      BY <1>1, <1>3
    <3>2. From(q, P) = {q}
      BY <1>2, <3>1, FromStep, FromAnchor
    <3> QED BY <2>2, <2>3, <3>2
  <2> DEFINE S == W \cup From(flink[m], flink)
  <2>4. ASSUME NEW q \in S PROVE flink[q] \in S \cup {Anchor}
    <3>1. flink[m] \in Node
      BY <2>1 DEF IsLink
    <3>2. CASE q \in From(flink[m], flink)
      BY <3>1, <3>2, FromIsLeast DEF Follows
    <3>3. CASE q = m
      BY <3>1, <3>3, FromIsLeast DEF Follows
    <3>4. CASE q \in W /\ q # m
      <4>1. Passed(q) /\ P[q] \in W \cup {Anchor} /\ q \in Entry
        BY <1>3, <2>3, <3>4 DEF Follows
      <4> QED BY <1>1, <4>1
    <3> QED BY <3>2, <3>3, <3>4
  <2>5. S \in SUBSET Entry /\ n \in S \cup {Anchor}
    <3>1. flink[m] \in Node
      BY <2>1 DEF IsLink
    <3> QED BY <1>3, <3>1, FromIsLeast DEF Follows
  <2>6. Follows(n, flink, S)
    BY <2>4, <2>5 DEF Follows
  <2>7. L \subseteq S
    <3> HIDE DEF S
    <3> QED BY <1>3, <2>5, <2>6
  <2>8. m # Anchor
    BY <2>1
  <2> QED BY <1>4, <2>1, <2>3, <2>7, <2>8
<1> QED BY <1>6, <1>7

\* The dispatches other than t that run the handler of e.
Others(t, e) == {u \in Thread \ {t} : pc[u] = "handler" /\ cursor[u] = e}

\* How often e is referenced when a set R of dispatches runs its handler.
Counted(e, R) == Cardinality(R) + (IF deleted[e] THEN 0 ELSE 1)

LEMMA RunningCounted ==
  ASSUME NEW e, NEW t \in Thread
  PROVE  /\ IsFiniteSet(Running(e)) /\ Cardinality(Running(e)) \in Nat
         /\ IsFiniteSet(Others(t, e)) /\ Cardinality(Others(t, e)) \in Nat
         /\ Running(e) = Others(t, e) \cup (IF pc[t] = "handler" /\ cursor[t] = e THEN {t} ELSE {})
         /\ Cardinality(Running(e)) =
               Cardinality(Others(t, e)) + (IF pc[t] = "handler" /\ cursor[t] = e THEN 1 ELSE 0)
         /\ Cardinality(Running(e)) = 0 <=> Running(e) = {}
<1>1. Running(e) \subseteq Thread /\ Others(t, e) \subseteq Thread /\ t \notin Others(t, e)
  BY DEF Running, Others
<1>2. IsFiniteSet(Running(e)) /\ IsFiniteSet(Others(t, e))
  BY <1>1, FS_Subset
<1>3. Running(e) = Others(t, e) \cup (IF pc[t] = "handler" /\ cursor[t] = e THEN {t} ELSE {})
  BY DEF Running, Others
<1>4. Cardinality(Running(e)) \in Nat /\ Cardinality(Others(t, e)) \in Nat
  BY <1>2, FS_CardinalityType
<1>5. Cardinality(Others(t, e) \cup {t}) = Cardinality(Others(t, e)) + 1
  BY <1>1, <1>2, FS_AddElement
<1>6. Cardinality(Running(e)) = 0 <=> Running(e) = {}
  BY <1>2, FS_EmptySet
<1>7. CASE pc[t] = "handler" /\ cursor[t] = e
  <2>1. Running(e) = Others(t, e) \cup {t}
    BY <1>3, <1>7
  <2>2. Cardinality(Running(e)) = Cardinality(Others(t, e)) + 1
    BY <1>5, <2>1
  <2> QED BY <1>2, <1>3, <1>4, <1>6, <1>7, <2>2
<1>8. CASE ~(pc[t] = "handler" /\ cursor[t] = e)
  <2>1. Running(e) = Others(t, e)
    BY <1>3, <1>8
  <2>2. Cardinality(Running(e)) = Cardinality(Others(t, e)) + 0
    BY <1>4, <2>1
  <2> QED BY <1>2, <1>3, <1>4, <1>6, <1>8, <2>2
<1> QED BY <1>7, <1>8

\* Where a walk from n stops: nothing that is due is left out, and a handler is
\* entered only for a registration that is in the list and was not removed.
LEMMA WalkOutcome ==
  ASSUME TypeOK, RingInv, HeapInv, LeadsBack, NEW n \in Allocated \cup {Anchor},
         NEW due, due \subseteq From(n, flink), due \subseteq {e \in Linked : ~deleted[e]},
         NEW m, m = FirstLive(n)
  PROVE  /\ m \in From(n, flink) \cup {Anchor}
         /\ m \in Allocated \cup {Anchor}
         /\ m = Anchor => due = {}
         /\ m \notin Freed \cup {Anchor} =>
              /\ m \in Linked /\ ~deleted[m]
              /\ due \ {m} \subseteq From(flink[m], flink)
              /\ From(flink[m], flink) \subseteq From(n, flink)
              /\ m \notin From(flink[m], flink)
<1>1. IsLink(flink) /\ n \in Node /\ From(n, flink) \subseteq Allocated
  BY ListFacts DEF Allocated, Node
<1>2. /\ m \in From(n, flink) \cup {Anchor}
      /\ m # Anchor => ~Passed(m)
      /\ \A e \in From(n, flink) : Passed(e) \/ (m # Anchor /\ e \in {m} \cup From(flink[m], flink))
  BY <1>1, WalkStops
<1>3. \A e \in due : ~Passed(e)
  BY DEF Passed, Skipped
<1>4. m = Anchor => due = {}
  BY <1>2, <1>3
<1>5. ASSUME m \notin Freed \cup {Anchor}
      PROVE  /\ m \in Linked /\ ~deleted[m]
             /\ due \ {m} \subseteq From(flink[m], flink)
             /\ From(flink[m], flink) \subseteq From(n, flink)
             /\ m \notin From(flink[m], flink)
  <2>1. m \in From(n, flink) /\ m \in Allocated /\ ~deleted[m]
    BY <1>1, <1>2, <1>5 DEF Passed, Skipped
  <2>2. m \in Linked
    BY <2>1 DEF HeapInv
  <2>3. due \ {m} \subseteq From(flink[m], flink)
    BY <1>2, <1>3
  <2>4. From(flink[m], flink) \subseteq From(n, flink)
    BY <1>1, <2>1, FromTransitive
  <2> QED BY <2>1, <2>2, <2>3, <2>4, ListFacts
<1> QED BY <1>1, <1>2, <1>4, <1>5

\* A step that leaves the list and the registrations alone but for counts of what
\* was registered keeps the list whole.
LEMMA ListKept ==
  ASSUME RingInv, HeapInv, LeadsBack, UNCHANGED <<links, deleted, heap, garbage>>,
         \A e \in Entry \ Allocated : refs'[e] = 0
  PROVE  /\ RingInv' /\ HeapInv' /\ LeadsBack'
         /\ Linked' = Linked /\ Allocated' = Allocated
<1>1. flink' = flink /\ blink' = blink /\ deleted' = deleted /\ heap' = heap /\ garbage' = garbage
  BY DEF links
<1>2. Linked' = Linked /\ Allocated' = Allocated
  BY <1>1 DEF Linked, Allocated
<1>3. RingInv'
  BY <1>1, <1>2 DEF RingInv
<1>4. HeapInv'
  BY <1>1, <1>2 DEF HeapInv
<1>5. LeadsBack'
  BY <1>1 DEF LeadsBack
<1> QED BY <1>2, <1>3, <1>4, <1>5

\* The other dispatches do not notice what t does to its own position.
LEMMA OthersKept ==
  ASSUME NEW t \in Thread, NEW e,
         \A u \in Thread \ {t} : pc'[u] = pc[u] /\ cursor'[u] = cursor[u]
  PROVE  Others(t, e)' = Others(t, e)
BY DEF Others

\* A walk of dispatch t from node n keeps the invariant, and what is due stays
\* ahead of it.
LEMMA WalkKeeps ==
  ASSUME TypeOK, RingInv, HeapInv, LeadsBack, DispatchInv,
         NEW t \in Thread, NEW n \in Allocated \cup {Anchor},
         NEW counts \in [Entry -> Nat], NEW done \in Seq(Entry), NEW due \in SUBSET Entry,
         WalkFrom(t, n, counts, done, due), UNCHANGED <<links, deleted, heap, garbage>>,
         due \subseteq From(n, flink), due \subseteq {e \in Linked : ~deleted[e]},
         \A i \in DOMAIN done : done[i] \in Allocated /\ done[i] \notin From(n, flink),
         IsInjective(done),
         \A e \in Entry \ Allocated : counts[e] = 0,
         \A e \in Linked : counts[e] = Counted(e, Others(t, e)) /\ counts[e] > 0,
         \A u \in Thread \ {t} : pc[u] = "handler" => cursor[u] \in Linked
  PROVE  VEHInv'
<1> DEFINE m == FirstLive(n)
           call == m \notin Freed \cup {Anchor}
<1>1. /\ m \in From(n, flink) \cup {Anchor} /\ m \in Allocated \cup {Anchor} /\ m \in Node
      /\ m = Anchor => due = {}
      /\ call => /\ m \in Linked /\ m \in Entry /\ m # Anchor /\ ~deleted[m]
                 /\ due \ {m} \subseteq From(flink[m], flink)
                 /\ From(flink[m], flink) \subseteq From(n, flink)
                 /\ m \notin From(flink[m], flink)
  BY WalkOutcome, ListFacts DEF Allocated, Node
<1>2. /\ cursor' = [cursor EXCEPT ![t] = m]
      /\ ~call => /\ pc' = [pc EXCEPT ![t] = IF m = Anchor THEN "idle" ELSE "fault"]
                  /\ refs' = counts
                  /\ called' = [called EXCEPT ![t] = done]
                  /\ owed' = [owed EXCEPT ![t] = due]
      /\ call => /\ pc' = [pc EXCEPT ![t] = "handler"]
                 /\ refs' = [counts EXCEPT ![m] = @ + 1]
                 /\ called' = [called EXCEPT ![t] = Append(done, m)]
                 /\ owed' = [owed EXCEPT ![t] = due \ {m}]
  BY DEF WalkFrom
<1> HIDE DEF m, call
<1>3. flink' = flink /\ blink' = blink /\ deleted' = deleted /\ heap' = heap /\ garbage' = garbage
  BY DEF links
<1>4. TypeOK'
  <2>1. refs' \in [Entry -> Nat]
    <3>1. call => counts[m] + 1 \in Nat
      BY <1>1
    <3> QED BY <1>1, <1>2, <3>1
  <2>5. pc' \in [Thread -> {"idle", "handler", "resume", "fault"}]
    BY <1>2 DEF TypeOK
  <2>2. cursor' \in [Thread -> Node]
    BY <1>1, <1>2 DEF TypeOK
  <2>3. call => Append(done, m) \in Seq(Entry)
    BY <1>1
  <2>4. called' \in [Thread -> Seq(Entry)]
    <3>1. called \in [Thread -> Seq(Entry)]
      BY DEF TypeOK
    <3>2. PICK d \in Seq(Entry) : called' = [called EXCEPT ![t] = d]
      BY <1>2, <2>3
    <3> QED BY <3>1, <3>2
  <2>6. owed' \in [Thread -> SUBSET Entry]
    <3>1. due \ {m} \in SUBSET Entry
      OBVIOUS
    <3>2. owed \in [Thread -> SUBSET Entry]
      BY DEF TypeOK
    <3>3. PICK d \in SUBSET Entry : owed' = [owed EXCEPT ![t] = d]
      BY <1>2, <3>1
    <3> QED BY <3>2, <3>3
  <2> QED BY <1>3, <2>1, <2>2, <2>4, <2>5, <2>6 DEF TypeOK
<1>5. \A e \in Entry \ Allocated : refs'[e] = 0
  BY <1>1, <1>2, ListFacts
<1>6. RingInv' /\ HeapInv' /\ LeadsBack' /\ Linked' = Linked /\ Allocated' = Allocated
  BY <1>5, ListKept
<1>7. \A u \in Thread \ {t} : /\ pc'[u] = pc[u] /\ cursor'[u] = cursor[u]
                              /\ called'[u] = called[u] /\ owed'[u] = owed[u]
  BY <1>2 DEF TypeOK
<1>8. /\ cursor'[t] = m
      /\ ~call => /\ pc'[t] = (IF m = Anchor THEN "idle" ELSE "fault")
                  /\ called'[t] = done /\ owed'[t] = due
      /\ call => pc'[t] = "handler" /\ called'[t] = Append(done, m) /\ owed'[t] = due \ {m}
  BY <1>2 DEF TypeOK
<1>9. References'
  <2>1. ASSUME NEW e \in Linked
        PROVE refs'[e] = Cardinality(Running(e)') + (IF deleted'[e] THEN 0 ELSE 1) /\ refs'[e] > 0
    <3>1. e \in Entry /\ counts[e] \in Nat
      BY ListFacts DEF Allocated
    <3>2. Others(t, e)' = Others(t, e)
      BY <1>7, OthersKept
    <3>3. /\ Cardinality(Others(t, e)) \in Nat
          /\ Cardinality(Running(e)') =
               Cardinality(Others(t, e)) + (IF pc'[t] = "handler" /\ cursor'[t] = e THEN 1 ELSE 0)
      <4>1. /\ (Cardinality(Others(t, e)) \in Nat)'
            /\ (Cardinality(Running(e)) =
               Cardinality(Others(t, e)) + (IF pc[t] = "handler" /\ cursor[t] = e THEN 1 ELSE 0))'
        BY RunningCounted, PTL
      <4> QED BY <4>1, <3>2
    <3>4. refs'[e] = counts[e] + (IF call /\ m = e THEN 1 ELSE 0)
      BY <1>1, <1>2, <3>1
    <3>5. (pc'[t] = "handler" /\ cursor'[t] = e) <=> (call /\ m = e)
      BY <1>8
    <3>6. counts[e] = Cardinality(Others(t, e)) + (IF deleted[e] THEN 0 ELSE 1) /\ counts[e] > 0
      BY DEF Counted
    <3> QED BY <1>3, <3>1, <3>3, <3>4, <3>5, <3>6
  <2>2. \A u \in Thread : pc'[u] = "handler" => cursor'[u] \in Linked
    BY <1>1, <1>7, <1>8
  <2> QED BY <1>6, <2>1, <2>2 DEF References
<1>10. DispatchInv'
  <2>1. ASSUME NEW u \in Thread \ {t} PROVE WalkSound(u)'
    <3>1. WalkSound(u)
      BY DEF DispatchInv
    <3>2. Ahead(u)' = Ahead(u) /\ Called(u)' = Called(u)
      BY <1>3, <1>7 DEF Ahead, Called
    <3> QED BY <1>3, <1>6, <1>7, <3>1, <3>2 DEF WalkSound
  <2>2. WalkSound(t)'
    <3>1. CASE ~call
      <4>1. Called(t)' \subseteq Allocated
        BY <1>8, <3>1 DEF Called
      <4> QED BY <1>1, <1>3, <1>6, <1>8, <3>1, <4>1 DEF WalkSound
    <3>2. CASE call
      <4>1. /\ DOMAIN Append(done, m) = 1 .. Len(done) + 1
            /\ DOMAIN done = 1 .. Len(done) /\ Len(done) \in Nat
            /\ \A i \in DOMAIN done : Append(done, m)[i] = done[i]
            /\ Append(done, m)[Len(done) + 1] = m
        BY <1>1, <3>2
      <4>2. m \in From(n, flink) /\ \A i \in DOMAIN done : done[i] # m
        BY <1>1, <3>2
      <4>3. IsInjective(called'[t])
        <5> DEFINE d == Append(done, m)
        <5>1. \A i, j \in DOMAIN done : done[i] = done[j] => i = j
          BY DEF IsInjective
        <5> HIDE DEF d
        <5>2. /\ DOMAIN d = 1 .. Len(done) + 1 /\ d[Len(done) + 1] = m
              /\ \A i \in 1 .. Len(done) : d[i] = done[i] /\ done[i] # m
          BY <4>1, <4>2 DEF d
        <5>3. \A i, j \in DOMAIN d : d[i] = d[j] => i = j
          BY <4>1, <5>1, <5>2
        <5>4. called'[t] = d
          BY <1>8, <3>2 DEF d
        <5> QED BY <5>3, <5>4 DEF IsInjective
      <4>4. Ahead(t)' = From(flink[m], flink)
        BY <1>3, <1>8, <3>2 DEF Ahead
      <4>5. \A i \in DOMAIN called'[t] : called'[t][i] = m \/ \E j \in DOMAIN done : called'[t][i] = done[j]
        <5> DEFINE d == Append(done, m)
        <5>1. called'[t] = d
          BY <1>8, <3>2
        <5>2. /\ DOMAIN d = 1 .. Len(done) + 1 /\ d[Len(done) + 1] = m
              /\ \A i \in 1 .. Len(done) : d[i] = done[i]
          BY <4>1
        <5> HIDE DEF d
        <5>3. ASSUME NEW i \in DOMAIN d, i # Len(done) + 1 PROVE i \in DOMAIN done /\ d[i] = done[i]
          BY <4>1, <5>2, <5>3
        <5> QED BY <5>1, <5>2, <5>3
      <4>6. Called(t)' \subseteq Allocated /\ Called(t)' \cap From(flink[m], flink) = {}
        <5>1. \A i \in DOMAIN done : done[i] \in Allocated /\ done[i] \notin From(flink[m], flink)
          BY <1>1, <3>2
        <5>2. m \in Allocated /\ m \notin From(flink[m], flink)
          BY <1>1, <3>2
        <5> QED BY <4>5, <5>1, <5>2 DEF Called
      <4>7. owed'[t] \subseteq From(flink[m], flink)
        BY <1>1, <1>8, <3>2
      <4>8. owed'[t] \subseteq {e \in Linked : ~deleted[e]}
        BY <1>8, <3>2
      <4> QED BY <1>3, <1>6, <1>8, <3>2, <4>3, <4>4, <4>6, <4>7, <4>8 DEF WalkSound
    <3> QED BY <3>1, <3>2
  <2> QED BY <2>1, <2>2 DEF DispatchInv
<1> QED BY <1>4, <1>6, <1>9, <1>10 DEF VEHInv
-----------------------------------------------------------------------------
(* The steps that walk on *)

\* What follows a linked node is linked.
LEMMA LinkedAhead ==
  ASSUME TypeOK, RingInv, HeapInv, LeadsBack, NEW n \in Linked \cup {Anchor}
  PROVE  flink[n] \in Linked \cup {Anchor} /\ From(flink[n], flink) \subseteq Linked
<1>1. IsLink(flink) /\ flink[n] \in Linked \cup {Anchor} /\ flink[Anchor] \in Node /\ Linked \subseteq Entry
  BY ListFacts DEF IsLink, Node, Allocated
<1>2. CASE n = Anchor
  BY <1>1, <1>2 DEF Linked
<1>3. CASE n \in Linked
  <2>1. n \in From(flink[Anchor], flink)
    BY <1>3 DEF Linked
  <2>2. From(flink[n], flink) \subseteq From(flink[Anchor], flink)
    BY <1>1, <2>1, FromTransitive
  <2> QED BY <1>1, <2>2 DEF Linked
<1> QED BY <1>2, <1>3

\* A walk that starts from the list meets no freed entry.
LEMMA NoFaultInList ==
  ASSUME TypeOK, RingInv, HeapInv, LeadsBack, NEW t \in Thread, NEW n \in Linked \cup {Anchor},
         NEW counts, NEW done, NEW due, WalkFrom(t, flink[n], counts, done, due)
  PROVE  pc'[t] # "fault" /\ \A u \in Thread \ {t} : pc'[u] = pc[u]
<1> DEFINE m == FirstLive(flink[n])
<1>1. flink[n] \in Node /\ From(flink[n], flink) \subseteq Linked /\ IsLink(flink)
  BY LinkedAhead, ListFacts DEF Allocated, Node
<1>2. m \in Linked \cup {Anchor}
  BY <1>1, WalkStops
<1>3. m \notin Freed
  BY <1>2 DEF HeapInv, Freed, Node
<1>4. \/ pc' = [pc EXCEPT ![t] = IF m = Anchor THEN "idle" ELSE "fault"] /\ m \in Freed \cup {Anchor}
      \/ pc' = [pc EXCEPT ![t] = "handler"]
  BY DEF WalkFrom
<1> HIDE DEF m
<1> QED BY <1>3, <1>4 DEF TypeOK

LEMMA DispatchKeeps ==
  ASSUME VEHInv, NEW t \in Thread, Dispatch(t)
  PROVE  VEHInv'
<1> USE DEF VEHInv
<1>1. pc[t] = "idle" /\ WalkFrom(t, flink[Anchor], refs, <<>>, {e \in Linked : ~deleted[e]})
      /\ UNCHANGED <<links, deleted, heap, garbage>>
  BY DEF Dispatch
<1>2. flink[Anchor] \in Allocated \cup {Anchor} /\ Linked = From(flink[Anchor], flink) /\ Linked \subseteq Entry
  BY ListFacts DEF Linked, Allocated
<1>3. refs \in [Entry -> Nat] /\ \A e \in Entry \ Allocated : refs[e] = 0
  BY DEF TypeOK, RingInv
<1>4. \A e \in Linked : refs[e] = Counted(e, Others(t, e)) /\ refs[e] > 0
  <2>1. \A e : Running(e) = Others(t, e)
    BY <1>1 DEF Running, Others
  <2> QED BY <2>1 DEF References, Counted
<1>5. \A u \in Thread : pc[u] = "handler" => cursor[u] \in Linked
  BY DEF References
<1>6. {e \in Linked : ~deleted[e]} \in SUBSET Entry /\ <<>> \in Seq(Entry)
      /\ IsInjective(<<>>) /\ \A i \in DOMAIN <<>> : FALSE
  BY <1>2 DEF IsInjective
<1> HIDE DEF VEHInv
<1>7. TypeOK /\ RingInv /\ HeapInv /\ LeadsBack /\ DispatchInv
  BY DEF VEHInv
<1>8. {e \in Linked : ~deleted[e]} \subseteq From(flink[Anchor], flink)
  BY <1>2
<1> QED BY <1>1, <1>2, <1>3, <1>4, <1>5, <1>6, <1>7, <1>8, WalkKeeps

\* What a dispatch has called, and what it owes, as WalkKeeps asks for them.
LEMMA DispatchGoesOn ==
  ASSUME VEHInv, NEW t \in Thread, pc[t] \in {"handler", "resume"},
         NEW n, n = IF pc[t] = "handler" THEN flink[cursor[t]] ELSE cursor[t]
  PROVE  /\ called[t] \in Seq(Entry) /\ owed[t] \in SUBSET Entry
         /\ owed[t] \subseteq From(n, flink) /\ owed[t] \subseteq {e \in Linked : ~deleted[e]}
         /\ \A i \in DOMAIN called[t] : called[t][i] \in Allocated /\ called[t][i] \notin From(n, flink)
         /\ IsInjective(called[t]) /\ n \in Allocated \cup {Anchor}
<1>1. WalkSound(t) /\ TypeOK /\ RingInv /\ HeapInv /\ LeadsBack /\ References
  BY DEF VEHInv, DispatchInv
<1>2. Ahead(t) = From(n, flink)
  BY DEF Ahead
<1>3. n \in Allocated \cup {Anchor}
  <2>1. CASE pc[t] = "handler"
    <3>1. cursor[t] \in Linked
      BY <1>1, <2>1 DEF References
    <3> QED BY <1>1, <2>1, <3>1, ListFacts
  <2>2. CASE pc[t] = "resume"
    BY <1>1, <2>2 DEF WalkSound
  <2> QED BY <2>1, <2>2
<1>4. owed[t] \subseteq From(n, flink) /\ Called(t) \cap From(n, flink) = {}
  BY <1>1, <1>2 DEF WalkSound
<1>5. \A i \in DOMAIN called[t] : called[t][i] \in Allocated /\ called[t][i] \notin From(n, flink)
  BY <1>1, <1>4 DEF WalkSound, Called
<1> QED BY <1>1, <1>3, <1>4, <1>5 DEF WalkSound, TypeOK

LEMMA ResumeKeeps ==
  ASSUME VEHInv, NEW t \in Thread, Resume(t)
  PROVE  VEHInv'
<1>1. pc[t] = "resume" /\ WalkFrom(t, cursor[t], refs, called[t], owed[t])
      /\ UNCHANGED <<links, deleted, heap, garbage>>
  BY DEF Resume
<1>2. TypeOK /\ RingInv /\ HeapInv /\ LeadsBack /\ DispatchInv /\ References
  BY DEF VEHInv
<1>3. refs \in [Entry -> Nat] /\ \A e \in Entry \ Allocated : refs[e] = 0
  BY <1>2 DEF TypeOK, RingInv
<1>4. \A e \in Linked : refs[e] = Counted(e, Others(t, e)) /\ refs[e] > 0
  <2>1. \A e : Running(e) = Others(t, e)
    BY <1>1 DEF Running, Others
  <2> QED BY <1>2, <2>1 DEF References, Counted
<1>5. \A u \in Thread : pc[u] = "handler" => cursor[u] \in Linked
  BY <1>2 DEF References
<1>6. /\ called[t] \in Seq(Entry) /\ owed[t] \in SUBSET Entry
      /\ owed[t] \subseteq From(cursor[t], flink) /\ owed[t] \subseteq {e \in Linked : ~deleted[e]}
      /\ \A i \in DOMAIN called[t] : called[t][i] \in Allocated /\ called[t][i] \notin From(cursor[t], flink)
      /\ IsInjective(called[t]) /\ cursor[t] \in Allocated \cup {Anchor}
  BY <1>1, DispatchGoesOn
<1> QED BY <1>1, <1>2, <1>3, <1>4, <1>5, <1>6, WalkKeeps

\* When a handler returns, its entry is referenced once less.
LEMMA HandlerDone ==
  ASSUME VEHInv, NEW t \in Thread, pc[t] = "handler", NEW x, x = cursor[t]
  PROVE  /\ x \in Linked /\ x \in Entry /\ refs[x] - 1 \in Nat
         /\ refs[x] - 1 = Counted(x, Others(t, x))
         /\ refs[x] = 1 => deleted[x] /\ Others(t, x) = {}
         /\ \A e \in Linked \ {x} : refs[e] = Counted(e, Others(t, e)) /\ refs[e] > 0
<1>1. TypeOK /\ RingInv /\ HeapInv /\ LeadsBack /\ References
  BY DEF VEHInv
<1>2. x \in Linked /\ Linked \subseteq Entry /\ refs[x] \in Nat
  BY <1>1, ListFacts DEF References, TypeOK, Allocated
<1>3. refs[x] = Cardinality(Running(x)) + (IF deleted[x] THEN 0 ELSE 1) /\ refs[x] > 0
  BY <1>1, <1>2 DEF References
<1>4. /\ Cardinality(Others(t, x)) \in Nat /\ IsFiniteSet(Others(t, x))
      /\ Cardinality(Running(x)) = Cardinality(Others(t, x)) + 1
  BY RunningCounted
<1>5. refs[x] - 1 = Counted(x, Others(t, x))
  BY <1>3, <1>4 DEF Counted
<1>6. ASSUME refs[x] = 1 PROVE deleted[x] /\ Others(t, x) = {}
  <2>1. deleted[x] /\ Cardinality(Others(t, x)) = 0
    BY <1>3, <1>4, <1>6
  <2> QED BY <1>4, <2>1, FS_EmptySet
<1>7. ASSUME NEW e \in Linked \ {x} PROVE refs[e] = Counted(e, Others(t, e)) /\ refs[e] > 0
  <2>1. Running(e) = Others(t, e)
    BY <1>7 DEF Running, Others
  <2> QED BY <1>1, <2>1 DEF References, Counted
<1> QED BY <1>2, <1>3, <1>5, <1>6, <1>7

LEMMA ReturnGoesOn ==
  ASSUME VEHInv, NEW t \in Thread, pc[t] = "handler", NEW x, x = cursor[t], refs[x] - 1 # 0,
         WalkFrom(t, flink[x], [refs EXCEPT ![x] = refs[x] - 1], called[t], owed[t]),
         UNCHANGED <<links, deleted, heap, garbage>>
  PROVE  VEHInv'
<1> DEFINE counts == [refs EXCEPT ![x] = refs[x] - 1]
<1>1. TypeOK /\ RingInv /\ HeapInv /\ LeadsBack /\ DispatchInv /\ References
  BY DEF VEHInv
<1>2. /\ x \in Linked /\ x \in Entry /\ x \in Allocated /\ refs[x] - 1 \in Nat /\ Linked \subseteq Entry
      /\ refs[x] - 1 = Counted(x, Others(t, x))
      /\ \A e \in Linked \ {x} : refs[e] = Counted(e, Others(t, e)) /\ refs[e] > 0
  BY <1>1, HandlerDone, ListFacts DEF Allocated
<1>3. /\ counts \in [Entry -> Nat] /\ counts[x] = refs[x] - 1
      /\ \A e \in Entry \ {x} : counts[e] = refs[e]
  BY <1>1, <1>2 DEF TypeOK
<1>4. \A e \in Entry \ Allocated : counts[e] = 0
  BY <1>1, <1>2, <1>3 DEF RingInv
<1>5. WalkFrom(t, flink[x], counts, called[t], owed[t])
  OBVIOUS
<1> HIDE DEF counts
<1>6. \A e \in Linked : counts[e] = Counted(e, Others(t, e)) /\ counts[e] > 0
  <2>1. counts[x] = Counted(x, Others(t, x)) /\ counts[x] > 0
    <3>1. counts[x] = Counted(x, Others(t, x))
      BY <1>2, <1>3
    <3>2. counts[x] \in Nat /\ counts[x] # 0
      BY <1>2, <1>3
    <3> QED BY <3>1, <3>2
  <2>2. ASSUME NEW e \in Linked \ {x} PROVE counts[e] = Counted(e, Others(t, e)) /\ counts[e] > 0
    <3>1. counts[e] = refs[e]
      BY <1>2, <1>3
    <3> QED BY <1>2, <3>1
  <2> QED BY <2>1, <2>2
<1>7. \A u \in Thread : pc[u] = "handler" => cursor[u] \in Linked
  BY <1>1 DEF References
<1>8. /\ called[t] \in Seq(Entry) /\ owed[t] \in SUBSET Entry
      /\ owed[t] \subseteq From(flink[x], flink) /\ owed[t] \subseteq {e \in Linked : ~deleted[e]}
      /\ \A i \in DOMAIN called[t] : called[t][i] \in Allocated /\ called[t][i] \notin From(flink[x], flink)
      /\ IsInjective(called[t]) /\ flink[x] \in Allocated \cup {Anchor}
  BY DispatchGoesOn
<1> QED BY <1>1, <1>3, <1>4, <1>5, <1>6, <1>7, <1>8, WalkKeeps
-----------------------------------------------------------------------------
(* The steps that unlink, free and register *)

LEMMA PositiveNat == ASSUME NEW k \in Nat, k # 0 PROVE k > 0
OBVIOUS

\* A removed entry that nobody uses leaves the list: the list stays whole, one
\* thread has to free the entry, and the walks that stand elsewhere miss nothing.
LEMMA UnlinkKeeps ==
  ASSUME VEHInv, NEW t \in Thread, garbage[t] = None, NEW x \in Linked, Unlink(x),
         garbage'[t] = x, \A u \in Thread \ {t} : garbage'[u] = garbage[u], heap' = heap, deleted'[x],
         \A e \in Entry \ {x} : deleted'[e] = deleted[e] /\ refs'[e] = refs[e],
         \A u \in Thread : pc[u] = "handler" /\ cursor[u] = x => pc'[u] # "handler",
         \A u \in Thread : pc'[u] = "handler" => pc[u] = "handler" /\ cursor'[u] = cursor[u],
         \A u \in Thread : cursor[u] # x /\ pc[u] = "handler" => pc'[u] = "handler"
  PROVE  /\ RingInv' /\ HeapInv' /\ LeadsBack' /\ References'
         /\ Allocated' = Allocated /\ Linked' = Linked \ {x}
         /\ flink' \in [Node -> Node] /\ blink' \in [Node -> Node]
         /\ \A n \in Node : /\ From(n, flink') \subseteq From(n, flink)
                            /\ From(n, flink) \subseteq From(n, flink') \cup {x}
         /\ \A u \in Thread :
              /\ WalkSound(u)
              /\ pc'[u] = pc[u] /\ cursor'[u] = cursor[u] /\ called'[u] = called[u]
              /\ owed'[u] \subseteq owed[u] \ {x}
              => WalkSound(u)'
<1>1. TypeOK /\ RingInv /\ HeapInv /\ LeadsBack /\ References
  BY DEF VEHInv
<1>2. Linked \subseteq Allocated /\ Allocated \subseteq Entry /\ x \in Entry /\ Allocated' = Allocated
  BY <1>1, ListFacts DEF Allocated
<1>3. /\ flink' \in [Node -> Node] /\ blink' \in [Node -> Node]
      /\ Linked' = Linked \ {x}
      /\ \A n \in Node : /\ From(n, flink') \subseteq From(n, flink)
                         /\ From(n, flink) \subseteq From(n, flink') \cup {x}
      /\ \A c \in Linked \ {x} :
            /\ From(flink'[c], flink') \subseteq From(flink[c], flink)
            /\ From(flink[c], flink) \subseteq From(flink'[c], flink') \cup {x}
      /\ RingInv' /\ LeadsBack'
  <2>1. \A e \in Entry \ Allocated : refs'[e] = refs[e] /\ deleted'[e] = deleted[e]
    BY <1>2
  <2>2. Unlink(x) /\ heap' = heap
    OBVIOUS
  <2> QED BY ONLY <1>1, <2>1, <2>2, UnlinkLists, x \in Linked
<1>4. HeapInv'
  <2>1. garbage'[t] = x /\ \A u \in Thread \ {t} : garbage'[u] = garbage[u]
    OBVIOUS
  <2>2. heap[x] = "live" /\ \A u \in Thread : garbage[u] # x
    BY <1>1 DEF HeapInv
  <2>3. Linked' = {e \in Entry : heap'[e] = "live" /\ \A u \in Thread : garbage'[u] # e}
    <3>1. ASSUME NEW e \in Entry
          PROVE  e \in Linked' <=> (heap'[e] = "live" /\ \A u \in Thread : garbage'[u] # e)
      <4>1. e \in Linked <=> (heap[e] = "live" /\ \A u \in Thread : garbage[u] # e)
        BY <1>1 DEF HeapInv
      <4>2. (\A u \in Thread : garbage'[u] # e) <=> (e # x /\ \A u \in Thread : garbage[u] # e)
        BY <1>2, <2>1 DEF TypeOK
      <4> QED BY <1>3, <4>1, <4>2
    <3> QED BY <1>2, <1>3, <3>1
  <2>4. ASSUME NEW u \in Thread, garbage'[u] # None
        PROVE  heap'[garbage'[u]] = "live" /\ \A v \in Thread : garbage'[v] = garbage'[u] => v = u
    BY <1>1, <2>1, <2>2, <2>4 DEF HeapInv
  <2>5. \A e \in Allocated \ Linked' : deleted'[e]
    BY <1>1, <1>2, <1>3 DEF HeapInv
  <2> QED BY <1>2, <2>3, <2>4, <2>5 DEF HeapInv
<1>5. References'
  <2>1. ASSUME NEW e \in Linked \ {x}
        PROVE  refs'[e] = Cardinality(Running(e)') + (IF deleted'[e] THEN 0 ELSE 1) /\ refs'[e] > 0
    <3>1. Running(e)' = Running(e)
      BY <2>1 DEF Running
    <3> QED BY <1>1, <1>2, <3>1 DEF References
  <2>2. \A u \in Thread : pc'[u] = "handler" => cursor'[u] \in Linked \ {x}
    BY <1>1 DEF References
  <2> QED BY <1>3, <2>1, <2>2 DEF References
<1>6. ASSUME NEW u \in Thread, WalkSound(u),
             pc'[u] = pc[u], cursor'[u] = cursor[u], called'[u] = called[u], owed'[u] \subseteq owed[u] \ {x}
      PROVE  WalkSound(u)'
  <2>1. Called(u)' = Called(u)
    BY <1>6 DEF Called
  <2>2. owed'[u] \subseteq {e \in Linked' : ~deleted'[e]}
    BY <1>2, <1>3, <1>6 DEF WalkSound
  <2>3. ASSUME pc[u] \in {"handler", "resume"}
        PROVE  Ahead(u)' \subseteq Ahead(u) /\ Ahead(u) \subseteq Ahead(u)' \cup {x}
    <3>1. CASE pc[u] = "handler"
      <4>1. cursor[u] \in Linked \ {x}
        BY <1>1, <1>6, <3>1 DEF References
      <4> QED BY <1>3, <1>6, <3>1, <4>1 DEF Ahead
    <3>2. CASE pc[u] = "resume"
      BY <1>1, <1>3, <1>6, <3>2 DEF Ahead, TypeOK
    <3> QED BY <2>3, <3>1, <3>2
  <2>4. pc'[u] \in {"handler", "resume"} => owed'[u] \subseteq Ahead(u)' /\ Called(u)' \cap Ahead(u)' = {}
    BY <1>6, <2>1, <2>3 DEF WalkSound
  <2> QED BY <1>2, <1>6, <2>1, <2>2, <2>4 DEF WalkSound
<1> QED BY <1>2, <1>3, <1>4, <1>5, <1>6

\* The last user of a removed entry takes it out of the list.
LEMMA ReturnUnlinks ==
  ASSUME VEHInv, NEW t \in Thread, pc[t] = "handler", garbage[t] = None, NEW x, x = cursor[t],
         refs[x] - 1 = 0, NEW stop \in BOOLEAN,
         cursor' = [cursor EXCEPT ![t] = flink[x]], Unlink(x), garbage' = [garbage EXCEPT ![t] = x],
         refs' = [refs EXCEPT ![x] = refs[x] - 1],
         pc' = [pc EXCEPT ![t] = IF stop THEN "idle" ELSE "resume"],
         owed' = [owed EXCEPT ![t] = IF stop THEN {} ELSE owed[t]],
         UNCHANGED <<called, deleted, heap>>
  PROVE  VEHInv'
<1>1. TypeOK /\ RingInv /\ HeapInv /\ LeadsBack /\ References /\ DispatchInv
  BY DEF VEHInv
<1>2. x \in Linked /\ x \in Entry /\ refs[x] \in Nat /\ deleted[x] /\ Others(t, x) = {}
  <2>1. x \in Linked /\ x \in Entry
    BY HandlerDone
  <2>2. refs[x] \in Nat
    BY <1>1, <2>1 DEF TypeOK
  <2>3. refs[x] = 1
    BY <2>2
  <2> QED BY <2>1, <2>2, <2>3, HandlerDone
<1>3. /\ cursor'[t] = flink[x] /\ pc'[t] = (IF stop THEN "idle" ELSE "resume")
      /\ owed'[t] = (IF stop THEN {} ELSE owed[t]) /\ called'[t] = called[t]
      /\ \A u \in Thread \ {t} : /\ cursor'[u] = cursor[u] /\ pc'[u] = pc[u]
                                 /\ owed'[u] = owed[u] /\ called'[u] = called[u]
  BY <1>1 DEF TypeOK
<1>4. refs' \in [Entry -> Nat] /\ \A e \in Entry \ {x} : refs'[e] = refs[e]
  BY <1>1, <1>2 DEF TypeOK
<1>5. \A u \in Thread \ {t} : ~(pc[u] = "handler" /\ cursor[u] = x)
  BY <1>2 DEF Others
<1>6. /\ RingInv' /\ HeapInv' /\ LeadsBack' /\ References'
      /\ Allocated' = Allocated /\ Linked' = Linked \ {x}
      /\ flink' \in [Node -> Node] /\ blink' \in [Node -> Node]
      /\ \A n \in Node : /\ From(n, flink') \subseteq From(n, flink)
                         /\ From(n, flink) \subseteq From(n, flink') \cup {x}
      /\ \A u \in Thread :
           /\ WalkSound(u)
           /\ pc'[u] = pc[u] /\ cursor'[u] = cursor[u] /\ called'[u] = called[u]
           /\ owed'[u] \subseteq owed[u] \ {x}
           => WalkSound(u)'
  <2>1. \A u \in Thread : pc[u] = "handler" /\ cursor[u] = x => pc'[u] # "handler"
    BY <1>3, <1>5
  <2>2. \A u \in Thread : pc'[u] = "handler" => pc[u] = "handler" /\ cursor'[u] = cursor[u]
    BY <1>3
  <2>3. \A u \in Thread : cursor[u] # x /\ pc[u] = "handler" => pc'[u] = "handler"
    BY <1>3
  <2>4. heap' = heap /\ deleted'[x] /\ \A e \in Entry \ {x} : deleted'[e] = deleted[e] /\ refs'[e] = refs[e]
    BY <1>2, <1>4
  <2> HIDE DEF VEHInv
  <2>5. heap' = heap
    BY <2>4
  <2>6. deleted'[x]
    BY <2>4
  <2>7. \A e \in Entry \ {x} : deleted'[e] = deleted[e] /\ refs'[e] = refs[e]
    BY <2>4
  <2>8. x \in Linked /\ garbage'[t] = x /\ \A u \in Thread \ {t} : garbage'[u] = garbage[u]
    BY <1>1, <1>2 DEF TypeOK
  <2> QED BY <2>1, <2>2, <2>3, <2>5, <2>6, <2>7, <2>8, UnlinkKeeps
<1>7. TypeOK'
  <2>1. flink[x] \in Node
    BY <1>1, <1>2, ListFacts DEF Node, Allocated
  <2>2. cursor' \in [Thread -> Node] /\ pc' \in [Thread -> {"idle", "handler", "resume", "fault"}]
    BY <1>1, <2>1 DEF TypeOK
  <2>3. garbage' \in [Thread -> Entry \cup {None}]
    BY <1>1, <1>2 DEF TypeOK
  <2>4. owed' \in [Thread -> SUBSET Entry]
    <3>1. owed \in [Thread -> SUBSET Entry] /\ {} \in SUBSET Entry
      BY <1>1 DEF TypeOK
    <3>2. PICK d \in SUBSET Entry : owed' = [owed EXCEPT ![t] = d]
      BY <3>1
    <3> QED BY <3>1, <3>2
  <2> QED BY <1>1, <1>4, <1>6, <2>2, <2>3, <2>4 DEF TypeOK
<1>8. \A u \in Thread : WalkSound(u) /\ x \notin owed[u]
  BY <1>1, <1>2 DEF DispatchInv, WalkSound
<1>9. WalkSound(t)'
  <2>1. flink[x] \in Allocated \cup {Anchor} /\ flink[x] \in Node
    BY <1>1, <1>2, ListFacts DEF Node, Allocated
  <2>2. Called(t)' = Called(t)
    BY <1>3 DEF Called
  <2>3. Ahead(t) = From(flink[x], flink) /\ Ahead(t)' = From(flink[x], flink')
    <3>1. pc'[t] # "handler"
      BY <1>3
    <3> QED BY <1>3, <3>1 DEF Ahead
  <2>4. Called(t) \cap Ahead(t)' = {} /\ owed'[t] \subseteq Ahead(t)'
    <3>1. owed[t] \subseteq Ahead(t) /\ Called(t) \cap Ahead(t) = {}
      BY <1>8 DEF WalkSound
    <3> QED BY <1>3, <1>6, <1>8, <2>1, <2>3, <3>1
  <2>5. owed'[t] \subseteq {e \in Linked' : ~deleted'[e]}
    BY <1>3, <1>6, <1>8 DEF WalkSound
  <2> QED BY <1>3, <1>6, <1>8, <2>1, <2>2, <2>4, <2>5 DEF WalkSound
<1>10. DispatchInv'
  <2>1. ASSUME NEW u \in Thread \ {t} PROVE WalkSound(u)'
    BY <1>3, <1>6, <1>8
  <2> QED BY <1>9, <2>1 DEF DispatchInv
<1> QED BY <1>6, <1>7, <1>10 DEF VEHInv

\* A handler that stops the search gives its entry back and ends the dispatch.
LEMMA ReturnStops ==
  ASSUME VEHInv, NEW t \in Thread, pc[t] = "handler", NEW x, x = cursor[t], refs[x] - 1 # 0,
         refs' = [refs EXCEPT ![x] = refs[x] - 1], pc' = [pc EXCEPT ![t] = "idle"],
         owed' = [owed EXCEPT ![t] = {}],
         UNCHANGED <<links, garbage, cursor, called, deleted, heap>>
  PROVE  VEHInv'
<1>1. TypeOK /\ RingInv /\ HeapInv /\ LeadsBack /\ References /\ DispatchInv
  BY DEF VEHInv
<1>2. /\ x \in Linked /\ x \in Entry /\ x \in Allocated /\ refs[x] - 1 \in Nat /\ Linked \subseteq Entry
      /\ refs[x] - 1 = Counted(x, Others(t, x))
      /\ \A e \in Linked \ {x} : refs[e] = Counted(e, Others(t, e)) /\ refs[e] > 0
  BY <1>1, HandlerDone, ListFacts DEF Allocated
<1>3. /\ pc'[t] = "idle" /\ owed'[t] = {}
      /\ \A u \in Thread \ {t} : pc'[u] = pc[u] /\ owed'[u] = owed[u]
      /\ flink' = flink /\ cursor' = cursor /\ called' = called /\ deleted' = deleted
      /\ heap' = heap /\ garbage' = garbage /\ blink' = blink
  BY <1>1 DEF TypeOK, links
<1>4. refs' \in [Entry -> Nat] /\ refs'[x] = refs[x] - 1 /\ \A e \in Entry \ {x} : refs'[e] = refs[e]
  BY <1>1, <1>2 DEF TypeOK
<1>5. TypeOK'
  <2>1. pc' \in [Thread -> {"idle", "handler", "resume", "fault"}] /\ owed' \in [Thread -> SUBSET Entry]
    BY <1>1 DEF TypeOK
  <2> QED BY <1>1, <1>3, <1>4, <2>1 DEF TypeOK
<1>6. RingInv' /\ HeapInv' /\ LeadsBack' /\ Linked' = Linked /\ Allocated' = Allocated
  <2>1. \A e \in Entry \ Allocated : refs'[e] = 0
    BY <1>1, <1>2, <1>4 DEF RingInv
  <2> QED BY <1>1, <2>1, ListKept
<1>7. References'
  <2>1. ASSUME NEW e \in Linked
        PROVE  refs'[e] = Cardinality(Running(e)') + (IF deleted'[e] THEN 0 ELSE 1) /\ refs'[e] > 0
    <3>1. Running(e)' = Others(t, e)
      BY <1>3 DEF Running, Others
    <3>2. refs'[e] = Counted(e, Others(t, e)) /\ refs'[e] > 0
      <4>1. CASE e = x
        <5>1. refs'[x] \in Nat /\ refs'[x] # 0
          BY <1>2, <1>4
        <5>2. refs'[x] > 0
          BY <5>1, PositiveNat
        <5> QED BY <1>2, <1>4, <4>1, <5>2
      <4>2. CASE e # x
        BY <1>2, <1>4, <2>1, <4>2
      <4> QED BY <4>1, <4>2
    <3> QED BY <1>3, <3>1, <3>2 DEF Counted
  <2>2. \A u \in Thread : pc'[u] = "handler" => cursor'[u] \in Linked
    BY <1>1, <1>3 DEF References
  <2> QED BY <1>6, <2>1, <2>2 DEF References
<1>8. DispatchInv'
  <2>1. ASSUME NEW u \in Thread PROVE WalkSound(u)'
    <3>1. WalkSound(u) /\ Called(u)' = Called(u)
      BY <1>1, <1>3 DEF DispatchInv, Called
    <3>2. CASE u = t
      BY <1>3, <1>6, <3>1, <3>2 DEF WalkSound
    <3>3. CASE u # t
      <4>1. Ahead(u)' = Ahead(u)
        BY <1>3, <3>3 DEF Ahead
      <4> QED BY <1>3, <1>6, <3>1, <3>3, <4>1 DEF WalkSound
    <3> QED BY <3>2, <3>3
  <2> QED BY <2>1 DEF DispatchInv
<1> QED BY <1>5, <1>6, <1>7, <1>8 DEF VEHInv

LEMMA HandlerReturnsKeeps ==
  ASSUME VEHInv, NEW t \in Thread, NEW stop \in BOOLEAN, HandlerReturns(t, stop)
  PROVE  VEHInv'
<1> DEFINE x == cursor[t]
<1>1. pc[t] = "handler" /\ garbage[t] = None /\ UNCHANGED <<deleted, heap>>
  BY DEF HandlerReturns
<1>2. \/ /\ refs[x] - 1 = 0
         /\ cursor' = [cursor EXCEPT ![t] = flink[x]] /\ Unlink(x) /\ garbage' = [garbage EXCEPT ![t] = x]
         /\ refs' = [refs EXCEPT ![x] = refs[x] - 1]
         /\ pc' = [pc EXCEPT ![t] = IF stop THEN "idle" ELSE "resume"]
         /\ owed' = [owed EXCEPT ![t] = IF stop THEN {} ELSE owed[t]]
         /\ UNCHANGED called
      \/ /\ refs[x] - 1 # 0
         /\ refs' = [refs EXCEPT ![x] = refs[x] - 1]
         /\ pc' = [pc EXCEPT ![t] = "idle"]
         /\ owed' = [owed EXCEPT ![t] = {}]
         /\ UNCHANGED <<links, garbage, cursor, called>>
      \/ /\ refs[x] - 1 # 0
         /\ WalkFrom(t, flink[x], [refs EXCEPT ![x] = refs[x] - 1], called[t], owed[t])
         /\ UNCHANGED <<links, garbage>>
  BY DEF HandlerReturns, Unused, NextNode
<1> HIDE DEF x
<1>3. x = cursor[t]
  BY DEF x
<1> QED BY <1>1, <1>2, <1>3, ReturnUnlinks, ReturnStops, ReturnGoesOn

\* Removing a registration that a dispatch still uses leaves the list as it is.
LEMMA RemoveKeeps ==
  ASSUME VEHInv, NEW t \in Thread, NEW x \in Entry, Remove(t, x)
  PROVE  VEHInv'
<1>1. TypeOK /\ RingInv /\ HeapInv /\ LeadsBack /\ References /\ DispatchInv
  BY DEF VEHInv
<1>2. /\ x \in Linked /\ x \in Allocated /\ ~deleted[x] /\ garbage[t] = None
      /\ Linked \subseteq Entry /\ Allocated \subseteq Entry
  BY <1>1, ListFacts DEF Remove, CanCall, Removable, Allocated
<1>3. /\ \A e \in Entry \ {x} : deleted'[e] = deleted[e] /\ refs'[e] = refs[e]
      /\ deleted' \in [Entry -> BOOLEAN] /\ deleted'[x] = TRUE /\ refs'[x] = refs[x] - 1
  BY <1>1 DEF Remove, TypeOK
<1>4. /\ heap' = heap /\ pc' = pc /\ cursor' = cursor /\ called' = called
      /\ owed' = [u \in Thread |-> owed[u] \ {x}]
      /\ IF refs'[x] = 0
           THEN Unlink(x) /\ garbage' = [garbage EXCEPT ![t] = x]
           ELSE UNCHANGED <<links, garbage>>
  BY DEF Remove
<1>5. \A u \in Thread : owed'[u] = owed[u] \ {x}
  BY <1>4
<1>6. /\ Cardinality(Running(x)) \in Nat /\ refs[x] = Cardinality(Running(x)) + 1
      /\ Cardinality(Running(x)) = 0 => Running(x) = {}
  <2>1. Cardinality(Running(x)) \in Nat /\ (Cardinality(Running(x)) = 0 => Running(x) = {})
    BY RunningCounted
  <2> QED BY <1>1, <1>2, <2>1 DEF References
<1>7. refs' \in [Entry -> Nat] /\ refs'[x] = Cardinality(Running(x))
  <2>1. refs'[x] = Cardinality(Running(x))
    BY <1>3, <1>6
  <2>2. refs' = [refs EXCEPT ![x] = refs[x] - 1] /\ refs \in [Entry -> Nat] /\ refs[x] - 1 \in Nat
    BY <1>1, <1>6 DEF Remove, TypeOK
  <2> QED BY <2>1, <2>2
<1>8. owed' \in [Thread -> SUBSET Entry]
  <2>1. \A u \in Thread : owed[u] \ {x} \in SUBSET Entry
    BY <1>1 DEF TypeOK
  <2> QED BY <1>4, <2>1
<1>9. CASE refs'[x] = 0
  <2>1. Unlink(x) /\ garbage' = [garbage EXCEPT ![t] = x] /\ Running(x) = {}
    BY <1>4, <1>6, <1>7, <1>9
  <2>2. \A u \in Thread : ~(pc[u] = "handler" /\ cursor[u] = x)
    BY <2>1 DEF Running
  <2>3. garbage'[t] = x /\ \A u \in Thread \ {t} : garbage'[u] = garbage[u]
    BY <1>1, <2>1 DEF TypeOK
  <2>4. garbage' \in [Thread -> Entry \cup {None}]
    BY <1>1, <2>1 DEF TypeOK
  <2>5. \A u \in Thread : pc[u] = "handler" /\ cursor[u] = x => pc'[u] # "handler"
    BY <2>2
  <2>6. \A u \in Thread : pc'[u] = "handler" => pc[u] = "handler" /\ cursor'[u] = cursor[u]
    BY <1>4
  <2>7. \A u \in Thread : cursor[u] # x /\ pc[u] = "handler" => pc'[u] = "handler"
    BY <1>4
  <2>8. deleted'[x] /\ heap' = heap
    BY <1>3, <1>4
  <2>9. /\ RingInv' /\ HeapInv' /\ LeadsBack' /\ References'
        /\ flink' \in [Node -> Node] /\ blink' \in [Node -> Node]
        /\ \A u \in Thread :
             /\ WalkSound(u)
             /\ pc'[u] = pc[u] /\ cursor'[u] = cursor[u] /\ called'[u] = called[u]
             /\ owed'[u] \subseteq owed[u] \ {x}
             => WalkSound(u)'
    BY <1>2, <1>3, <2>1, <2>3, <2>5, <2>6, <2>7, <2>8, UnlinkKeeps
  <2>10. TypeOK'
    BY <1>1, <1>3, <1>4, <1>7, <1>8, <2>4, <2>9 DEF TypeOK
  <2>11. DispatchInv'
    BY <1>1, <1>4, <1>5, <2>9 DEF DispatchInv
  <2> QED BY <2>9, <2>10, <2>11 DEF VEHInv
<1>10. CASE refs'[x] # 0
  <2>1. flink' = flink /\ blink' = blink /\ garbage' = garbage
    BY <1>4, <1>10 DEF links
  <2>2. Linked' = Linked /\ Allocated' = Allocated
    BY <1>4, <2>1 DEF Linked, Allocated
  <2>3. TypeOK'
    BY <1>1, <1>3, <1>4, <1>7, <1>8, <2>1 DEF TypeOK
  <2>4. RingInv'
    BY <1>1, <1>2, <1>3, <2>1, <2>2 DEF RingInv
  <2>5. HeapInv'
    BY <1>1, <1>2, <1>3, <1>4, <2>1, <2>2 DEF HeapInv
  <2>6. LeadsBack'
    BY <1>1, <1>4, <2>1 DEF LeadsBack
  <2>7. References'
    <3>1. \A e : Running(e)' = Running(e)
      BY <1>4 DEF Running
    <3>2. ASSUME NEW e \in Linked
          PROVE refs'[e] = Cardinality(Running(e)') + (IF deleted'[e] THEN 0 ELSE 1) /\ refs'[e] > 0
      <4>1. CASE e = x
        <5>1. refs'[x] > 0
          BY <1>6, <1>7, <1>10, PositiveNat
        <5>2. refs'[x] = Cardinality(Running(x)) + 0
          BY <1>6, <1>7
        <5> QED BY <1>3, <3>1, <4>1, <5>1, <5>2
      <4>2. CASE e # x
        BY <1>1, <1>2, <1>3, <3>1, <4>2 DEF References
      <4> QED BY <4>1, <4>2
    <3>3. \A u \in Thread : pc'[u] = "handler" => cursor'[u] \in Linked
      BY <1>1, <1>4 DEF References
    <3> QED BY <2>2, <3>2, <3>3 DEF References
  <2>8. DispatchInv'
    <3>1. ASSUME NEW u \in Thread PROVE WalkSound(u)'
      <4>1. WalkSound(u) /\ Called(u)' = Called(u) /\ Ahead(u)' = Ahead(u)
        BY <1>1, <1>4, <2>1 DEF DispatchInv, Called, Ahead
      <4>2. owed'[u] \subseteq {e \in Linked' : ~deleted'[e]}
        BY <1>2, <1>3, <1>5, <2>2, <4>1 DEF WalkSound
      <4> QED BY <1>4, <1>5, <2>2, <4>1, <4>2 DEF WalkSound
    <3> QED BY <3>1 DEF DispatchInv
  <2> QED BY <2>3, <2>4, <2>5, <2>6, <2>7, <2>8 DEF VEHInv
<1> QED BY <1>9, <1>10

\* HeapFree takes an entry that is in no list and in no other thread's hands.
LEMMA FreeKeeps ==
  ASSUME VEHInv, NEW t \in Thread, Free(t)
  PROVE  VEHInv' /\ heap[garbage[t]] = "live"
<1> DEFINE g == garbage[t]
<1>1. TypeOK /\ RingInv /\ HeapInv /\ LeadsBack /\ References /\ DispatchInv
  BY DEF VEHInv
<1>2. /\ flink' = flink /\ blink' = blink /\ refs' = refs /\ deleted' = deleted
      /\ pc' = pc /\ cursor' = cursor /\ called' = called /\ owed' = owed
      /\ g # None /\ heap' = [heap EXCEPT ![g] = "freed"]
      /\ garbage' = [garbage EXCEPT ![t] = None]
  BY DEF Free, links, walks
<1>3. g \in Entry /\ heap[g] = "live" /\ g \notin Linked /\ \A u \in Thread \ {t} : garbage[u] # g
  BY <1>1, <1>2 DEF TypeOK, HeapInv
<1>4. /\ heap'[g] = "freed" /\ \A e \in Entry \ {g} : heap'[e] = heap[e]
      /\ garbage'[t] = None /\ \A u \in Thread \ {t} : garbage'[u] = garbage[u]
      /\ heap' \in [Entry -> {"none", "live", "freed"}] /\ garbage' \in [Thread -> Entry \cup {None}]
  BY <1>1, <1>2, <1>3 DEF TypeOK
<1>5. TypeOK'
  BY <1>1, <1>2, <1>4 DEF TypeOK
<1>6. Linked' = Linked /\ Allocated' = Allocated /\ Linked \subseteq Entry
  <2>1. Allocated' = Allocated
    BY <1>3, <1>4 DEF Allocated
  <2> QED BY <1>1, <1>2, <2>1 DEF Linked, HeapInv
<1> HIDE DEF g
<1>7. RingInv' /\ LeadsBack'
  <2>1. RingInv'
    BY <1>1, <1>2, <1>6 DEF RingInv
  <2>2. \A e \in Entry : heap'[e] # "none" => heap[e] # "none"
    BY <1>3, <1>4
  <2>3. LeadsBack'
    BY <1>1, <1>2, <2>2 DEF LeadsBack
  <2> QED BY <2>1, <2>3
<1>8. HeapInv'
  <2>1. ASSUME NEW e \in Entry
        PROVE  e \in Linked <=> (heap'[e] = "live" /\ \A u \in Thread : garbage'[u] # e)
    <3>1. e \in Linked <=> (heap[e] = "live" /\ \A u \in Thread : garbage[u] # e)
      BY <1>1 DEF HeapInv
    <3>2. CASE e = g
      BY <1>3, <1>4, <3>2
    <3>3. CASE e # g
      BY <1>4, <3>1, <3>3 DEF g
    <3> QED BY <3>2, <3>3
  <2>2. ASSUME NEW u \in Thread, garbage'[u] # None
        PROVE  heap'[garbage'[u]] = "live" /\ \A v \in Thread : garbage'[v] = garbage'[u] => v = u
    <3>1. u # t /\ garbage'[u] = garbage[u] /\ garbage[u] # g
      BY <1>3, <1>4, <2>2
    <3>2. garbage[u] \in Entry /\ heap[garbage[u]] = "live"
          /\ \A v \in Thread : garbage[v] = garbage[u] => v = u
      BY <1>1, <2>2, <3>1 DEF HeapInv, TypeOK
    <3> QED BY <1>4, <2>2, <3>1, <3>2
  <2>3. Linked' = {e \in Entry : heap'[e] = "live" /\ \A u \in Thread : garbage'[u] # e}
    BY <1>6, <2>1
  <2>4. \A e \in Allocated' \ Linked' : deleted'[e]
    BY <1>1, <1>2, <1>6 DEF HeapInv
  <2> QED BY <2>2, <2>3, <2>4 DEF HeapInv
<1>9. References'
  <2>1. \A e : Running(e)' = Running(e)
    BY <1>2 DEF Running
  <2> QED BY <1>1, <1>2, <1>6, <2>1 DEF References
<1>10. DispatchInv'
  <2>1. \A u \in Thread : Called(u)' = Called(u) /\ Ahead(u)' = Ahead(u)
    BY <1>2 DEF Called, Ahead
  <2> QED BY <1>1, <1>2, <1>6, <2>1 DEF DispatchInv, WalkSound
<1> QED BY <1>3, <1>5, <1>7, <1>8, <1>9, <1>10 DEF VEHInv, g

LEMMA AddKeeps ==
  ASSUME VEHInv, NEW t \in Thread, NEW e \in Entry, NEW first \in BOOLEAN, Add(t, e, first)
  PROVE  VEHInv'
<1>1. TypeOK /\ RingInv /\ HeapInv /\ LeadsBack /\ References /\ DispatchInv
  BY DEF VEHInv
<1>2. /\ heap[e] = "none" /\ heap' = [heap EXCEPT ![e] = "live"] /\ refs' = [refs EXCEPT ![e] = 1]
      /\ InsertBefore(e, IF first THEN flink[Anchor] ELSE Anchor)
      /\ deleted' = deleted /\ pc' = pc /\ cursor' = cursor /\ called' = called /\ owed' = owed
      /\ garbage' = garbage
  BY DEF Add, walks
<1>3. /\ heap'[e] = "live" /\ refs'[e] = 1
      /\ \A x \in Entry \ {e} : heap'[x] = heap[x] /\ refs'[x] = refs[x]
      /\ heap' \in [Entry -> {"none", "live", "freed"}] /\ refs' \in [Entry -> Nat]
  BY <1>1, <1>2 DEF TypeOK
<1>4. e \in Entry \ Allocated /\ ~deleted[e] /\ Allocated' = Allocated \cup {e}
  BY <1>1, <1>2, <1>3 DEF Allocated, RingInv
<1>5. Linked \subseteq Allocated /\ Allocated \subseteq Entry
  BY <1>1, ListFacts DEF Allocated
<1>6. /\ flink' \in [Node -> Node] /\ blink' \in [Node -> Node]
      /\ Linked' = Linked \cup {e}
      /\ \A n \in Allocated \cup {Anchor} :
            /\ From(n, flink) \subseteq From(n, flink')
            /\ From(n, flink') \subseteq From(n, flink) \cup {e}
      /\ \A c \in Linked :
            /\ From(flink[c], flink) \subseteq From(flink'[c], flink')
            /\ From(flink'[c], flink') \subseteq From(flink[c], flink) \cup {e}
      /\ RingInv' /\ LeadsBack'
  <2>1. \A x \in Entry \ {e} : refs'[x] = refs[x] /\ deleted'[x] = deleted[x] /\ heap'[x] = heap[x]
    BY <1>2, <1>3
  <2>2. InsertBefore(e, IF first THEN flink[Anchor] ELSE Anchor)
    BY <1>2
  <2> QED BY <1>1, <1>4, <2>1, <2>2, InsertLists
<1>7. TypeOK'
  BY <1>1, <1>2, <1>3, <1>6 DEF TypeOK
<1>8. HeapInv'
  <2>1. \A u \in Thread : garbage[u] # e /\ (garbage[u] # None => garbage[u] \in Entry)
    BY <1>1, <1>2 DEF HeapInv, TypeOK
  <2>2. ASSUME NEW x \in Entry
        PROVE  x \in Linked' <=> (heap'[x] = "live" /\ \A u \in Thread : garbage'[u] # x)
    <3>1. x \in Linked <=> (heap[x] = "live" /\ \A u \in Thread : garbage[u] # x)
      BY <1>1 DEF HeapInv
    <3> QED BY <1>2, <1>3, <1>6, <2>1, <3>1
  <2>3. Linked' = {x \in Entry : heap'[x] = "live" /\ \A u \in Thread : garbage'[u] # x}
    BY <1>5, <1>6, <2>2
  <2>4. ASSUME NEW u \in Thread, garbage'[u] # None
        PROVE  heap'[garbage'[u]] = "live" /\ \A v \in Thread : garbage'[v] = garbage'[u] => v = u
    BY <1>1, <1>2, <1>3, <2>1, <2>4 DEF HeapInv
  <2>5. \A x \in Allocated' \ Linked' : deleted'[x]
    BY <1>1, <1>2, <1>4, <1>6 DEF HeapInv
  <2> QED BY <2>3, <2>4, <2>5 DEF HeapInv
<1>9. References'
  <2>1. \A x : Running(x)' = Running(x)
    BY <1>2 DEF Running
  <2>2. \A u \in Thread : pc'[u] = "handler" => cursor'[u] \in Linked
    BY <1>1, <1>2 DEF References
  <2>3. Running(e) = {}
    BY <1>2, <1>4, <1>5, <2>2 DEF Running
  <2>4. refs'[e] = Cardinality(Running(e)') + (IF deleted'[e] THEN 0 ELSE 1) /\ refs'[e] > 0
    <3>1. Cardinality(Running(e)') = 0
      BY <2>1, <2>3, FS_EmptySet
    <3> QED BY <1>2, <1>3, <1>4, <3>1
  <2>5. ASSUME NEW x \in Linked
        PROVE refs'[x] = Cardinality(Running(x)') + (IF deleted'[x] THEN 0 ELSE 1) /\ refs'[x] > 0
    <3>1. refs'[x] = refs[x] /\ deleted'[x] = deleted[x]
      BY <1>2, <1>3, <1>4, <1>5
    <3> QED BY <1>1, <2>1, <3>1 DEF References
  <2> QED BY <1>6, <2>2, <2>4, <2>5 DEF References
<1>10. DispatchInv'
  <2>1. ASSUME NEW u \in Thread PROVE WalkSound(u)'
    <3>1. WalkSound(u) /\ Called(u)' = Called(u) /\ e \notin Called(u)
      BY <1>1, <1>2, <1>4 DEF DispatchInv, Called, WalkSound
    <3>2. owed'[u] \subseteq {x \in Linked' : ~deleted'[x]}
      BY <1>2, <1>6, <3>1 DEF WalkSound
    <3>3. ASSUME pc[u] \in {"handler", "resume"}
          PROVE  Ahead(u) \subseteq Ahead(u)' /\ Ahead(u)' \subseteq Ahead(u) \cup {e}
      <4>1. CASE pc[u] = "handler"
        <5>1. cursor[u] \in Linked
          BY <1>1, <4>1 DEF References
        <5> QED BY <1>2, <1>6, <4>1, <5>1 DEF Ahead
      <4>2. CASE pc[u] = "resume"
        <5>1. cursor[u] \in Allocated \cup {Anchor}
          BY <3>1, <4>2 DEF WalkSound
        <5> QED BY <1>2, <1>6, <4>2, <5>1 DEF Ahead
      <4> QED BY <3>3, <4>1, <4>2
    <3>4. pc'[u] \in {"handler", "resume"} => owed'[u] \subseteq Ahead(u)' /\ Called(u)' \cap Ahead(u)' = {}
      BY <1>2, <3>1, <3>3 DEF WalkSound
    <3> QED BY <1>2, <1>4, <3>1, <3>2, <3>4 DEF WalkSound
  <2> QED BY <2>1 DEF DispatchInv
<1> QED BY <1>6, <1>7, <1>8, <1>9, <1>10 DEF VEHInv
-----------------------------------------------------------------------------
(* The theorems *)

LEMMA InitVEHInv == Init => VEHInv
<1> SUFFICES ASSUME Init PROVE VEHInv
  OBVIOUS
<1>1. Linked = {} /\ Allocated = {} /\ flink = [n \in Node |-> n] /\ blink = [n \in Node |-> n]
  <2>1. flink[Anchor] = Anchor
    BY DEF Init, Node
  <2> QED BY <2>1, FromAnchor DEF Init, Linked, Allocated
<1>2. TypeOK
  <2>1. flink \in [Node -> Node] /\ blink \in [Node -> Node]
    BY <1>1
  <2>2. <<>> \in Seq(Entry) /\ {} \in SUBSET Entry
    OBVIOUS
  <2>3. cursor \in [Thread -> Node] /\ garbage \in [Thread -> Entry \cup {None}]
    BY DEF Init, Node
  <2>4. called \in [Thread -> Seq(Entry)] /\ owed \in [Thread -> SUBSET Entry]
    BY <2>2 DEF Init
  <2> QED BY <2>1, <2>3, <2>4 DEF Init, TypeOK
<1>3. RingInv
  BY <1>1 DEF Init, RingInv, Node
<1>4. HeapInv
  BY <1>1 DEF Init, HeapInv
<1>5. LeadsBack /\ References
  BY <1>1 DEF Init, LeadsBack, References
<1>6. DispatchInv
  <2>1. ASSUME NEW t \in Thread PROVE WalkSound(t)
    <3>1. pc[t] = "idle" /\ owed[t] = {} /\ called[t] = <<>>
      BY DEF Init
    <3>2. Called(t) = {} /\ IsInjective(called[t])
      BY <3>1 DEF Called, IsInjective
    <3> QED BY <3>1, <3>2 DEF WalkSound
  <2> QED BY <2>1 DEF DispatchInv
<1> QED BY <1>2, <1>3, <1>4, <1>5, <1>6 DEF VEHInv

LEMMA VEHInvStep == VEHInv /\ [Next]_vars => VEHInv'
<1> SUFFICES ASSUME VEHInv, [Next]_vars PROVE VEHInv'
  OBVIOUS
<1>1. ASSUME NEW t \in Thread, Free(t) PROVE VEHInv'
  BY <1>1, FreeKeeps
<1>2. ASSUME NEW t \in Thread, Resume(t) PROVE VEHInv'
  BY <1>2, ResumeKeeps
<1>3. ASSUME NEW t \in Thread, NEW stop \in BOOLEAN, HandlerReturns(t, stop) PROVE VEHInv'
  BY <1>3, HandlerReturnsKeeps
<1>4. ASSUME NEW t \in Thread, Dispatch(t) PROVE VEHInv'
  BY <1>4, DispatchKeeps
<1>5. ASSUME NEW t \in Thread, NEW e \in Entry, Remove(t, e) PROVE VEHInv'
  BY <1>5, RemoveKeeps
<1>6. ASSUME NEW t \in Thread, NEW e \in Entry, NEW first \in BOOLEAN, Add(t, e, first) PROVE VEHInv'
  BY <1>6, AddKeeps
<1>7. CASE UNCHANGED vars
  <2>1. /\ flink' = flink /\ blink' = blink /\ refs' = refs /\ deleted' = deleted /\ heap' = heap
        /\ pc' = pc /\ cursor' = cursor /\ called' = called /\ owed' = owed /\ garbage' = garbage
    BY <1>7 DEF vars, links, walks
  <2>2. Linked' = Linked /\ Allocated' = Allocated
    BY <2>1 DEF Linked, Allocated
  <2>3. TypeOK' /\ RingInv' /\ HeapInv' /\ LeadsBack'
    BY <2>1, <2>2 DEF VEHInv, TypeOK, RingInv, HeapInv, LeadsBack
  <2>4. References'
    <3>1. \A e : Running(e)' = Running(e)
      BY <2>1 DEF Running
    <3> QED BY <2>1, <2>2, <3>1 DEF VEHInv, References
  <2>5. DispatchInv'
    <3>1. \A t \in Thread : Ahead(t)' = Ahead(t) /\ Called(t)' = Called(t)
      BY <2>1 DEF Ahead, Called
    <3> QED BY <2>1, <2>2, <3>1 DEF VEHInv, DispatchInv, WalkSound
  <2> QED BY <2>3, <2>4, <2>5 DEF VEHInv
<1> QED BY <1>1, <1>2, <1>3, <1>4, <1>5, <1>6, <1>7 DEF Next, Proceed

LEMMA Inductive == Spec => []VEHInv
BY InitVEHInv, VEHInvStep, PTL DEF Spec

\* The state of w2k_veh.c keeps its type, whatever handlers do.
THEOREM TypeCorrect == Spec => []TypeOK
<1>1. VEHInv => TypeOK
  BY DEF VEHInv
<1> QED BY <1>1, Inductive, PTL

\* The list of registrations is a ring both ways that holds exactly what is
\* registered, every way leads back to its head, and each reference count is the
\* number of users: for any number of dispatches and calls at the same time.
THEOREM RegistrationsSoundHolds == Spec => []RegistrationsSound
<1>1. VEHInv => RegistrationsSound
  <2> SUFFICES ASSUME VEHInv PROVE RegistrationsSound
    OBVIOUS
  <2>1. ListSound
    BY DEF VEHInv, RingInv, HeapInv, ListSound
  <2> QED BY <2>1 DEF VEHInv, RegistrationsSound
<1> QED BY <1>1, Inductive, PTL

\* A dispatch that runs to its end has called every handler that was registered
\* all along, and no dispatch calls a handler twice.
THEOREM EachCalledOnceHolds == Spec => []EachCalledOnce
<1>1. VEHInv => EachCalledOnce
  <2> SUFFICES ASSUME VEHInv PROVE EachCalledOnce
    OBVIOUS
  <2>1. \A t \in Thread : WalkSound(t)
    BY DEF VEHInv, DispatchInv
  <2> QED BY <2>1 DEF WalkSound, EachCalledOnce, NobodySkipped, CalledOnce
<1> QED BY <1>1, Inductive, PTL

\* HeapFree gets an entry that is live, that the list no longer leads to and that
\* no other thread frees: nothing is freed twice or while it is registered.
THEOREM FreedByOne ==
  Spec => [](\A t \in Thread : garbage[t] # None =>
                /\ heap[garbage[t]] = "live" /\ garbage[t] \notin Linked
                /\ \A u \in Thread : garbage[u] = garbage[t] => u = t)
<1>1. VEHInv => \A t \in Thread : garbage[t] # None =>
                /\ heap[garbage[t]] = "live" /\ garbage[t] \notin Linked
                /\ \A u \in Thread : garbage[u] = garbage[t] => u = t
  BY DEF VEHInv, HeapInv
<1> QED BY <1>1, Inductive, PTL

\* A walk enters no handler that is marked.
LEMMA WalkEntersLive ==
  ASSUME TypeOK, NEW t \in Thread, NEW n \in Node, NEW counts, NEW done, NEW due,
         WalkFrom(t, n, counts, done, due), NEW e \in Entry, deleted[e]
  PROVE  Running(e)' \subseteq Running(e)
<1> DEFINE m == FirstLive(n)
<1>1. IsLink(flink)
  BY DEF TypeOK, IsLink, Node
<1>2. m # Anchor => ~Passed(m)
  BY <1>1, WalkStops
<1>3. /\ cursor' = [cursor EXCEPT ![t] = m]
      /\ \/ pc' = [pc EXCEPT ![t] = IF m = Anchor THEN "idle" ELSE "fault"]
         \/ pc' = [pc EXCEPT ![t] = "handler"] /\ m \notin Freed \cup {Anchor}
  BY DEF WalkFrom
<1> HIDE DEF m
<1>4. /\ \A u \in Thread \ {t} : pc'[u] = pc[u] /\ cursor'[u] = cursor[u]
      /\ pc'[t] = "handler" => cursor'[t] = m /\ m \notin Freed \cup {Anchor}
  BY <1>3 DEF TypeOK
<1>5. pc'[t] = "handler" => cursor'[t] # e
  BY <1>2, <1>4 DEF Passed, Skipped
<1> QED BY <1>4, <1>5 DEF Running

LEMMA RemovedNotCalledStep ==
  ASSUME VEHInv, [Next]_vars, NEW e \in Entry, deleted[e]
  PROVE  Running(e)' \subseteq Running(e)
<1>1. TypeOK /\ RingInv /\ HeapInv /\ LeadsBack /\ References
  BY DEF VEHInv
<1>2. CASE pc' = pc /\ cursor' = cursor
  BY <1>2 DEF Running
<1>3. ASSUME NEW t \in Thread, Resume(t) PROVE Running(e)' \subseteq Running(e)
  <2>1. WalkFrom(t, cursor[t], refs, called[t], owed[t]) /\ cursor[t] \in Node
    BY <1>1, <1>3 DEF Resume, TypeOK
  <2> QED BY <1>1, <2>1, WalkEntersLive
<1>4. ASSUME NEW t \in Thread, Dispatch(t) PROVE Running(e)' \subseteq Running(e)
  <2>1. WalkFrom(t, flink[Anchor], refs, <<>>, {x \in Linked : ~deleted[x]}) /\ flink[Anchor] \in Node
    BY <1>1, <1>4 DEF Dispatch, TypeOK, Node
  <2> QED BY <1>1, <2>1, WalkEntersLive
<1>5. ASSUME NEW t \in Thread, NEW stop \in BOOLEAN, HandlerReturns(t, stop)
      PROVE  Running(e)' \subseteq Running(e)
  <2>1. CASE \E next \in {"idle", "resume"} :
                 pc' = [pc EXCEPT ![t] = next] /\ \A u \in Thread \ {t} : cursor'[u] = cursor[u]
    <3>1. \A u \in Thread : pc'[u] = "handler" => u # t /\ pc[u] = "handler" /\ cursor'[u] = cursor[u]
      BY <1>1, <2>1 DEF TypeOK
    <3> QED BY <3>1 DEF Running
  <2>2. CASE WalkFrom(t, flink[cursor[t]], [refs EXCEPT ![cursor[t]] = refs[cursor[t]] - 1],
                      called[t], owed[t])
    <3>1. flink[cursor[t]] \in Node
      BY <1>1 DEF TypeOK
    <3> QED BY <1>1, <2>2, <3>1, WalkEntersLive
  <2>3. \/ pc' = [pc EXCEPT ![t] = IF stop THEN "idle" ELSE "resume"]
           /\ cursor' = [cursor EXCEPT ![t] = flink[cursor[t]]]
        \/ pc' = [pc EXCEPT ![t] = "idle"] /\ cursor' = cursor
        \/ WalkFrom(t, flink[cursor[t]], [refs EXCEPT ![cursor[t]] = refs[cursor[t]] - 1],
                    called[t], owed[t])
    BY <1>5 DEF HandlerReturns, NextNode
  <2>4. cursor' = [cursor EXCEPT ![t] = flink[cursor[t]]] => \A u \in Thread \ {t} : cursor'[u] = cursor[u]
    BY <1>1 DEF TypeOK
  <2> QED BY <2>1, <2>2, <2>3, <2>4
<1>6. ASSUME NEW t \in Thread, Free(t) PROVE Running(e)' \subseteq Running(e)
  BY <1>2, <1>6 DEF Free, walks
<1>7. ASSUME NEW t \in Thread, NEW x \in Entry, Remove(t, x) PROVE Running(e)' \subseteq Running(e)
  BY <1>2, <1>7 DEF Remove
<1>8. ASSUME NEW t \in Thread, NEW x \in Entry, NEW first \in BOOLEAN, Add(t, x, first)
      PROVE  Running(e)' \subseteq Running(e)
  BY <1>2, <1>8 DEF Add, walks
<1>9. CASE UNCHANGED vars
  BY <1>2, <1>9 DEF vars, walks
<1> QED BY <1>3, <1>4, <1>5, <1>6, <1>7, <1>8, <1>9 DEF Next, Proceed

\* Once W2KRemoveVectoredExceptionHandler has marked an entry, no dispatch enters
\* its handler any more, also one that was on its way to it.
THEOREM RemovedNotCalledHolds == Spec => RemovedNotCalled
<1>1. VEHInv /\ [Next]_vars =>
          [\A e \in Entry : deleted[e] => Running(e)' \subseteq Running(e)]_vars
  BY RemovedNotCalledStep
<1> QED BY <1>1, Inductive, PTL DEF Spec, RemovedNotCalled

LEMMA FaultStep ==
  ASSUME VEHInv, [Next]_vars, NEW u \in Thread, pc'[u] = "fault"
  PROVE  pc[u] \in {"resume", "fault"}
<1>1. TypeOK /\ RingInv /\ HeapInv /\ LeadsBack /\ References
  BY DEF VEHInv
<1>2. CASE pc' = pc
  BY <1>2
<1>3. ASSUME NEW t \in Thread, Resume(t) PROVE pc[u] \in {"resume", "fault"}
  <2>1. pc[t] = "resume" /\ \A v \in Thread \ {t} : pc'[v] = pc[v]
    BY <1>1, <1>3 DEF Resume, WalkFrom, TypeOK
  <2> QED BY <2>1
<1>4. ASSUME NEW t \in Thread, Dispatch(t) PROVE pc[u] \in {"resume", "fault"}
  <2>1. WalkFrom(t, flink[Anchor], refs, <<>>, {e \in Linked : ~deleted[e]})
    BY <1>4 DEF Dispatch
  <2>2. pc'[t] # "fault" /\ \A v \in Thread \ {t} : pc'[v] = pc[v]
    BY <1>1, <2>1, NoFaultInList
  <2> QED BY <2>2
<1>5. ASSUME NEW t \in Thread, NEW stop \in BOOLEAN, HandlerReturns(t, stop)
      PROVE  pc[u] \in {"resume", "fault"}
  <2>1. CASE \E next \in {"idle", "resume"} : pc' = [pc EXCEPT ![t] = next]
    <3>1. pc'[t] # "fault" /\ \A v \in Thread \ {t} : pc'[v] = pc[v]
      BY <1>1, <2>1 DEF TypeOK
    <3> QED BY <3>1
  <2>2. CASE WalkFrom(t, flink[cursor[t]], [refs EXCEPT ![cursor[t]] = refs[cursor[t]] - 1],
                      called[t], owed[t])
    <3>1. cursor[t] \in Linked
      BY <1>1, <1>5 DEF HandlerReturns, References
    <3>2. pc'[t] # "fault" /\ \A v \in Thread \ {t} : pc'[v] = pc[v]
      BY <1>1, <2>2, <3>1, NoFaultInList
    <3> QED BY <3>2
  <2> QED BY <1>5, <2>1, <2>2 DEF HandlerReturns, NextNode
<1>6. ASSUME NEW t \in Thread, Free(t) PROVE pc[u] \in {"resume", "fault"}
  BY <1>2, <1>6 DEF Free, walks
<1>7. ASSUME NEW t \in Thread, NEW x \in Entry, Remove(t, x) PROVE pc[u] \in {"resume", "fault"}
  BY <1>2, <1>7 DEF Remove
<1>8. ASSUME NEW t \in Thread, NEW x \in Entry, NEW first \in BOOLEAN, Add(t, x, first)
      PROVE  pc[u] \in {"resume", "fault"}
  BY <1>2, <1>8 DEF Add, walks
<1>9. CASE UNCHANGED vars
  BY <1>2, <1>9 DEF vars, walks
<1> QED BY <1>3, <1>4, <1>5, <1>6, <1>7, <1>8, <1>9 DEF Next, Proceed

\* The walk reads freed memory at most when it takes g_lock again after HeapFree:
\* the references protect every other step of every dispatch.
THEOREM FaultsOnlyOnResumeHolds == Spec => FaultsOnlyOnResume
<1>1. VEHInv /\ [Next]_vars =>
          [\A t \in Thread : pc'[t] = "fault" => pc[t] \in {"resume", "fault"}]_vars
  BY FaultStep
<1> QED BY <1>1, Inductive, PTL DEF Spec, FaultsOnlyOnResume
=============================================================================
