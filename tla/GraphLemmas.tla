-------------------------- MODULE GraphLemmas --------------------------
(***************************************************************************)
(* What the operators of ChangesetGraph do, for every graph: ancestors and *)
(* descendants are the least closed sets, and moving the boundary of a     *)
(* phase, or adding changesets, leaves the phases of children at least as  *)
(* high as those of their parents.                                         *)
(*                                                                         *)
(* Ancestors and Descendants are recursive functions.  That functions with *)
(* such equations exist is shown by giving one (Anc, an intersection of    *)
(* closed sets); that there is no other follows from the order of the      *)
(* changesets, a child above its parents.                                  *)
(***************************************************************************)
EXTENDS ChangesetGraph, FiniteSetTheorems, TLAPS

\* A set of natural numbers has a least element.
LEMMA Least ==
    ASSUME NEW T, T \subseteq Nat, T # {}
    PROVE  \E m \in T : \A k \in T : m <= k
<1> DEFINE R == OpToRel(<, Nat)
<1>1. IsWellFoundedOn(R, Nat)
  BY NatLessThanWellFounded
<1>2. \A x, y \in Nat : x < y => <<x, y>> \in R
  BY DEF OpToRel
<1> HIDE DEF R
<1>3. PICK m \in T : \A k \in T : ~(<<k, m>> \in R)
  BY <1>1, WFMin
<1>4. \A k \in T : k \in Nat /\ m \in Nat /\ ~(k < m)
  BY <1>2, <1>3
<1> QED BY <1>3, <1>4

IsGraph(g) ==
    /\ Nodes(g) \subseteq Nat
    /\ \A n \in Nodes(g) : g[n] \subseteq Nodes(g) /\ \A p \in g[n] : p < n

\* C contains the parents, respectively the children, of its members.
DownClosed(g, C) == \A n \in C : g[n] \subseteq C
UpClosed(g, C) == \A n \in Nodes(g) : g[n] \cap C # {} => n \in C

-----------------------------------------------------------------------------
(* Ancestors                                                               *)

\* What every closed set that contains n contains
Anc(g, n) == {a \in Nodes(g) : \A C \in SUBSET Nodes(g) : n \in C /\ DownClosed(g, C) => a \in C}

LEMMA AncClosed ==
    ASSUME NEW g, IsGraph(g), NEW n \in Nodes(g)
    PROVE  /\ n \in Anc(g, n) /\ Anc(g, n) \subseteq Nodes(g)
           /\ DownClosed(g, Anc(g, n))
           /\ \A C \in SUBSET Nodes(g) : n \in C /\ DownClosed(g, C) => Anc(g, n) \subseteq C
<1>1. n \in Anc(g, n) /\ Anc(g, n) \subseteq Nodes(g)
  BY DEF Anc
<1>2. ASSUME NEW a \in Anc(g, n), NEW p \in g[a] PROVE p \in Anc(g, n)
  <2>1. a \in Nodes(g) /\ p \in Nodes(g)
    BY <1>2 DEF Anc, IsGraph
  <2>2. ASSUME NEW C \in SUBSET Nodes(g), n \in C, DownClosed(g, C) PROVE p \in C
    <3>1. a \in C
      BY <2>2 DEF Anc
    <3> QED BY <2>2, <3>1 DEF DownClosed
  <2> QED BY <2>1, <2>2 DEF Anc
<1>3. \A C \in SUBSET Nodes(g) : n \in C /\ DownClosed(g, C) => Anc(g, n) \subseteq C
  BY DEF Anc
<1> QED BY <1>1, <1>2, <1>3 DEF DownClosed

\* Ancestors of a changeset: itself, and the ancestors of its parents.
LEMMA AncStep ==
    ASSUME NEW g, IsGraph(g), NEW n \in Nodes(g)
    PROVE  Anc(g, n) = {n} \cup UNION {Anc(g, p) : p \in g[n]}
<1> DEFINE R == {n} \cup UNION {Anc(g, p) : p \in g[n]}
<1>1. g[n] \subseteq Nodes(g)
  BY DEF IsGraph
<1>2. R \subseteq Nodes(g) /\ n \in R
  BY <1>1, AncClosed
<1>3. DownClosed(g, R)
  <2>1. ASSUME NEW a \in R, NEW q \in g[a] PROVE q \in R
    <3>1. CASE a = n
      BY <1>1, <2>1, <3>1, AncClosed
    <3>2. ASSUME NEW p \in g[n], a \in Anc(g, p) PROVE q \in R
      <4>1. q \in Anc(g, p)
        BY <1>1, <2>1, <3>2, AncClosed DEF DownClosed
      <4> QED BY <4>1
    <3> QED BY <3>1, <3>2
  <2> QED BY <2>1 DEF DownClosed
<1>4. Anc(g, n) \subseteq R
  BY <1>2, <1>3, AncClosed
<1>5. ASSUME NEW p \in g[n] PROVE Anc(g, p) \subseteq Anc(g, n)
  <2>1. p \in Anc(g, n)
    BY AncClosed DEF DownClosed
  <2> QED BY <1>1, <2>1, AncClosed
<1>6. R \subseteq Anc(g, n)
  BY <1>5, AncClosed
<1> QED BY <1>4, <1>6

\* A function that is what Ancestors computes is Anc.
LEMMA AncUnique ==
    ASSUME NEW g, IsGraph(g), NEW f,
           \A n \in Nodes(g) : f[n] = {n} \cup UNION {f[p] : p \in g[n]}
    PROVE  \A n \in Nodes(g) : f[n] = Anc(g, n)
<1> DEFINE T == {n \in Nodes(g) : f[n] # Anc(g, n)}
<1> SUFFICES ASSUME T # {} PROVE FALSE
  OBVIOUS
<1>1. T \subseteq Nat
  BY DEF IsGraph
<1>2. PICK m \in T : \A k \in T : m <= k
  BY <1>1, Least
<1>3. \A p \in g[m] : p \in Nodes(g) /\ p \in Nat /\ m \in Nat /\ p < m
  BY DEF IsGraph
<1>4. \A p \in g[m] : f[p] = Anc(g, p)
  BY <1>2, <1>3
<1>5. {f[p] : p \in g[m]} = {Anc(g, p) : p \in g[m]}
  BY <1>4
<1>6. f[m] = Anc(g, m)
  BY <1>5, AncStep
<1> QED BY <1>6

LEMMA AncestorsAre ==
    ASSUME NEW g, IsGraph(g), NEW S, S \subseteq Nodes(g)
    PROVE  Ancestors(g, S) = UNION {Anc(g, n) : n \in S}
<1> DEFINE Rec(f) == f = [n \in Nodes(g) |-> {n} \cup UNION {f[p] : p \in g[n]}]
           h == [n \in Nodes(g) |-> Anc(g, n)]
           f == CHOOSE u : Rec(u)
<1>1. \A n \in Nodes(g) : h[n] = {n} \cup UNION {h[p] : p \in g[n]}
  <2> SUFFICES ASSUME NEW n \in Nodes(g) PROVE h[n] = {n} \cup UNION {h[p] : p \in g[n]}
    OBVIOUS
  <2>1. \A p \in g[n] : h[p] = Anc(g, p)
    BY DEF IsGraph
  <2>2. {h[p] : p \in g[n]} = {Anc(g, p) : p \in g[n]}
    <3> HIDE DEF h
    <3> QED BY <2>1
  <2>3. h[n] = Anc(g, n)
    OBVIOUS
  <2> HIDE DEF h
  <2> QED BY <2>2, <2>3, AncStep
<1>2. Rec(h)
  <2>1. DOMAIN h = Nodes(g) /\ h = [n \in Nodes(g) |-> h[n]]
    OBVIOUS
  <2> HIDE DEF h
  <2> QED BY <1>1, <2>1
<1>3. Rec(f)
  <2> HIDE DEF h, Rec
  <2> QED BY <1>2
<1>4. Ancestors(g, S) = UNION {f[n] : n \in S}
  BY DEF Ancestors
<1> HIDE DEF f
<1>5. \A n \in Nodes(g) : f[n] = {n} \cup UNION {f[p] : p \in g[n]}
  <2> DEFINE k == [n \in Nodes(g) |-> {n} \cup UNION {f[p] : p \in g[n]}]
  <2>1. f = k
    BY <1>3
  <2>2. \A n \in Nodes(g) : k[n] = {n} \cup UNION {f[p] : p \in g[n]}
    OBVIOUS
  <2> HIDE DEF k
  <2> QED BY <2>1, <2>2
<1>6. \A n \in Nodes(g) : f[n] = Anc(g, n)
  BY <1>5, AncUnique
<1>7. {f[n] : n \in S} = {Anc(g, n) : n \in S}
  BY <1>6
<1> QED BY <1>4, <1>7

\* The ancestors of S are the least closed set around it.
LEMMA AncestorsClosed ==
    ASSUME NEW g, IsGraph(g), NEW S, S \subseteq Nodes(g)
    PROVE  /\ S \subseteq Ancestors(g, S) /\ Ancestors(g, S) \subseteq Nodes(g)
           /\ DownClosed(g, Ancestors(g, S))
<1>1. Ancestors(g, S) = UNION {Anc(g, n) : n \in S}
  BY AncestorsAre
<1>2. S \subseteq Ancestors(g, S) /\ Ancestors(g, S) \subseteq Nodes(g)
  BY <1>1, AncClosed
<1>3. ASSUME NEW a \in Ancestors(g, S) PROVE g[a] \subseteq Ancestors(g, S)
  <2>1. PICK n \in S : a \in Anc(g, n)
    BY <1>1
  <2>2. g[a] \subseteq Anc(g, n)
    BY <2>1, AncClosed DEF DownClosed
  <2> QED BY <1>1, <2>2
<1> QED BY <1>2, <1>3 DEF DownClosed

LEMMA AncestorsLeast ==
    ASSUME NEW g, IsGraph(g), NEW S, S \subseteq Nodes(g),
           NEW C, S \subseteq C, DownClosed(g, C)
    PROVE  Ancestors(g, S) \subseteq C
<1> DEFINE D == C \cap Nodes(g)
<1>1. DownClosed(g, D) /\ S \subseteq D
  BY DEF DownClosed, IsGraph
<1>2. ASSUME NEW n \in S PROVE Anc(g, n) \subseteq D
  <2>1. n \in Nodes(g) /\ n \in D /\ D \in SUBSET Nodes(g)
    BY <1>1
  <2> HIDE DEF D
  <2> QED BY <1>1, <2>1, AncClosed
<1>3. Ancestors(g, S) = UNION {Anc(g, n) : n \in S}
  BY AncestorsAre
<1> QED BY <1>2, <1>3

\* More changesets have more ancestors.
LEMMA AncestorsMonotone ==
    ASSUME NEW g, IsGraph(g), NEW T, T \subseteq Nodes(g), NEW S, S \subseteq Ancestors(g, T)
    PROVE  Ancestors(g, S) \subseteq Ancestors(g, T)
<1>1. DownClosed(g, Ancestors(g, T)) /\ S \subseteq Nodes(g)
  BY AncestorsClosed
<1> QED BY <1>1, AncestorsLeast

\* An ancestor that is not the changeset itself has a child among the ancestors.
LEMMA AncestorsOf ==
    ASSUME NEW g, IsGraph(g), NEW S, S \subseteq Nodes(g), NEW a \in Ancestors(g, S)
    PROVE  a \in S \/ \E c \in Ancestors(g, S) : a \in g[c]
<1> DEFINE C == {x \in Ancestors(g, S) : x \in S \/ \E c \in Ancestors(g, S) : x \in g[c]}
<1>1. S \subseteq C /\ DownClosed(g, C)
  BY AncestorsClosed DEF DownClosed
<1>2. Ancestors(g, S) \subseteq C
  <2> HIDE DEF C
  <2> QED BY <1>1, AncestorsLeast
<1> QED BY <1>2

-----------------------------------------------------------------------------
(* Descendants                                                             *)

\* A set that is what Descendants computes consists of what has an ancestor in S.
LEMMA BelowUnique ==
    ASSUME NEW g, IsGraph(g), NEW S, NEW B,
           \A n \in Nodes(g) : n \in B <=> n \in S \/ \E p \in g[n] : p \in B
    PROVE  \A n \in Nodes(g) : n \in B <=> Anc(g, n) \cap S # {}
<1> DEFINE T == {n \in Nodes(g) : ~(n \in B <=> Anc(g, n) \cap S # {})}
<1> SUFFICES ASSUME T # {} PROVE FALSE
  OBVIOUS
<1>1. T \subseteq Nat
  BY DEF IsGraph
<1>2. PICK m \in T : \A k \in T : m <= k
  BY <1>1, Least
<1>3. \A p \in g[m] : p \in Nodes(g) /\ p \in Nat /\ m \in Nat /\ p < m
  BY DEF IsGraph
<1>4. \A p \in g[m] : p \in B <=> Anc(g, p) \cap S # {}
  BY <1>2, <1>3
<1>5. Anc(g, m) = {m} \cup UNION {Anc(g, p) : p \in g[m]}
  BY AncStep
<1>6. (Anc(g, m) \cap S # {}) <=> (m \in S \/ \E p \in g[m] : Anc(g, p) \cap S # {})
  BY <1>5
<1> QED BY <1>4, <1>6

\* The descendants of S are what has an ancestor in S.
LEMMA DescendantsAre ==
    ASSUME NEW g, IsGraph(g), NEW S
    PROVE  Descendants(g, S) = {n \in Nodes(g) : Anc(g, n) \cap S # {}}
<1> DEFINE Rec(f) == f = [n \in Nodes(g) |-> n \in S \/ \E p \in g[n] : f[p]]
           h == [n \in Nodes(g) |-> Anc(g, n) \cap S # {}]
           f == CHOOSE u : Rec(u)
<1>1. \A n \in Nodes(g) : h[n] = (n \in S \/ \E p \in g[n] : h[p])
  <2> SUFFICES ASSUME NEW n \in Nodes(g) PROVE h[n] = (n \in S \/ \E p \in g[n] : h[p])
    OBVIOUS
  <2>1. \A p \in g[n] : h[p] = (Anc(g, p) \cap S # {})
    BY DEF IsGraph
  <2>2. h[n] = (Anc(g, n) \cap S # {})
    OBVIOUS
  <2> HIDE DEF h
  <2>3. Anc(g, n) = {n} \cup UNION {Anc(g, p) : p \in g[n]}
    BY AncStep
  <2>4. (Anc(g, n) \cap S # {}) <=> (n \in S \/ \E p \in g[n] : Anc(g, p) \cap S # {})
    BY <2>3
  <2>5. (\E p \in g[n] : h[p]) <=> (\E p \in g[n] : Anc(g, p) \cap S # {})
    BY <2>1
  <2> QED BY <2>2, <2>4, <2>5
<1>2. Rec(h)
  <2> DEFINE k == [n \in Nodes(g) |-> n \in S \/ \E p \in g[n] : h[p]]
  <2>1. DOMAIN h = Nodes(g) /\ h = [n \in Nodes(g) |-> h[n]]
    OBVIOUS
  <2> HIDE DEF h
  <2>2. k = [n \in Nodes(g) |-> h[n]]
    BY <1>1
  <2> QED BY <2>1, <2>2
<1>3. Rec(f)
  <2> HIDE DEF h, Rec
  <2> QED BY <1>2
<1>4. Descendants(g, S) = {n \in Nodes(g) : f[n]}
  BY DEF Descendants
<1> HIDE DEF f
<1>5. \A n \in Nodes(g) : f[n] = (n \in S \/ \E p \in g[n] : f[p])
  <2> DEFINE k == [n \in Nodes(g) |-> n \in S \/ \E p \in g[n] : f[p]]
  <2>1. f = k
    BY <1>3
  <2>2. \A n \in Nodes(g) : k[n] = (n \in S \/ \E p \in g[n] : f[p])
    OBVIOUS
  <2> HIDE DEF k
  <2> QED BY <2>1, <2>2
<1> DEFINE B == {n \in Nodes(g) : f[n]}
<1>6. \A n \in Nodes(g) : n \in B <=> n \in S \/ \E p \in g[n] : p \in B
  <2> SUFFICES ASSUME NEW n \in Nodes(g) PROVE n \in B <=> n \in S \/ \E p \in g[n] : p \in B
    OBVIOUS
  <2>1. g[n] \subseteq Nodes(g)
    BY DEF IsGraph
  <2>2. f[n] <=> n \in S \/ \E p \in g[n] : f[p]
    BY <1>5
  <2> QED BY <2>1, <2>2
<1> HIDE DEF B
<1>7. \A n \in Nodes(g) : n \in B <=> Anc(g, n) \cap S # {}
  BY <1>6, BelowUnique
<1>8. B \subseteq Nodes(g) /\ Descendants(g, S) = B
  BY <1>4 DEF B
<1> QED BY <1>7, <1>8

\* The descendants of S are the least set around it that is closed upwards.
LEMMA DescendantsClosed ==
    ASSUME NEW g, IsGraph(g), NEW S
    PROVE  /\ S \cap Nodes(g) \subseteq Descendants(g, S)
           /\ Descendants(g, S) \subseteq Nodes(g)
           /\ UpClosed(g, Descendants(g, S))
<1>1. Descendants(g, S) = {n \in Nodes(g) : Anc(g, n) \cap S # {}}
  BY DescendantsAre
<1>2. S \cap Nodes(g) \subseteq Descendants(g, S)
  BY <1>1, AncClosed
<1>3. ASSUME NEW n \in Nodes(g), NEW p \in g[n], p \in Descendants(g, S)
      PROVE  n \in Descendants(g, S)
  <2>1. Anc(g, p) \subseteq Anc(g, n)
    BY AncStep
  <2> QED BY <1>1, <1>3, <2>1
<1> QED BY <1>1, <1>2, <1>3 DEF UpClosed

LEMMA DescendantsLeast ==
    ASSUME NEW g, IsGraph(g), NEW S, NEW C, S \cap Nodes(g) \subseteq C, UpClosed(g, C)
    PROVE  Descendants(g, S) \subseteq C
<1> DEFINE D == Nodes(g) \ C
<1>1. DownClosed(g, D)
  BY DEF UpClosed, DownClosed, IsGraph
<1>2. ASSUME NEW n \in Nodes(g), n \notin C PROVE Anc(g, n) \cap S = {}
  <2>1. n \in D /\ D \in SUBSET Nodes(g)
    BY <1>2
  <2>2. Anc(g, n) \subseteq D
    <3> HIDE DEF D
    <3> QED BY <1>1, <2>1, AncClosed
  <2> QED BY <2>2
<1>3. Descendants(g, S) = {n \in Nodes(g) : Anc(g, n) \cap S # {}}
  BY DescendantsAre
<1> QED BY <1>2, <1>3

\* Ancestors and descendants are two sides of one relation.
LEMMA Related ==
    ASSUME NEW g, IsGraph(g), NEW n \in Nodes(g), NEW S
    PROVE  n \in Descendants(g, S) <=> Ancestors(g, {n}) \cap S # {}
<1>1. Ancestors(g, {n}) = Anc(g, n)
  <2>1. Ancestors(g, {n}) = UNION {Anc(g, m) : m \in {n}}
    BY AncestorsAre
  <2> QED BY <2>1
<1> QED BY <1>1, DescendantsAre

\* Below each member of D there is a root of D.
LEMMA RootBelow ==
    ASSUME NEW g, IsGraph(g), NEW D, NEW n \in D \cap Nodes(g)
    PROVE  \E r \in Ancestors(g, {n}) : r \in RootsOf(g, D)
<1> DEFINE T == Ancestors(g, {n}) \cap D
<1>1. {n} \subseteq Ancestors(g, {n}) /\ Ancestors(g, {n}) \subseteq Nodes(g)
      /\ DownClosed(g, Ancestors(g, {n}))
  BY AncestorsClosed
<1>2. T \subseteq Nat /\ T # {}
  BY <1>1 DEF IsGraph
<1>3. PICK r \in T : \A k \in T : r <= k
  BY <1>2, Least
<1>4. \A p \in g[r] : p \in Ancestors(g, {n}) /\ p \in Nat /\ r \in Nat /\ p < r
  BY <1>1 DEF IsGraph, DownClosed
<1>5. g[r] \cap D = {}
  BY <1>3, <1>4
<1> QED BY <1>5 DEF RootsOf

\* Every ancestor of S is an ancestor of one member.
LEMMA AncestorOfOne ==
    ASSUME NEW g, IsGraph(g), NEW S, S \subseteq Nodes(g), NEW a \in Ancestors(g, S)
    PROVE  \E n \in S : a \in Ancestors(g, {n})
<1>1. PICK n \in S : a \in Anc(g, n)
  BY AncestorsAre
<1>2. Ancestors(g, {n}) = UNION {Anc(g, m) : m \in {n}}
  BY AncestorsAre
<1> QED BY <1>1, <1>2

-----------------------------------------------------------------------------
(* Parts of a graph, and changesets added to it                            *)

\* The changesets that a repository holds are a graph, in which ancestors are
\* the same.
LEMMA RestrictedGraph ==
    ASSUME NEW g, IsGraph(g), NEW H, H \subseteq Nodes(g), DownClosed(g, H)
    PROVE  /\ Nodes(Restricted(g, H)) = H /\ IsGraph(Restricted(g, H))
           /\ \A n \in H : Restricted(g, H)[n] = g[n]
           /\ \A S \in SUBSET H : Ancestors(Restricted(g, H), S) = Ancestors(g, S)
<1> DEFINE r == Restricted(g, H)
<1>1. Nodes(r) = H /\ \A n \in H : r[n] = g[n]
  BY DEF Nodes, Restricted
<1> HIDE DEF r
<1>2. IsGraph(r)
  BY <1>1 DEF IsGraph, DownClosed
<1>3. ASSUME NEW S \in SUBSET H PROVE Ancestors(r, S) = Ancestors(g, S)
  <2>1. S \subseteq Nodes(r) /\ S \subseteq Nodes(g)
    BY <1>1
  <2>2. S \subseteq Ancestors(r, S) /\ Ancestors(r, S) \subseteq H /\ DownClosed(r, Ancestors(r, S))
    BY <1>1, <1>2, <2>1, AncestorsClosed
  <2>3. S \subseteq Ancestors(g, S) /\ DownClosed(g, Ancestors(g, S))
    BY <2>1, AncestorsClosed
  <2>4. DownClosed(g, Ancestors(r, S))
    BY <1>1, <2>2 DEF DownClosed
  <2>5. Ancestors(g, S) \subseteq Ancestors(r, S)
    BY <2>1, <2>2, <2>4, AncestorsLeast
  <2>6. Ancestors(g, S) \subseteq H
    BY <2>2, <2>5
  <2>7. DownClosed(r, Ancestors(g, S))
    BY <1>1, <2>3, <2>6 DEF DownClosed
  <2>8. Ancestors(r, S) \subseteq Ancestors(g, S)
    BY <1>2, <2>1, <2>3, <2>7, AncestorsLeast
  <2> QED BY <2>5, <2>8
<1> QED BY <1>1, <1>2, <1>3 DEF r

\* Changesets that are added later change neither ancestors nor heads.
LEMMA ExtendedGraph ==
    ASSUME NEW g, IsGraph(g), NEW h, IsGraph(h), Nodes(g) \subseteq Nodes(h),
           \A n \in Nodes(g) : h[n] = g[n], NEW S \in SUBSET Nodes(g)
    PROVE  /\ Ancestors(h, S) = Ancestors(g, S)
           /\ HeadsOf(h, S) = HeadsOf(g, S) /\ RootsOf(h, S) = RootsOf(g, S)
<1>1. /\ S \subseteq Ancestors(g, S) /\ Ancestors(g, S) \subseteq Nodes(g)
      /\ DownClosed(g, Ancestors(g, S))
      /\ S \subseteq Ancestors(h, S) /\ DownClosed(h, Ancestors(h, S))
  BY AncestorsClosed
<1>2. DownClosed(h, Ancestors(g, S))
  BY <1>1 DEF DownClosed
<1>3. Ancestors(h, S) \subseteq Ancestors(g, S)
  BY <1>1, <1>2, AncestorsLeast
<1>4. DownClosed(g, Ancestors(h, S))
  BY <1>1, <1>3 DEF DownClosed
<1>5. Ancestors(g, S) \subseteq Ancestors(h, S)
  BY <1>1, <1>4, AncestorsLeast
<1>6. HeadsOf(h, S) = HeadsOf(g, S) /\ RootsOf(h, S) = RootsOf(g, S)
  BY DEF HeadsOf, RootsOf
<1> QED BY <1>3, <1>5, <1>6

\* A set of numbers up to a bound has a greatest member.
LEMMA MaxIs ==
    ASSUME NEW N \in Nat, NEW S, S \subseteq 0..N, S # {}
    PROVE  Max(S) \in S /\ \A x \in S : x <= Max(S)
<1> DEFINE U == {u \in 0..N : \A x \in S : x <= u}
<1>1. U \subseteq Nat /\ N \in U
  OBVIOUS
<1>2. PICK m \in U : \A k \in U : m <= k
  BY <1>1, Least
<1>3. m \in S
  <2> SUFFICES ASSUME m \notin S PROVE FALSE
    OBVIOUS
  <2>1. \A x \in S : x \in Nat /\ x <= m - 1 /\ m - 1 \in 0..N
    BY <1>2
  <2>2. m - 1 \in U
    BY <2>1
  <2>3. m <= m - 1 /\ m \in Nat
    BY <1>2, <2>2
  <2> QED BY <2>3
<1>4. m \in S /\ \A x \in S : m >= x
  BY <1>2, <1>3
<1>5. Max(S) \in S /\ \A x \in S : Max(S) >= x
  <2> DEFINE P(x) == x \in S /\ \A y \in S : x >= y
  <2>1. \E x : P(x)
    BY <1>4
  <2>2. P(CHOOSE x : P(x))
    BY <2>1
  <2>3. Max(S) = CHOOSE x \in S : \A y \in S : x >= y
    BY DEF Max
  <2> QED BY <1>4, <2>3
<1>6. PICK y \in S : y = Max(S)
  BY <1>5
<1>7. y \in 0..N /\ \A x \in S : x \in 0..N /\ y >= x
  BY <1>5, <1>6
<1>8. \A x \in S : x <= y
  BY <1>7
<1> QED BY <1>6, <1>8

\* No changesets have no ancestors.
LEMMA AncestorsOfNone ==
    ASSUME NEW g, IsGraph(g)
    PROVE  Ancestors(g, {}) = {}
<1>1. DownClosed(g, {})
  BY DEF DownClosed
<1> QED BY <1>1, AncestorsLeast

\* Above each member of a finite set there is a head of it.
LEMMA HeadAbove ==
    ASSUME NEW g, IsGraph(g), NEW N \in Nat, NEW S, S \subseteq Nodes(g), S \subseteq 0..N,
           NEW n \in S
    PROVE  \E h \in HeadsOf(g, S) : n \in Ancestors(g, {h})
<1> DEFINE T == {x \in S : n \in Ancestors(g, {x})}
<1>1. n \in T
  BY AncestorsClosed
<1>2. T # {} /\ T \subseteq 0..N
  BY <1>1
<1>3. Max(T) \in T /\ \A x \in T : x <= Max(T)
  <2> HIDE DEF T
  <2> QED BY <1>2, MaxIs
<1>4. PICK m \in T : \A x \in T : x <= m
  BY <1>3
<1>5. ASSUME NEW c \in S, m \in g[c] PROVE FALSE
  <2>1. m \in Ancestors(g, {c})
    <3>1. c \in Ancestors(g, {c}) /\ DownClosed(g, Ancestors(g, {c}))
      BY AncestorsClosed
    <3> QED BY <1>5, <3>1 DEF DownClosed
  <2>2. Ancestors(g, {m}) \subseteq Ancestors(g, {c})
    BY <2>1, AncestorsMonotone
  <2>3. c \in T
    BY <2>2
  <2>4. m < c /\ m \in Nat /\ c \in Nat
    BY <1>5 DEF IsGraph
  <2> QED BY <1>4, <2>3, <2>4
<1>6. m \in HeadsOf(g, S)
  BY <1>5 DEF HeadsOf
<1> QED BY <1>4, <1>6

\* The number of the next changeset is new, and above all others.
LEMMA NextIsNew ==
    ASSUME NEW g, NEW N \in Nat, Nodes(g) \subseteq 1..N
    PROVE  /\ NextNode(g) \in Nat \ {0} /\ NextNode(g) \notin Nodes(g)
           /\ \A n \in Nodes(g) : n < NextNode(g)
<1> DEFINE S == {0} \cup Nodes(g)
<1>1. S \subseteq 0..N /\ S # {} /\ 0 \in S
  OBVIOUS
<1>2. Max(S) \in S /\ \A x \in S : x <= Max(S)
  <2> HIDE DEF S
  <2> QED BY <1>1, MaxIs
<1>3. Max(S) \in Nat /\ NextNode(g) = Max(S) + 1
  BY <1>1, <1>2 DEF NextNode
<1>4. \A n \in Nodes(g) : n \in Nat /\ n <= Max(S)
  BY <1>2
<1> HIDE DEF S
<1> QED BY <1>3, <1>4

\* A changeset is added on top of P.
LEMMA AddedGraph ==
    ASSUME NEW g, IsGraph(g), NEW n \in Nat, \A m \in Nodes(g) : m < n,
           NEW P \in SUBSET Nodes(g)
    PROVE  LET h == Added(g, n, P)
           IN  /\ Nodes(h) = Nodes(g) \cup {n} /\ n \notin Nodes(g)
               /\ h[n] = P /\ \A m \in Nodes(g) : h[m] = g[m]
               /\ IsGraph(h) /\ DownClosed(h, Nodes(g))
<1> DEFINE h == Added(g, n, P)
<1>1. n \notin Nodes(g) /\ n \in Nat
  BY DEF IsGraph
<1>2. /\ Nodes(h) = Nodes(g) \cup {n}
      /\ h[n] = P /\ \A m \in Nodes(g) : h[m] = g[m]
  BY <1>1 DEF Added, Nodes
<1> HIDE DEF h
<1>3. IsGraph(h) /\ DownClosed(h, Nodes(g))
  BY <1>1, <1>2 DEF IsGraph, DownClosed
<1> QED BY <1>1, <1>2, <1>3 DEF h

-----------------------------------------------------------------------------
(* More about descendants                                                  *)

LEMMA DescendantsStep ==
    ASSUME NEW g, IsGraph(g), NEW S, NEW n \in Nodes(g)
    PROVE  n \in Descendants(g, S) <=> n \in S \/ \E p \in g[n] : p \in Descendants(g, S)
<1>1. Anc(g, n) = {n} \cup UNION {Anc(g, p) : p \in g[n]}
  BY AncStep
<1>2. g[n] \subseteq Nodes(g)
  BY DEF IsGraph
<1>3. Anc(g, n) \cap S # {} <=> n \in S \/ \E p \in g[n] : Anc(g, p) \cap S # {}
  BY <1>1
<1> QED BY <1>2, <1>3, DescendantsAre

LEMMA DescendantsUnion ==
    ASSUME NEW g, IsGraph(g), NEW S, NEW T
    PROVE  Descendants(g, S \cup T) = Descendants(g, S) \cup Descendants(g, T)
BY DescendantsAre

\* A set that is closed upwards consists of the descendants of its roots.
LEMMA DescendantsOfRoots ==
    ASSUME NEW g, IsGraph(g), NEW U, U \subseteq Nodes(g), UpClosed(g, U)
    PROVE  Descendants(g, RootsOf(g, U)) = U
<1>1. Descendants(g, RootsOf(g, U)) \subseteq U
  BY DescendantsLeast DEF RootsOf
<1>2. ASSUME NEW n \in U PROVE n \in Descendants(g, RootsOf(g, U))
  <2>1. PICK r \in Ancestors(g, {n}) : r \in RootsOf(g, U)
    BY RootBelow
  <2> QED BY <2>1, Related
<1> QED BY <1>1, <1>2

\* Descendants among the changesets that there were stay what they were.
LEMMA DescendantsKept ==
    ASSUME NEW g, IsGraph(g), NEW h, IsGraph(h), Nodes(g) \subseteq Nodes(h),
           \A n \in Nodes(g) : h[n] = g[n], NEW S, NEW n \in Nodes(g)
    PROVE  n \in Descendants(h, S) <=> n \in Descendants(g, S)
<1>1. Ancestors(h, {n}) = Ancestors(g, {n})
  BY ExtendedGraph
<1> QED BY <1>1, Related

-----------------------------------------------------------------------------
(* Revision numbers                                                        *)

\* Revision numbers are 1 to the number of changesets, in the same order.
LEMMA RevIs ==
    ASSUME NEW N \in Nat, NEW g, Nodes(g) \subseteq 1..N
    PROVE  /\ IsFiniteSet(Nodes(g)) /\ Cardinality(Nodes(g)) \in 0..N
           /\ \A n \in Nodes(g) : Rev(g, n) \in 1..Cardinality(Nodes(g))
           /\ \A m, n \in Nodes(g) : m < n => Rev(g, m) < Rev(g, n)
<1> DEFINE Upto(n) == {m \in Nodes(g) : m <= n}
           card == Cardinality(Nodes(g))
<1>1. IsFiniteSet(Nodes(g)) /\ card \in 0..N
  <2>1. IsFiniteSet(1..N) /\ Cardinality(1..N) = N
    BY FS_Interval
  <2>2. IsFiniteSet(Nodes(g)) /\ card <= Cardinality(1..N)
    BY <2>1, FS_Subset
  <2> QED BY <2>1, <2>2, FS_CardinalityType
<1>2. ASSUME NEW n \in Nodes(g)
      PROVE  IsFiniteSet(Upto(n)) /\ Rev(g, n) = Cardinality(Upto(n)) /\ Rev(g, n) \in 1..card
  <2>1. Upto(n) \in SUBSET Nodes(g) /\ n \in Upto(n)
    OBVIOUS
  <2>2. IsFiniteSet(Upto(n)) /\ Cardinality(Upto(n)) <= card
    <3> HIDE DEF Upto
    <3> QED BY <1>1, <2>1, FS_Subset
  <2>3. Cardinality(Upto(n)) \in Nat /\ Cardinality(Upto(n)) # 0
    <3> HIDE DEF Upto
    <3> QED BY <2>1, <2>2, FS_EmptySet, FS_CardinalityType
  <2> QED BY <1>1, <2>2, <2>3 DEF Rev
<1>3. ASSUME NEW m \in Nodes(g), NEW n \in Nodes(g), m < n PROVE Rev(g, m) < Rev(g, n)
  <2>1. Upto(m) \in SUBSET Upto(n) /\ n \in Upto(n) /\ n \notin Upto(m)
    BY <1>3
  <2> HIDE DEF Upto
  <2>2. Cardinality(Upto(m)) <= Cardinality(Upto(n)) /\ Cardinality(Upto(m)) # Cardinality(Upto(n))
    BY <1>2, <2>1, FS_Subset
  <2> QED BY <1>2, <2>2
<1> QED BY <1>1, <1>2, <1>3

\* Each of these numbers is the one of a changeset.
LEMMA NodeAtIs ==
    ASSUME NEW N \in Nat, NEW g, Nodes(g) \subseteq 1..N
    PROVE  /\ \A r \in 1..Cardinality(Nodes(g)) :
                  NodeAt(g, r) \in Nodes(g) /\ Rev(g, NodeAt(g, r)) = r
           /\ \A n \in Nodes(g) : NodeAt(g, Rev(g, n)) = n
<1> DEFINE card == Cardinality(Nodes(g))
           f == [n \in Nodes(g) |-> Rev(g, n)]
<1>1. /\ IsFiniteSet(Nodes(g)) /\ card \in Nat
      /\ \A n \in Nodes(g) : Rev(g, n) \in 1..card
      /\ \A m, n \in Nodes(g) : m < n => Rev(g, m) < Rev(g, n)
  BY RevIs
<1>2. \A m, n \in Nodes(g) : Rev(g, m) = Rev(g, n) => m = n
  <2> SUFFICES ASSUME NEW m \in Nodes(g), NEW n \in Nodes(g), Rev(g, m) = Rev(g, n), m # n
               PROVE  FALSE
    OBVIOUS
  <2>1. m < n \/ n < m
    OBVIOUS
  <2> QED BY <1>1, <2>1
<1>3. f \in Injection(Nodes(g), 1..card)
  <2>1. f \in [Nodes(g) -> 1..card] /\ \A m, n \in Nodes(g) : f[m] = f[n] => m = n
    BY <1>1, <1>2
  <2> QED BY <2>1 DEF Injection, IsInjective
<1>4. IsFiniteSet(1..card) /\ Cardinality(1..card) = card
  BY <1>1, FS_Interval
<1>5. f \in Surjection(Nodes(g), 1..card)
  <2> HIDE DEF f
  <2> QED BY <1>1, <1>3, <1>4, FS_Injection
<1>6. ASSUME NEW r \in 1..card PROVE NodeAt(g, r) \in Nodes(g) /\ Rev(g, NodeAt(g, r)) = r
  <2>1. \E n \in Nodes(g) : Rev(g, n) = r
    BY <1>5 DEF Surjection
  <2> QED BY <2>1 DEF NodeAt
<1>7. ASSUME NEW n \in Nodes(g) PROVE NodeAt(g, Rev(g, n)) = n
  BY <1>1, <1>2, <1>6
<1> QED BY <1>6, <1>7

\* Changesets that come later leave the numbers of the others alone.
LEMMA RevKept ==
    ASSUME NEW N \in Nat, NEW h, Nodes(h) \subseteq 1..N, NEW g, Nodes(g) \subseteq Nodes(h),
           \A m \in Nodes(h) \ Nodes(g) : \A n \in Nodes(g) : n < m
    PROVE  /\ Cardinality(Nodes(g)) <= Cardinality(Nodes(h))
           /\ \A n \in Nodes(g) : Rev(h, n) = Rev(g, n)
<1>1. Cardinality(Nodes(g)) <= Cardinality(Nodes(h))
  BY RevIs, FS_Subset
<1>2. ASSUME NEW n \in Nodes(g) PROVE Rev(h, n) = Rev(g, n)
  <2>1. \A m \in Nodes(h) \ Nodes(g) : ~(m <= n)
    OBVIOUS
  <2>2. {m \in Nodes(h) : m <= n} = {m \in Nodes(g) : m <= n}
    BY <2>1
  <2> QED BY <2>2 DEF Rev
<1> QED BY <1>1, <1>2

-----------------------------------------------------------------------------
(* Phases                                                                  *)

\* The phases of a graph, those of children not below those of parents
IsPhases(g, ph) == ph \in [Nodes(g) -> allphases]
Ordered(g, ph) == \A n \in Nodes(g) : \A p \in g[n] : ph[p] <= ph[n]

LEMMA PhaseNumbers ==
    /\ allphases = {0, 1, 2} /\ public = 0 /\ draft = 1 /\ secret = 2
    /\ \A a, b \in allphases : /\ Min({a, b}) \in {a, b} /\ Min({a, b}) <= a /\ Min({a, b}) <= b
                               /\ Max({a, b}) \in {a, b} /\ a <= Max({a, b}) /\ b <= Max({a, b})
<1>1. allphases = {0, 1, 2} /\ public = 0 /\ draft = 1 /\ secret = 2
  BY DEF allphases, trackedphases, public, draft, secret
<1>2. ASSUME NEW a \in {0, 1, 2}, NEW b \in {0, 1, 2}
      PROVE  /\ Min({a, b}) \in {a, b} /\ Min({a, b}) <= a /\ Min({a, b}) <= b
             /\ Max({a, b}) \in {a, b} /\ a <= Max({a, b}) /\ b <= Max({a, b})
  <2>1. a <= b \/ b <= a
    OBVIOUS
  <2>2. \E x \in {a, b} : \A y \in {a, b} : x =< y
    BY <2>1
  <2>3. \E x \in {a, b} : \A y \in {a, b} : x >= y
    BY <2>1
  <2>4. Min({a, b}) \in {a, b} /\ \A y \in {a, b} : Min({a, b}) =< y
    BY <2>2 DEF Min
  <2>5. Max({a, b}) \in {a, b} /\ \A y \in {a, b} : Max({a, b}) >= y
    BY <2>3 DEF Max
  <2> QED BY <2>4, <2>5
<1> QED BY <1>1, <1>2

\* "all nodes are set in the target phase or kept in a lower phase"
\* (advanceboundary), and nothing else moves.
LEMMA AdvancedIs ==
    ASSUME NEW g, IsGraph(g), NEW ph, IsPhases(g, ph), NEW t \in allphases,
           NEW N, N \subseteq Nodes(g)
    PROVE  LET new == Advanced(g, ph, t, N)
           IN  /\ IsPhases(g, new)
               /\ \A n \in Nodes(g) : /\ new[n] <= ph[n] /\ new[n] \in {ph[n], t}
                                      /\ n \notin Ancestors(g, N) => new[n] = ph[n]
                                      /\ n \in Ancestors(g, N) => new[n] <= t
               /\ Ordered(g, ph) => Ordered(g, new)
<1> DEFINE new == Advanced(g, ph, t, N)
<1>1. \A n \in Nodes(g) : ph[n] \in allphases
  BY DEF IsPhases
<1>2. /\ new = [n \in Nodes(g) |-> new[n]]
      /\ \A n \in Nodes(g) : new[n] = IF n \in Ancestors(g, N) THEN Min({ph[n], t}) ELSE ph[n]
  BY DEF Advanced
<1> HIDE DEF new
<1>3. ASSUME NEW n \in Nodes(g)
      PROVE  /\ new[n] \in allphases /\ new[n] <= ph[n] /\ new[n] \in {ph[n], t}
             /\ n \notin Ancestors(g, N) => new[n] = ph[n]
             /\ n \in Ancestors(g, N) => new[n] <= t
  <2>1. /\ Min({ph[n], t}) \in {ph[n], t} /\ Min({ph[n], t}) <= ph[n] /\ Min({ph[n], t}) <= t
        /\ ph[n] \in {0, 1, 2} /\ t \in {0, 1, 2} /\ allphases = {0, 1, 2}
    BY <1>1, PhaseNumbers
  <2> QED BY <1>2, <2>1
<1>4. IsPhases(g, new)
  BY <1>2, <1>3 DEF IsPhases
<1>5. ASSUME Ordered(g, ph), NEW n \in Nodes(g), NEW p \in g[n] PROVE new[p] <= new[n]
  <2>1. p \in Nodes(g) /\ ph[p] <= ph[n] /\ ph[p] \in {0, 1, 2} /\ ph[n] \in {0, 1, 2}
        /\ t \in {0, 1, 2} /\ new[p] \in {0, 1, 2} /\ new[n] \in {0, 1, 2}
    BY <1>1, <1>3, <1>5, PhaseNumbers DEF Ordered, IsGraph
  <2>2. n \in Ancestors(g, N) => p \in Ancestors(g, N)
    BY AncestorsClosed DEF DownClosed
  <2>3. new[p] <= ph[p] /\ (n \in Ancestors(g, N) => new[p] <= t)
    BY <1>3, <2>1, <2>2
  <2>4. new[n] \in {ph[n], t} /\ (n \notin Ancestors(g, N) => new[n] = ph[n])
    BY <1>3
  <2> QED BY <2>1, <2>3, <2>4
<1>6. Ordered(g, ph) => Ordered(g, new)
  BY <1>5 DEF Ordered
<1> QED BY <1>3, <1>4, <1>6 DEF new

\* "all nodes are set in the target phase or kept in a higher phase"
\* (retractboundary), and nothing else moves.
LEMMA RetractedIs ==
    ASSUME NEW g, IsGraph(g), NEW ph, IsPhases(g, ph), NEW t \in allphases, NEW N
    PROVE  LET new == Retracted(g, ph, t, N)
           IN  /\ IsPhases(g, new)
               /\ \A n \in Nodes(g) : /\ ph[n] <= new[n] /\ new[n] \in {ph[n], t}
                                      /\ n \notin Descendants(g, N) => new[n] = ph[n]
                                      /\ n \in Descendants(g, N) => t <= new[n]
               /\ Ordered(g, ph) => Ordered(g, new)
<1> DEFINE new == Retracted(g, ph, t, N)
<1>1. \A n \in Nodes(g) : ph[n] \in allphases
  BY DEF IsPhases
<1>2. /\ new = [n \in Nodes(g) |-> new[n]]
      /\ \A n \in Nodes(g) : new[n] = IF n \in Descendants(g, N) THEN Max({ph[n], t}) ELSE ph[n]
  BY DEF Retracted
<1> HIDE DEF new
<1>3. ASSUME NEW n \in Nodes(g)
      PROVE  /\ new[n] \in allphases /\ ph[n] <= new[n] /\ new[n] \in {ph[n], t}
             /\ n \notin Descendants(g, N) => new[n] = ph[n]
             /\ n \in Descendants(g, N) => t <= new[n]
  <2>1. /\ Max({ph[n], t}) \in {ph[n], t} /\ ph[n] <= Max({ph[n], t}) /\ t <= Max({ph[n], t})
        /\ ph[n] \in {0, 1, 2} /\ t \in {0, 1, 2} /\ allphases = {0, 1, 2}
    BY <1>1, PhaseNumbers
  <2> QED BY <1>2, <2>1
<1>4. IsPhases(g, new)
  BY <1>2, <1>3 DEF IsPhases
<1>5. ASSUME Ordered(g, ph), NEW n \in Nodes(g), NEW p \in g[n] PROVE new[p] <= new[n]
  <2>1. p \in Nodes(g) /\ ph[p] <= ph[n] /\ ph[p] \in {0, 1, 2} /\ ph[n] \in {0, 1, 2}
        /\ t \in {0, 1, 2} /\ new[p] \in {0, 1, 2} /\ new[n] \in {0, 1, 2}
    BY <1>1, <1>3, <1>5, PhaseNumbers DEF Ordered, IsGraph
  <2>2. p \in Descendants(g, N) => n \in Descendants(g, N)
    BY DescendantsClosed DEF UpClosed
  <2>3. new[p] \in {ph[p], t} /\ (p \notin Descendants(g, N) => new[p] = ph[p])
    BY <1>3, <2>1
  <2>4. ph[n] <= new[n] /\ (n \in Descendants(g, N) => t <= new[n])
    BY <1>3
  <2> QED BY <2>1, <2>2, <2>3, <2>4
<1>6. Ordered(g, ph) => Ordered(g, new)
  BY <1>5 DEF Ordered
<1> QED BY <1>3, <1>4, <1>6 DEF new

\* What is added has the highest phase of its ancestors.
LEMMA InheritedIs ==
    ASSUME NEW g, IsGraph(g), NEW H, H \subseteq Nodes(g), DownClosed(g, H),
           NEW ph \in [H -> allphases], \A n \in H : \A p \in g[n] : ph[p] <= ph[n]
    PROVE  LET new == Inherited(g, ph)
           IN  /\ IsPhases(g, new) /\ Ordered(g, new)
               /\ \A n \in H : new[n] = ph[n]
               /\ \A n \in Nodes(g) \ H : \/ new[n] = public
                                          \/ \E a \in Ancestors(g, {n}) \cap H : new[n] = ph[a]
<1> DEFINE new == Inherited(g, ph)
           Of(n) == {public} \cup {ph[a] : a \in Ancestors(g, {n}) \cap H}
<1>1. /\ new = [n \in Nodes(g) |-> new[n]]
      /\ \A n \in Nodes(g) : new[n] = IF n \in H THEN ph[n] ELSE Max(Of(n))
  BY DEF Inherited
<1>2. \A a \in H : ph[a] \in {0, 1, 2}
  BY PhaseNumbers
<1>3. ASSUME NEW n \in Nodes(g)
      PROVE  Max(Of(n)) \in Of(n) /\ \A x \in Of(n) : x <= Max(Of(n))
  <2>1. Of(n) \subseteq 0..2 /\ Of(n) # {}
    BY <1>2, PhaseNumbers
  <2> HIDE DEF Of
  <2> QED BY <2>1, MaxIs
<1> HIDE DEF new
<1>4. ASSUME NEW n \in Nodes(g) PROVE new[n] \in {0, 1, 2}
  <2>1. Of(n) \subseteq {0, 1, 2}
    BY <1>2, PhaseNumbers
  <2>2. Max(Of(n)) \in Of(n)
    BY <1>3
  <2> HIDE DEF Of
  <2> QED BY <1>1, <1>2, <2>1, <2>2
<1>5. IsPhases(g, new)
  BY <1>1, <1>4, PhaseNumbers DEF IsPhases
<1>6. ASSUME NEW n \in Nodes(g), NEW p \in g[n] PROVE new[p] <= new[n]
  <2>1. p \in Nodes(g) /\ new[p] \in {0, 1, 2} /\ new[n] \in {0, 1, 2}
    BY <1>4 DEF IsGraph
  <2>2. CASE n \in H
    BY <1>1, <2>1, <2>2 DEF DownClosed
  <2>3. CASE n \notin H
    <3>1. p \in Ancestors(g, {n}) /\ Ancestors(g, {p}) \subseteq Ancestors(g, {n})
      <4>1. n \in Ancestors(g, {n}) /\ DownClosed(g, Ancestors(g, {n}))
        BY AncestorsClosed
      <4>2. p \in Ancestors(g, {n})
        BY <4>1 DEF DownClosed
      <4> QED BY <4>2, AncestorsMonotone
    <3>2. new[p] \in Of(n)
      <4>1. CASE p \in H
        BY <1>1, <2>1, <3>1, <4>1
      <4>2. CASE p \notin H
        <5>1. new[p] \in Of(p)
          BY <1>1, <1>3, <2>1, <4>2
        <5> QED BY <3>1, <5>1
      <4> QED BY <4>1, <4>2
    <3>3. new[n] = Max(Of(n))
      BY <1>1, <2>3
    <3> HIDE DEF Of
    <3> QED BY <1>3, <3>2, <3>3
  <2> QED BY <2>2, <2>3
<1>7. ASSUME NEW n \in Nodes(g) \ H
      PROVE  new[n] = public \/ \E a \in Ancestors(g, {n}) \cap H : new[n] = ph[a]
  <2>1. new[n] \in Of(n)
    <3>1. new[n] = Max(Of(n))
      BY <1>1
    <3> HIDE DEF Of
    <3> QED BY <1>3, <3>1
  <2> QED BY <2>1
<1>8. \A n \in H : new[n] = ph[n]
  BY <1>1
<1> QED BY <1>5, <1>6, <1>7, <1>8 DEF new, Ordered
=============================================================================
