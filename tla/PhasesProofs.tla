--------------------------- MODULE PhasesProofs ---------------------------
(***************************************************************************)
(* Proofs about Phases, for any bound on changesets.                       *)
(*                                                                         *)
(* The phases that roots give are in order on every graph, whatever the    *)
(* roots (GivenIs).  Retracting and advancing a boundary, with the         *)
(* shortcuts of phases.py, make of them exactly what is asked for, for     *)
(* every graph, every set of roots and every cache that is right           *)
(* (RetractIs, AdvanceIs); and a cache that is right for a graph is right  *)
(* for one that continues it (CacheKept).  The inductive invariant says    *)
(* that the roots are in the changelog and the cache is right whenever no  *)
(* strip is at work.  Each command then leaves what PhaseMap promises.     *)
(***************************************************************************)
EXTENDS Phases, GraphLemmas

\* A graph within the bound
Small(g) == IsGraph(g) /\ Nodes(g) \subseteq 1..MaxNode

\* What a phasecache for g is.
IsCache(g, pc) ==
    /\ pc \in [roots : [trackedphases -> SUBSET Nodes(g)], revs : Seq(allphases)]
    /\ Len(pc.revs) <= Cardinality(Nodes(g))
    /\ \A n \in Nodes(g) : Rev(g, n) <= Len(pc.revs) => pc.revs[Rev(g, n)] = PhasesGiven(g, pc.roots)[n]

-----------------------------------------------------------------------------
(* The phases that roots give                                              *)

\* They are phases of g, in order.
LEMMA GivenIs ==
    ASSUME NEW g, IsGraph(g), NEW roots
    PROVE  LET ph == PhasesGiven(g, roots)
           IN  /\ IsPhases(g, ph) /\ Ordered(g, ph)
               /\ \A n \in Nodes(g) :
                    /\ ph[n] = secret <=> n \in Descendants(g, roots[secret])
                    /\ ph[n] = public <=> /\ n \notin Descendants(g, roots[secret])
                                          /\ n \notin Descendants(g, roots[draft])
<1> DEFINE secrets == Descendants(g, roots[secret])
           drafts == Descendants(g, roots[draft])
           ph == PhasesGiven(g, roots)
<1>1. /\ ph = [n \in Nodes(g) |-> ph[n]]
      /\ \A n \in Nodes(g) : ph[n] = IF n \in secrets THEN secret ELSE IF n \in drafts THEN draft ELSE public
  BY DEF PhasesGiven
<1>2. UpClosed(g, secrets) /\ UpClosed(g, drafts)
  BY DescendantsClosed
<1> HIDE DEF ph, secrets, drafts
<1>3. \A n \in Nodes(g) : /\ ph[n] \in {0, 1, 2}
                          /\ ph[n] = 2 <=> n \in secrets
                          /\ ph[n] = 0 <=> n \notin secrets /\ n \notin drafts
  BY <1>1, PhaseNumbers
<1>4. IsPhases(g, ph)
  BY <1>1, <1>3, PhaseNumbers DEF IsPhases
<1>5. ASSUME NEW n \in Nodes(g), NEW p \in g[n] PROVE ph[p] <= ph[n]
  <2>1. p \in Nodes(g)
    BY DEF IsGraph
  <2>2. (p \in secrets => n \in secrets) /\ (p \in drafts => n \in drafts)
    BY <1>2, <2>1 DEF UpClosed
  <2> QED BY <1>3, <2>1, <2>2
<1>6. Ordered(g, ph)
  BY <1>5 DEF Ordered
<1> QED BY <1>3, <1>4, <1>6, PhaseNumbers DEF ph, secrets, drafts

\* They are the same for the changesets there were when others are added.
LEMMA GivenKept ==
    ASSUME NEW g, IsGraph(g), NEW h, IsGraph(h), Nodes(g) \subseteq Nodes(h),
           \A n \in Nodes(g) : h[n] = g[n], NEW roots, NEW n \in Nodes(g)
    PROVE  PhasesGiven(h, roots)[n] = PhasesGiven(g, roots)[n]
<1>1. /\ n \in Descendants(h, roots[secret]) <=> n \in Descendants(g, roots[secret])
      /\ n \in Descendants(h, roots[draft]) <=> n \in Descendants(g, roots[draft])
  BY DescendantsKept
<1> QED BY <1>1 DEF PhasesGiven

\* They do not depend on roots that are not in g.
LEMMA GivenFiltered ==
    ASSUME NEW g, IsGraph(g), NEW K, Nodes(g) \subseteq K, NEW roots, NEW known,
           \A p \in trackedphases : known[p] = roots[p] \cap K
    PROVE  PhasesGiven(g, known) = PhasesGiven(g, roots)
<1>1. ASSUME NEW S PROVE Descendants(g, S \cap K) = Descendants(g, S)
  <2>1. \A n \in Nodes(g) : Anc(g, n) \cap (S \cap K) = Anc(g, n) \cap S
    BY AncClosed
  <2>2. Descendants(g, S \cap K) = {n \in Nodes(g) : Anc(g, n) \cap (S \cap K) # {}}
    BY DescendantsAre
  <2>3. Descendants(g, S) = {n \in Nodes(g) : Anc(g, n) \cap S # {}}
    BY DescendantsAre
  <2> QED BY <2>1, <2>2, <2>3
<1>2. Descendants(g, known[secret]) = Descendants(g, roots[secret])
  BY <1>1 DEF trackedphases
<1>3. Descendants(g, known[draft]) = Descendants(g, roots[draft])
  BY <1>1 DEF trackedphases
<1> QED BY <1>2, <1>3 DEF PhasesGiven

\* A changeset that is no root has the highest phase of its parents.
LEMMA GivenParents ==
    ASSUME NEW g, IsGraph(g), NEW roots, NEW n \in Nodes(g),
           n \notin roots[draft], n \notin roots[secret]
    PROVE  LET ph == PhasesGiven(g, roots)
           IN  ph[n] = public \/ \E p \in g[n] : ph[n] = ph[p]
<1> DEFINE ph == PhasesGiven(g, roots)
<1> SUFFICES ph[n] = public \/ \E p \in g[n] : ph[n] = ph[p]
  OBVIOUS
<1>1. /\ n \in Descendants(g, roots[secret]) <=> \E p \in g[n] : p \in Descendants(g, roots[secret])
      /\ n \in Descendants(g, roots[draft]) <=> \E p \in g[n] : p \in Descendants(g, roots[draft])
  BY DescendantsStep
<1>2. g[n] \subseteq Nodes(g)
  BY DEF IsGraph
<1>3. \A m \in Nodes(g) : ph[m] = IF m \in Descendants(g, roots[secret]) THEN secret
                                  ELSE IF m \in Descendants(g, roots[draft]) THEN draft ELSE public
  BY DEF PhasesGiven
<1> HIDE DEF ph
<1>4. CASE n \in Descendants(g, roots[secret])
  BY <1>1, <1>2, <1>3, <1>4
<1>5. CASE n \notin Descendants(g, roots[secret]) /\ n \in Descendants(g, roots[draft])
  BY <1>1, <1>2, <1>3, <1>5
<1>6. CASE n \notin Descendants(g, roots[secret]) /\ n \notin Descendants(g, roots[draft])
  BY <1>2, <1>3, <1>6
<1> QED BY <1>4, <1>5, <1>6 DEF ph

-----------------------------------------------------------------------------
(* The cache                                                               *)

\* Computing the phases of all changesets gives a cache.
LEMMA ComputedIs ==
    ASSUME NEW g, Small(g), NEW roots
    PROVE  LET revs == ComputePhaseRevs(g, roots)
           IN  /\ revs \in Seq(allphases) /\ Len(revs) = Cardinality(Nodes(g))
               /\ \A n \in Nodes(g) : revs[Rev(g, n)] = PhasesGiven(g, roots)[n]
<1> DEFINE ph == PhasesGiven(g, roots)
           card == Cardinality(Nodes(g))
           revs == ComputePhaseRevs(g, roots)
<1>1. MaxNode \in Nat /\ Nodes(g) \subseteq 1..MaxNode /\ IsGraph(g)
  BY BoundAssumption DEF Small
<1>2. card \in Nat /\ \A n \in Nodes(g) : Rev(g, n) \in 1..card
  BY <1>1, RevIs
<1>3. \A r \in 1..card : NodeAt(g, r) \in Nodes(g)
  BY <1>1, NodeAtIs
<1>4. \A n \in Nodes(g) : NodeAt(g, Rev(g, n)) = n
  BY <1>1, NodeAtIs
<1>5. \A n \in Nodes(g) : ph[n] \in allphases
  BY <1>1, GivenIs DEF IsPhases
<1>6. revs = [r \in 1..card |-> ph[NodeAt(g, r)]]
  BY DEF ComputePhaseRevs
<1> HIDE DEF ph, card, revs
<1>7. revs \in Seq(allphases) /\ Len(revs) = card
  <2>1. revs \in [1..card -> allphases]
    BY <1>3, <1>5, <1>6
  <2> QED BY <1>2, <2>1
<1>8. \A n \in Nodes(g) : revs[Rev(g, n)] = ph[n]
  BY <1>2, <1>4, <1>6
<1> QED BY <1>7, <1>8 DEF ph, card, revs

\* Loading keeps the roots, and gives the phases of all of N.
LEMMA LoadedIs ==
    ASSUME NEW g, Small(g), NEW pc, IsCache(g, pc), NEW N, N \subseteq Nodes(g)
    PROVE  LET new == Loaded(g, pc, N)
           IN  /\ IsCache(g, new) /\ new.roots = pc.roots
               /\ \A n \in N : Rev(g, n) <= Len(new.revs)
<1> DEFINE computed == [pc EXCEPT !.revs = ComputePhaseRevs(g, pc.roots)]
<1>1. MaxNode \in Nat /\ Nodes(g) \subseteq 1..MaxNode /\ IsGraph(g)
  BY BoundAssumption DEF Small
<1>2. Cardinality(Nodes(g)) \in Nat /\ \A n \in Nodes(g) : Rev(g, n) \in 1..Cardinality(Nodes(g))
  BY <1>1, RevIs
<1>3. pc.roots \in [trackedphases -> SUBSET Nodes(g)] /\ Len(pc.revs) \in Nat
  BY DEF IsCache
<1>4. IsCache(g, computed) /\ computed.roots = pc.roots /\ \A n \in N : Rev(g, n) <= Len(computed.revs)
  <2>1. /\ ComputePhaseRevs(g, pc.roots) \in Seq(allphases)
        /\ Len(ComputePhaseRevs(g, pc.roots)) = Cardinality(Nodes(g))
        /\ \A n \in Nodes(g) : ComputePhaseRevs(g, pc.roots)[Rev(g, n)] = PhasesGiven(g, pc.roots)[n]
    BY <1>3, ComputedIs
  <2>2. /\ computed \in [roots : [trackedphases -> SUBSET Nodes(g)], revs : Seq(allphases)]
        /\ computed.roots = pc.roots /\ computed.revs = ComputePhaseRevs(g, pc.roots)
    BY <2>1 DEF IsCache
  <2> HIDE DEF computed
  <2> QED BY <1>2, <2>1, <2>2 DEF IsCache
<1>5. ASSUME N # {}, ~(Rev(g, Max(N)) > Len(pc.revs)), NEW n \in N PROVE Rev(g, n) <= Len(pc.revs)
  <2>1. N \subseteq 0..MaxNode
    BY <1>1
  <2>2. Max(N) \in N /\ n <= Max(N)
    BY <1>1, <1>5, <2>1, MaxIs
  <2>3. Rev(g, n) <= Rev(g, Max(N))
    <3>1. n = Max(N) \/ n < Max(N)
      BY <1>1, <2>2
    <3>2. \A m \in Nodes(g) : \A k \in Nodes(g) : m < k => Rev(g, m) < Rev(g, k)
      BY <1>1, RevIs
    <3> QED BY <1>2, <2>2, <3>1, <3>2
  <2> QED BY <1>2, <1>3, <1>5, <2>2, <2>3
<1> HIDE DEF computed
<1>6. Loaded(g, pc, N) = IF N # {} /\ Rev(g, Max(N)) > Len(pc.revs) THEN computed ELSE pc
  BY DEF Loaded, computed
<1> QED BY <1>4, <1>5, <1>6

\* The phase of a changeset is what the roots give.
LEMMA PhaseOfIs ==
    ASSUME NEW g, Small(g), NEW pc, IsCache(g, pc), NEW n \in Nodes(g)
    PROVE  PhaseOf(g, pc, n) = PhasesGiven(g, pc.roots)[n]
<1> DEFINE new == Loaded(g, pc, {n})
<1>1. IsCache(g, new) /\ new.roots = pc.roots /\ Rev(g, n) <= Len(new.revs)
  BY LoadedIs
<1> HIDE DEF new
<1>2. new.revs[Rev(g, n)] = PhasesGiven(g, pc.roots)[n]
  BY <1>1 DEF IsCache
<1> QED BY <1>2 DEF PhaseOf, new

\* Changing roots drops the cache.
LEMMA UpdatedIs ==
    ASSUME NEW g, Small(g), NEW pc, IsCache(g, pc), NEW p \in trackedphases, NEW S \in SUBSET Nodes(g)
    PROVE  LET new == UpdateRoots(pc, p, S)
           IN  /\ IsCache(g, new) /\ new.roots[p] = S
               /\ \A q \in trackedphases \ {p} : new.roots[q] = pc.roots[q]
<1> DEFINE new == UpdateRoots(pc, p, S)
<1>1. pc.roots \in [trackedphases -> SUBSET Nodes(g)]
  BY DEF IsCache
<1>2. new.roots = [pc.roots EXCEPT ![p] = S] /\ new.revs = << >>
  BY DEF UpdateRoots
<1>3. new \in [roots : [trackedphases -> SUBSET Nodes(g)], revs : Seq(allphases)]
  BY <1>1 DEF UpdateRoots
<1> HIDE DEF new
<1>4. MaxNode \in Nat /\ Nodes(g) \subseteq 1..MaxNode
  BY BoundAssumption DEF Small
<1>5. Cardinality(Nodes(g)) \in Nat /\ \A n \in Nodes(g) : Rev(g, n) \in 1..Cardinality(Nodes(g))
  BY <1>4, RevIs
<1>6. Len(new.revs) = 0
  BY <1>2
<1>7. IsCache(g, new)
  BY <1>3, <1>5, <1>6 DEF IsCache
<1> QED BY <1>1, <1>2, <1>7 DEF new

-----------------------------------------------------------------------------
(* Moving boundaries                                                       *)

\* Retracting: N and its descendants get phase t, or keep a higher one.
LEMMA RetractIs ==
    ASSUME NEW g, Small(g), NEW pc, IsCache(g, pc), NEW t \in allphases, NEW N, N \subseteq Nodes(g)
    PROVE  LET new == RetractBoundary(g, pc, t, N)
           IN  /\ IsCache(g, new)
               /\ PhasesGiven(g, new.roots) = Retracted(g, PhasesGiven(g, pc.roots), t, N)
<1> DEFINE new == RetractBoundary(g, pc, t, N)
           before == PhasesGiven(g, pc.roots)
           after == PhasesGiven(g, new.roots)
           target == Retracted(g, before, t, N)
           newroots == {n \in N : PhaseOf(g, pc, n) < t}
           B == Descendants(g, newroots)
           D == Descendants(g, N)
           high == {n \in Nodes(g) : before[n] >= t}
<1>1. IsGraph(g) /\ IsPhases(g, before) /\ Ordered(g, before) /\ t \in {0, 1, 2}
  BY GivenIs, PhaseNumbers DEF Small
<1>2. \A n \in Nodes(g) : before[n] \in {0, 1, 2}
  BY <1>1, PhaseNumbers DEF IsPhases
<1>3. newroots \subseteq N /\ \A n \in N : n \in newroots <=> before[n] < t
  BY PhaseOfIs
<1>4. UpClosed(g, high)
  <2>1. ASSUME NEW n \in Nodes(g), NEW p \in g[n], before[p] >= t PROVE before[n] >= t
    <3>1. p \in Nodes(g) /\ before[p] <= before[n]
      BY <1>1 DEF Ordered, IsGraph
    <3> QED BY <1>1, <1>2, <2>1, <3>1
  <2> HIDE DEF before
  <2> QED BY <2>1 DEF UpClosed
<1>5. B \subseteq D /\ D \subseteq B \cup high /\ D \subseteq Nodes(g) /\ B \subseteq Nodes(g)
  <2> HIDE DEF newroots, before
  <2>1. /\ UpClosed(g, D) /\ D \subseteq Nodes(g) /\ N \subseteq D
        /\ UpClosed(g, B) /\ B \subseteq Nodes(g) /\ newroots \subseteq B
    BY <1>1, <1>3, DescendantsClosed
  <2>2. B \subseteq D
    <3> HIDE DEF D
    <3> QED BY <1>1, <1>3, <2>1, DescendantsLeast
  <2>3. UpClosed(g, B \cup high)
    <3> HIDE DEF B, high
    <3> QED BY <1>4, <2>1 DEF UpClosed
  <2>4. N \subseteq B \cup high
    <3> SUFFICES ASSUME NEW n \in N, n \notin newroots PROVE n \in high
      BY <2>1
    <3> QED BY <1>1, <1>2, <1>3
  <2>5. D \subseteq B \cup high
    <3> HIDE DEF B, high
    <3> QED BY <1>1, <2>3, <2>4, DescendantsLeast
  <2> QED BY <2>1, <2>2, <2>5
<1>6. \A n \in Nodes(g) : /\ target[n] \in {before[n], t} /\ before[n] <= target[n]
                          /\ n \notin D => target[n] = before[n]
                          /\ n \in D => t <= target[n]
  <2> HIDE DEF before
  <2> QED BY <1>1, RetractedIs
<1>7. target = [n \in Nodes(g) |-> target[n]]
  BY DEF Retracted
<1> HIDE DEF before, target, B, D
<1>8. CASE newroots = {}
  <2>1. new = Loaded(g, pc, N)
    BY <1>8 DEF RetractBoundary
  <2>2. IsCache(g, new) /\ after = before
    BY <2>1, LoadedIs DEF before
  <2>3. B = {}
    BY <1>1, <1>8, DescendantsAre DEF B
  <2>4. ASSUME NEW n \in Nodes(g) PROVE target[n] = before[n]
    BY <1>1, <1>2, <1>5, <1>6, <2>3
  <2>5. before = [n \in Nodes(g) |-> before[n]]
    BY <1>1 DEF IsPhases
  <2>6. target = before
    BY <1>7, <2>4, <2>5
  <2> QED BY <2>2, <2>6 DEF target, before
<1>9. CASE newroots # {}
  <2> DEFINE roots == pc.roots[t] \cup newroots
             aboveroots == {n \in roots : n >= Min(newroots)}
             S == (roots \ aboveroots) \cup RootsOf(g, Descendants(g, aboveroots))
  <2>1. t \in trackedphases /\ t \in {1, 2}
    <3>1. PICK n \in N : before[n] < t
      BY <1>3, <1>9
    <3>2. t # 0
      BY <1>2, <3>1
    <3> QED BY <1>1, <3>2, PhaseNumbers DEF trackedphases
  <2>2. pc.roots[t] \subseteq Nodes(g) /\ newroots \subseteq Nodes(g)
    BY <1>3, <2>1 DEF IsCache
  <2>3. new = UpdateRoots(pc, t, S)
    BY <1>9 DEF RetractBoundary
  <2>4. S \subseteq Nodes(g) /\ Descendants(g, S) = Descendants(g, pc.roots[t]) \cup B
    <3>1. aboveroots \subseteq roots /\ roots \subseteq Nodes(g)
      BY <2>2
    <3> HIDE DEF aboveroots
    <3>2. /\ UpClosed(g, Descendants(g, aboveroots)) /\ Descendants(g, aboveroots) \subseteq Nodes(g)
          /\ RootsOf(g, Descendants(g, aboveroots)) \subseteq Nodes(g)
      BY <1>1, DescendantsClosed DEF RootsOf
    <3>3. Descendants(g, RootsOf(g, Descendants(g, aboveroots))) = Descendants(g, aboveroots)
      BY <1>1, <3>2, DescendantsOfRoots
    <3>4. Descendants(g, S) = Descendants(g, roots \ aboveroots) \cup Descendants(g, aboveroots)
      BY <1>1, <3>3, DescendantsUnion
    <3>5. roots = (roots \ aboveroots) \cup aboveroots
      BY <3>1
    <3>6. Descendants(g, roots) = Descendants(g, roots \ aboveroots) \cup Descendants(g, aboveroots)
      <4> HIDE DEF roots
      <4> QED BY <1>1, <3>5, DescendantsUnion
    <3>7. Descendants(g, roots) = Descendants(g, pc.roots[t]) \cup B
      BY <1>1, DescendantsUnion DEF B
    <3>8. S \subseteq Nodes(g)
      BY <3>1, <3>2
    <3> QED BY <3>4, <3>6, <3>7, <3>8
  <2> HIDE DEF S, roots, aboveroots
  <2>5. /\ IsCache(g, new) /\ new.roots[t] = S
        /\ \A q \in trackedphases \ {t} : new.roots[q] = pc.roots[q]
    BY <2>1, <2>3, <2>4, UpdatedIs
  <2> DEFINE A1 == Descendants(g, pc.roots[draft])
             A2 == Descendants(g, pc.roots[secret])
  <2>6. /\ t = 2 => Descendants(g, new.roots[secret]) = A2 \cup B /\ Descendants(g, new.roots[draft]) = A1
        /\ t = 1 => Descendants(g, new.roots[secret]) = A2 /\ Descendants(g, new.roots[draft]) = A1 \cup B
    BY <2>4, <2>5, PhaseNumbers DEF trackedphases
  <2>7. \A n \in Nodes(g) : before[n] = IF n \in A2 THEN 2 ELSE IF n \in A1 THEN 1 ELSE 0
    BY PhaseNumbers DEF PhasesGiven, before
  <2>8. \A n \in Nodes(g) : after[n] = IF n \in Descendants(g, new.roots[secret]) THEN 2
                                       ELSE IF n \in Descendants(g, new.roots[draft]) THEN 1 ELSE 0
    BY PhaseNumbers DEF PhasesGiven
  <2>9. after = [n \in Nodes(g) |-> after[n]]
    BY DEF PhasesGiven
  <2> HIDE DEF A1, A2, after, newroots
  <2>10. ASSUME NEW n \in Nodes(g) PROVE after[n] = target[n]
    <3>1. /\ n \in D => n \in B \/ before[n] >= t
          /\ n \in B => n \in D
      BY <1>5
    <3>2. CASE t = 2
      <4>1. after[n] = IF n \in A2 \cup B THEN 2 ELSE IF n \in A1 THEN 1 ELSE 0
        BY <2>6, <2>8, <3>2
      <4> QED BY <1>6, <2>7, <3>1, <3>2, <4>1
    <3>3. CASE t = 1
      <4>1. after[n] = IF n \in A2 THEN 2 ELSE IF n \in A1 \cup B THEN 1 ELSE 0
        BY <2>6, <2>8, <3>3
      <4> QED BY <1>6, <2>7, <3>1, <3>3, <4>1
    <3> QED BY <2>1, <3>2, <3>3
  <2>11. after = target
    BY <1>7, <2>9, <2>10
  <2> QED BY <2>5, <2>11 DEF after, target, before
<1> QED BY <1>8, <1>9

\* What becomes of the roots of p when nodes move below p.
Kept(g, pc, p, nodes) ==
    RootsOf(g, Descendants(g, pc.roots[p]) \ Between(g, pc.roots[p], nodes))

\* They give phase p to what had it and is no ancestor of nodes.
LEMMA KeptIs ==
    ASSUME NEW g, Small(g), NEW pc, IsCache(g, pc), NEW p \in trackedphases,
           NEW nodes, nodes \subseteq Nodes(g)
    PROVE  /\ Kept(g, pc, p, nodes) \subseteq Nodes(g)
           /\ Descendants(g, Kept(g, pc, p, nodes)) = Descendants(g, pc.roots[p]) \ Ancestors(g, nodes)
<1> DEFINE D == Descendants(g, pc.roots[p])
           A == Ancestors(g, nodes)
<1>1. IsGraph(g)
  BY DEF Small
<1>2. /\ UpClosed(g, D) /\ D \subseteq Nodes(g) /\ DownClosed(g, A)
  BY <1>1, DescendantsClosed, AncestorsClosed
<1>3. Kept(g, pc, p, nodes) = RootsOf(g, D \ A)
  <2>1. D \ Between(g, pc.roots[p], nodes) = D \ A
    BY DEF Between
  <2> QED BY <2>1 DEF Kept
<1> HIDE DEF D, A
<1>4. UpClosed(g, D \ A)
  BY <1>2 DEF UpClosed, DownClosed
<1>5. Descendants(g, RootsOf(g, D \ A)) = D \ A
  BY <1>1, <1>2, <1>4, DescendantsOfRoots
<1>6. RootsOf(g, D \ A) \subseteq Nodes(g)
  BY <1>2 DEF RootsOf
<1> QED BY <1>3, <1>5, <1>6 DEF D, A

\* Making one kind of roots fit
LEMMA MovedIs ==
    ASSUME NEW g, Small(g), NEW pc, IsCache(g, pc), NEW p \in trackedphases,
           NEW nodes, nodes \subseteq Nodes(g), NEW M, M \subseteq Nodes(g),
           NEW roots, roots = Kept(g, pc, p, nodes),
           NEW new, new = IF pc.roots[p] = roots THEN Loaded(g, pc, M) ELSE UpdateRoots(pc, p, roots)
    PROVE  /\ IsCache(g, new) /\ new.roots[p] = roots
           /\ \A q \in trackedphases \ {p} : new.roots[q] = pc.roots[q]
BY LoadedIs, KeptIs, UpdatedIs

\* Making all of N public, one kind of roots
IsPublished(g, pc, N, p, new) ==
    /\ new = [nodes |-> new.nodes, delroots |-> new.delroots, pc |-> new.pc]
    /\ IsCache(g, new.pc)
    /\ new.nodes = {n \in N : PhasesGiven(g, pc.roots)[n] >= p}
    /\ Descendants(g, new.pc.roots[p]) = Descendants(g, pc.roots[p]) \ Ancestors(g, new.nodes)
    /\ \A q \in trackedphases \ {p} : new.pc.roots[q] = pc.roots[q]

LEMMA PublishOne ==
    ASSUME NEW g, Small(g), NEW pc, IsCache(g, pc), NEW N, N \subseteq Nodes(g), NEW R,
           NEW p \in trackedphases,
           NEW new, new = AdvanceOne(g, [nodes |-> N, delroots |-> R, pc |-> pc], public, p)
    PROVE  IsPublished(g, pc, N, p, new)
<1> DEFINE nodes == {n \in N : PhaseOf(g, pc, n) >= p}
           roots == Kept(g, pc, p, nodes)
           moved == IF pc.roots[p] = roots THEN Loaded(g, pc, N) ELSE UpdateRoots(pc, p, roots)
<1>1. nodes \subseteq N /\ nodes = {n \in N : PhasesGiven(g, pc.roots)[n] >= p}
  BY PhaseOfIs
<1>2. /\ IsCache(g, moved) /\ moved.roots[p] = roots
      /\ \A q \in trackedphases \ {p} : moved.roots[q] = pc.roots[q]
  <2>1. nodes \subseteq Nodes(g)
    OBVIOUS
  <2>2. moved = IF pc.roots[p] = roots THEN Loaded(g, pc, N) ELSE UpdateRoots(pc, p, roots)
    OBVIOUS
  <2> HIDE DEF nodes, moved
  <2>3. roots = Kept(g, pc, p, nodes)
    OBVIOUS
  <2> HIDE DEF roots
  <2> QED BY <2>1, <2>2, <2>3, MovedIs
<1>3. Descendants(g, roots) = Descendants(g, pc.roots[p]) \ Ancestors(g, nodes)
  <2> HIDE DEF nodes
  <2> QED BY <1>1, KeptIs
<1>4. CASE nodes = {}
  <2>1. new = [nodes |-> {}, delroots |-> R, pc |-> Loaded(g, pc, N)]
    BY <1>4 DEF AdvanceOne
  <2>2. IsCache(g, Loaded(g, pc, N)) /\ Loaded(g, pc, N).roots = pc.roots
    BY LoadedIs
  <2>3. Ancestors(g, {}) = {}
    BY AncestorsOfNone DEF Small
  <2> HIDE DEF nodes
  <2> QED BY <1>1, <1>4, <2>1, <2>2, <2>3 DEF IsPublished
<1>5. CASE nodes # {}
  <2>1. new = [nodes |-> nodes, delroots |-> R \cup (pc.roots[p] \ roots), pc |-> moved]
    BY <1>5 DEF AdvanceOne, Kept
  <2> HIDE DEF nodes, moved, roots
  <2> QED BY <1>1, <1>2, <1>3, <2>1 DEF IsPublished
<1> QED BY <1>4, <1>5

\* Advancing: N and its ancestors get phase t, or keep a lower one.
LEMMA AdvanceToPublic ==
    ASSUME NEW g, Small(g), NEW pc, IsCache(g, pc), NEW N, N \subseteq Nodes(g)
    PROVE  LET new == AdvanceBoundary(g, pc, public, N)
           IN  /\ IsCache(g, new)
               /\ PhasesGiven(g, new.roots) = Advanced(g, PhasesGiven(g, pc.roots), public, N)
<1> DEFINE start == [nodes |-> N, delroots |-> {}, pc |-> pc]
           one == AdvanceOne(g, start, public, draft)
           two == AdvanceOne(g, one, public, secret)
           before == PhasesGiven(g, pc.roots)
           mid == PhasesGiven(g, one.pc.roots)
           after == PhasesGiven(g, two.pc.roots)
           target == Advanced(g, before, public, N)
           A1 == Descendants(g, pc.roots[draft])
           A2 == Descendants(g, pc.roots[secret])
           C1 == Ancestors(g, one.nodes)
           C2 == Ancestors(g, two.nodes)
           C == Ancestors(g, N)
<1>1. IsGraph(g) /\ draft \in trackedphases /\ secret \in trackedphases /\ draft # secret
      /\ public = 0 /\ draft = 1 /\ secret = 2
  BY PhaseNumbers DEF Small, trackedphases
<1>2. AdvanceBoundary(g, pc, public, N) = two.pc
  BY <1>1 DEF AdvanceBoundary
<1>3. /\ one = [nodes |-> one.nodes, delroots |-> one.delroots, pc |-> one.pc]
      /\ IsCache(g, one.pc) /\ one.nodes = {n \in N : before[n] >= draft}
      /\ Descendants(g, one.pc.roots[draft]) = A1 \ C1
      /\ one.pc.roots[secret] = pc.roots[secret]
  <2>1. one = AdvanceOne(g, [nodes |-> N, delroots |-> {}, pc |-> pc], public, draft)
    OBVIOUS
  <2> HIDE DEF one
  <2>2. IsPublished(g, pc, N, draft, one)
    BY <1>1, <2>1, PublishOne
  <2> QED BY <1>1, <2>2 DEF IsPublished
<1>4. /\ IsCache(g, two.pc) /\ two.nodes = {n \in one.nodes : mid[n] >= secret}
      /\ Descendants(g, two.pc.roots[secret]) = A2 \ C2
      /\ two.pc.roots[draft] = one.pc.roots[draft]
  <2> HIDE DEF one
  <2>1. two = AdvanceOne(g, [nodes |-> one.nodes, delroots |-> one.delroots, pc |-> one.pc], public, secret)
    BY <1>3
  <2>2. one.nodes \subseteq Nodes(g)
    BY <1>3
  <2> HIDE DEF two
  <2>3. IsPublished(g, one.pc, one.nodes, secret, two)
    BY <1>1, <1>3, <2>1, <2>2, PublishOne
  <2> QED BY <1>1, <1>3, <2>3 DEF IsPublished
<1> HIDE DEF one, two
<1>5. /\ \A n \in Nodes(g) : before[n] = IF n \in A2 THEN 2 ELSE IF n \in A1 THEN 1 ELSE 0
      /\ \A n \in Nodes(g) : mid[n] = IF n \in A2 THEN 2 ELSE IF n \in A1 \ C1 THEN 1 ELSE 0
      /\ \A n \in Nodes(g) : after[n] = IF n \in A2 \ C2 THEN 2 ELSE IF n \in A1 \ C1 THEN 1 ELSE 0
  BY <1>1, <1>3, <1>4 DEF PhasesGiven
<1>6. after = [n \in Nodes(g) |-> after[n]] /\ target = [n \in Nodes(g) |-> target[n]]
  BY DEF PhasesGiven, Advanced
<1>7. IsPhases(g, before)
  BY <1>1, GivenIs
<1>8. \A n \in Nodes(g) : /\ n \notin C => target[n] = before[n]
                          /\ n \in C => target[n] = 0
  <2> HIDE DEF before
  <2>1. public \in allphases
    BY PhaseNumbers
  <2>2. \A n \in Nodes(g) : /\ target[n] <= before[n] /\ target[n] \in {before[n], public}
                            /\ n \notin C => target[n] = before[n]
                            /\ n \in C => target[n] <= public
    BY <1>1, <1>7, <2>1, AdvancedIs
  <2>3. \A n \in Nodes(g) : before[n] \in {0, 1, 2}
    BY <1>7, PhaseNumbers DEF IsPhases
  <2> QED BY <1>1, <2>2, <2>3
<1> HIDE DEF before, mid, after, target
<1>9. one.nodes = N \cap (A1 \cup A2) /\ two.nodes = N \cap A2
  <2> HIDE DEF A1, A2, C1, C2
  <2>1. \A n \in N : before[n] >= 1 <=> n \in A1 \cup A2
    BY <1>5
  <2>2. one.nodes = N \cap (A1 \cup A2)
    BY <1>1, <1>3, <2>1
  <2>3. \A n \in N : mid[n] >= 2 <=> n \in A2
    BY <1>5
  <2> QED BY <1>1, <1>4, <2>2, <2>3
<1>10. C1 \subseteq C /\ C2 \subseteq C
  <2>1. N \subseteq C
    BY <1>1, AncestorsClosed
  <2>2. one.nodes \subseteq C /\ two.nodes \subseteq C
    BY <1>9, <2>1
  <2> QED BY <1>1, <2>2, AncestorsMonotone
\* An ancestor of N that is not public has a descendant in N that is not.
<1>11. C \cap (A1 \cup A2) \subseteq C1 /\ C \cap A2 \subseteq C2
  <2>1. ASSUME NEW U, UpClosed(g, U), NEW n \in C, n \in U PROVE n \in Ancestors(g, N \cap U)
    <3>1. PICK m \in N : n \in Ancestors(g, {m})
      BY <1>1, <2>1, AncestorOfOne
    <3>2. m \in Descendants(g, {n})
      BY <1>1, <3>1, Related
    <3>3. m \in U
      <4>1. {n} \cap Nodes(g) \subseteq U
        BY <2>1
      <4> QED BY <1>1, <2>1, <3>2, <4>1, DescendantsLeast
    <3>4. N \cap U \subseteq Nodes(g) /\ m \in N \cap U
      BY <3>3
    <3>5. m \in Ancestors(g, N \cap U)
      BY <1>1, <3>4, AncestorsClosed
    <3>6. Ancestors(g, {m}) \subseteq Ancestors(g, N \cap U)
      BY <1>1, <3>4, <3>5, AncestorsMonotone
    <3> QED BY <3>1, <3>6
  <2>2. UpClosed(g, A1) /\ UpClosed(g, A2)
    BY <1>1, DescendantsClosed
  <2> HIDE DEF A1, A2
  <2>3. UpClosed(g, A1 \cup A2)
    BY <2>2 DEF UpClosed
  <2> HIDE DEF C
  <2> QED BY <1>9, <2>1, <2>2, <2>3
<1> HIDE DEF A1, A2, C1, C2, C
<1>12. ASSUME NEW n \in Nodes(g) PROVE after[n] = target[n]
  BY <1>5, <1>8, <1>10, <1>11
<1>13. after = target
  BY <1>6, <1>12
<1> QED BY <1>2, <1>4, <1>13 DEF after, target, before

\* Advancing to draft: roots of secret that are dropped become draft.
LEMMA AdvanceToDraft ==
    ASSUME NEW g, Small(g), NEW pc, IsCache(g, pc), NEW N, N \subseteq Nodes(g)
    PROVE  LET new == AdvanceBoundary(g, pc, draft, N)
           IN  /\ IsCache(g, new)
               /\ PhasesGiven(g, new.roots) = Advanced(g, PhasesGiven(g, pc.roots), draft, N)
<1> DEFINE before == PhasesGiven(g, pc.roots)
           target == Advanced(g, before, draft, N)
           nodes == {n \in N : PhaseOf(g, pc, n) >= secret}
           olds == pc.roots[secret]
           roots == Kept(g, pc, secret, nodes)
           moved == IF olds = roots THEN Loaded(g, pc, N) ELSE UpdateRoots(pc, secret, roots)
           mid == PhasesGiven(g, moved.roots)
           new == AdvanceBoundary(g, pc, draft, N)
           after == PhasesGiven(g, new.roots)
           A1 == Descendants(g, pc.roots[draft])
           A2 == Descendants(g, olds)
           CN == Ancestors(g, nodes)
           C == Ancestors(g, N)
           D == Descendants(g, olds \ roots)
<1>1. IsGraph(g) /\ draft \in trackedphases /\ secret \in trackedphases /\ draft # secret
      /\ public = 0 /\ draft = 1 /\ secret = 2 /\ draft \in allphases
  BY PhaseNumbers DEF Small, trackedphases
<1>2. \A n \in Nodes(g) : before[n] = IF n \in A2 THEN 2 ELSE IF n \in A1 THEN 1 ELSE 0
  BY <1>1 DEF PhasesGiven
<1>3. nodes = N \cap A2
  <2>1. nodes = {n \in N : before[n] >= secret}
    BY PhaseOfIs
  <2> QED BY <1>1, <1>2, <2>1
<1>4. IsPhases(g, before)
  BY <1>1, GivenIs
<1>5. \A n \in Nodes(g) : /\ n \notin C => target[n] = before[n]
                          /\ n \in C => target[n] = IF n \in A2 THEN 1 ELSE before[n]
  <2> HIDE DEF before
  <2>1. \A n \in Nodes(g) : /\ target[n] <= before[n] /\ target[n] \in {before[n], draft}
                            /\ n \notin C => target[n] = before[n]
                            /\ n \in C => target[n] <= draft
    BY <1>1, <1>4, AdvancedIs
  <2> QED BY <1>1, <1>2, <2>1
<1> HIDE DEF before
<1>6. target = [n \in Nodes(g) |-> target[n]] /\ before = [n \in Nodes(g) |-> before[n]]
  BY DEF PhasesGiven, Advanced, before
<1>7. CASE nodes = {}
  <2>1. new = Loaded(g, pc, N)
    BY <1>1, <1>7 DEF AdvanceBoundary, AdvanceOne
  <2>2. IsCache(g, new) /\ after = before
    BY <2>1, LoadedIs DEF before
  <2>3. C \cap A2 = {}
    <3> SUFFICES ASSUME NEW n \in C, n \in A2 PROVE FALSE
      OBVIOUS
    <3>1. PICK m \in N : n \in Ancestors(g, {m})
      BY <1>1, AncestorOfOne
    <3>2. m \in Descendants(g, {n})
      BY <1>1, <3>1, Related
    <3>3. m \in A2
      <4>1. UpClosed(g, A2)
        BY <1>1, DescendantsClosed
      <4> HIDE DEF A2
      <4> QED BY <1>1, <3>2, <4>1, DescendantsLeast
    <3> QED BY <1>3, <1>7, <3>3
  <2>4. \A n \in Nodes(g) : target[n] = before[n]
    BY <1>5, <2>3
  <2>5. target = before
    BY <1>6, <2>4
  <2> QED BY <2>2, <2>5 DEF before
<1>8. CASE nodes # {}
  <2>1. /\ IsCache(g, moved) /\ moved.roots[secret] = roots /\ moved.roots[draft] = pc.roots[draft]
        /\ roots \subseteq Nodes(g) /\ Descendants(g, roots) = A2 \ CN
        /\ nodes \subseteq Nodes(g) /\ olds \subseteq Nodes(g)
    <3>1. nodes \subseteq Nodes(g) /\ olds \subseteq Nodes(g)
      BY <1>1, <1>3 DEF IsCache
    <3> HIDE DEF nodes
    <3>2. roots \subseteq Nodes(g) /\ Descendants(g, roots) = A2 \ CN
      BY <1>1, <3>1, KeptIs
    <3>3. /\ roots = Kept(g, pc, secret, nodes)
          /\ moved = IF pc.roots[secret] = roots THEN Loaded(g, pc, N) ELSE UpdateRoots(pc, secret, roots)
      OBVIOUS
    <3> HIDE DEF moved, roots
    <3>4. /\ IsCache(g, moved) /\ moved.roots[secret] = roots
          /\ \A q \in trackedphases \ {secret} : moved.roots[q] = pc.roots[q]
      <4>1. secret \in trackedphases /\ nodes \subseteq Nodes(g)
        BY <1>1, <3>1
      <4> QED BY <3>3, <4>1, MovedIs
    <3> QED BY <1>1, <3>1, <3>2, <3>4
  <2>2. new = RetractBoundary(g, moved, draft, olds \ roots)
    BY <1>1, <1>8 DEF AdvanceBoundary, AdvanceOne, Kept
  <2> HIDE DEF moved, roots, nodes
  <2>3. IsCache(g, new) /\ after = Retracted(g, mid, draft, olds \ roots)
    BY <1>1, <2>1, <2>2, RetractIs
  <2>4. \A n \in Nodes(g) : mid[n] = IF n \in A2 \ CN THEN 2 ELSE IF n \in A1 THEN 1 ELSE 0
    BY <1>1, <2>1 DEF PhasesGiven
  <2>5. IsPhases(g, mid)
    BY <1>1, GivenIs
  <2> HIDE DEF mid
  <2>6. \A n \in Nodes(g) : /\ mid[n] <= after[n] /\ after[n] \in {mid[n], draft}
                            /\ n \notin D => after[n] = mid[n]
                            /\ n \in D => draft <= after[n]
    BY <1>1, <2>3, <2>5, RetractedIs
  <2>7. after = [n \in Nodes(g) |-> after[n]]
    BY DEF PhasesGiven
  <2>8. UpClosed(g, A2) /\ A2 \subseteq Nodes(g) /\ olds \subseteq A2
    BY <1>1, <2>1, DescendantsClosed
  <2>9. D \subseteq A2
    <3> HIDE DEF A2
    <3> QED BY <1>1, <2>8, DescendantsLeast
  <2>10. C \cap A2 \subseteq D \cap CN
    <3> SUFFICES ASSUME NEW n \in C, n \in A2 PROVE n \in D /\ n \in CN
      OBVIOUS
    <3>1. PICK m \in N : n \in Ancestors(g, {m})
      BY <1>1, AncestorOfOne
    <3>2. m \in Descendants(g, {n})
      BY <1>1, <2>8, <3>1, Related
    <3>3. m \in A2
      <4> HIDE DEF A2
      <4> QED BY <1>1, <2>8, <3>2, DescendantsLeast
    <3>4. m \in nodes /\ n \in CN
      <4>1. m \in CN /\ m \in nodes
        BY <1>1, <1>3, <2>1, <3>3, AncestorsClosed
      <4>2. Ancestors(g, {m}) \subseteq CN
        BY <1>1, <2>1, <4>1, AncestorsMonotone
      <4> QED BY <3>1, <4>1, <4>2
    <3>5. PICK r \in Ancestors(g, {n}) : r \in olds
      BY <1>1, <2>8, Related
    <3>6. r \in CN
      BY <1>1, <2>1, <3>4, <3>5, AncestorsMonotone
    <3>7. r \notin roots
      <4>1. roots \subseteq Descendants(g, roots)
        BY <1>1, <2>1, DescendantsClosed
      <4> QED BY <2>1, <3>6, <4>1
    <3> QED BY <1>1, <2>8, <3>4, <3>5, <3>7, Related
  <2>11. CN \subseteq C
    BY <1>1, <1>3, <2>1, AncestorsClosed, AncestorsMonotone
  <2>12. D \cap (A2 \ CN) = D \ CN
    BY <2>9
  <2> HIDE DEF A1, A2, C, CN, D, after, target
  <2>13. ASSUME NEW n \in Nodes(g) PROVE after[n] = target[n]
    <3>1. CASE n \in A2 /\ n \in CN
      <4>1. n \in C /\ n \in D
        BY <2>10, <2>11, <3>1
      <4>2. mid[n] \in {0, 1} /\ after[n] = 1
        BY <1>1, <2>4, <2>6, <3>1, <4>1
      <4> QED BY <1>5, <3>1, <4>1, <4>2
    <3>2. CASE n \in A2 /\ n \notin CN
      BY <1>1, <1>2, <1>5, <2>4, <2>6, <2>10, <2>11, <3>2
    <3>3. CASE n \notin A2
      BY <1>1, <1>2, <1>5, <2>4, <2>6, <2>9, <3>3
    <3> QED BY <3>1, <3>2, <3>3
  <2>14. after = target
    BY <1>6, <2>7, <2>13
  <2> QED BY <2>3, <2>14 DEF after, target, before
<1> QED BY <1>7, <1>8

\* Advancing: N and its ancestors get phase t, or keep a lower one.
LEMMA AdvanceIs ==
    ASSUME NEW g, Small(g), NEW pc, IsCache(g, pc), NEW t \in allphases, NEW N, N \subseteq Nodes(g)
    PROVE  LET new == AdvanceBoundary(g, pc, t, N)
           IN  /\ IsCache(g, new)
               /\ PhasesGiven(g, new.roots) = Advanced(g, PhasesGiven(g, pc.roots), t, N)
<1>1. CASE t = public
  BY <1>1, AdvanceToPublic
<1>2. CASE t = draft
  BY <1>2, AdvanceToDraft
<1>3. CASE t = secret
  <2> DEFINE before == PhasesGiven(g, pc.roots)
             target == Advanced(g, before, secret, N)
  <2>1. AdvanceBoundary(g, pc, t, N) = pc
    BY <1>3, PhaseNumbers DEF AdvanceBoundary
  <2>2. IsGraph(g) /\ IsPhases(g, before) /\ secret \in allphases
    BY <1>3, GivenIs DEF Small
  <2> HIDE DEF before
  <2>3. \A n \in Nodes(g) : /\ target[n] <= before[n] /\ target[n] \in {before[n], secret}
    BY <2>2, AdvancedIs
  <2>4. \A n \in Nodes(g) : target[n] = before[n]
    BY <2>2, <2>3, PhaseNumbers DEF IsPhases
  <2>5. target = [n \in Nodes(g) |-> target[n]] /\ before = [n \in Nodes(g) |-> before[n]]
    BY <2>2 DEF Advanced, IsPhases
  <2>6. target = before
    BY <2>4, <2>5
  <2> QED BY <1>3, <2>1, <2>6 DEF before
<1> QED BY <1>1, <1>2, <1>3, PhaseNumbers

-----------------------------------------------------------------------------
(* Graphs that grow                                                        *)

\* A graph is a function, and nothing else about it matters.
IsFcn(g) == g = [n \in Nodes(g) |-> g[n]]

\* h is g and perhaps changesets that came later.
Later(h, g) ==
    /\ Nodes(g) \subseteq Nodes(h) /\ \A n \in Nodes(g) : h[n] = g[n]
    /\ \A m \in Nodes(h) \ Nodes(g) : \A n \in Nodes(g) : n < m

LEMMA NoneIs == Nodes(NoChangesets) = {} /\ IsFcn(NoChangesets) /\ IsGraph(NoChangesets)
<1>1. Nodes(NoChangesets) = {}
  BY DEF Nodes, NoChangesets
<1>2. NoChangesets = [n \in {} |-> NoChangesets[n]]
  BY DEF NoChangesets
<1> QED BY <1>1, <1>2 DEF IsFcn, IsGraph

\* A function is determined by its domain and its values.
LEMMA SameFcn ==
    ASSUME NEW g, IsFcn(g), NEW h, IsFcn(h), Nodes(g) = Nodes(h), \A n \in Nodes(g) : g[n] = h[n]
    PROVE  g = h
BY DEF IsFcn

\* One more changeset makes a graph that continues g.
LEMMA GrownIs ==
    ASSUME NEW g, IsGraph(g), NEW N \in Nat, Nodes(g) \subseteq 1..N, NEW h \in Grown(g)
    PROVE  IsFcn(h) /\ IsGraph(h) /\ Later(h, g) /\ Nodes(h) = Nodes(g) \cup {NextNode(g)}
<1> DEFINE n == NextNode(g)
<1>1. PICK P \in SUBSET Nodes(g) : h = Added(g, n, P)
  BY DEF Grown, ParentSets, WithChild
<1>2. n \in Nat /\ \A m \in Nodes(g) : m < n
  BY NextIsNew
<1> HIDE DEF n
<1>3. /\ Nodes(h) = Nodes(g) \cup {n}
      /\ \A m \in Nodes(g) : h[m] = g[m]
      /\ IsGraph(h)
  BY <1>1, <1>2, AddedGraph
<1>4. IsFcn(h)
  BY <1>1 DEF Added, Nodes, IsFcn
<1> QED BY <1>2, <1>3, <1>4 DEF Later, n

LEMMA LaterTwice ==
    ASSUME NEW g, NEW h, NEW k, Later(h, g), Later(k, h)
    PROVE  Later(k, g)
BY DEF Later

\* What the commands add to the changelog is a graph that continues it.
LEMMA BoundedIs ==
    ASSUME NEW g, Small(g), IsFcn(g),
           NEW h \in Bounded({g} \cup Grown(g) \cup GrownTwice(g))
    PROVE  Small(h) /\ IsFcn(h) /\ Later(h, g)
<1>1. /\ Nodes(h) \subseteq 1..MaxNode /\ MaxNode \in Nat
      /\ h = g \/ h \in Grown(g) \/ \E k \in Grown(g) : h \in Grown(k)
  BY BoundAssumption DEF Bounded, GrownTwice
<1>2. CASE h = g
  BY <1>2 DEF Later
<1>3. CASE h \in Grown(g)
  BY <1>1, <1>3, GrownIs DEF Small
<1>4. ASSUME NEW k \in Grown(g), h \in Grown(k) PROVE Small(h) /\ IsFcn(h) /\ Later(h, g)
  <2>1. IsGraph(k) /\ Later(k, g) /\ Nodes(k) = Nodes(g) \cup {NextNode(g)}
    BY <1>1, GrownIs DEF Small
  <2>2. NextNode(g) \in Nat \ {0}
    BY <1>1, NextIsNew DEF Small
  <2>3. Nodes(k) \subseteq 1..(MaxNode + NextNode(g)) /\ MaxNode + NextNode(g) \in Nat
    BY <1>1, <2>1, <2>2 DEF Small
  <2>4. IsFcn(h) /\ IsGraph(h) /\ Later(h, k)
    BY <1>4, <2>1, <2>3, GrownIs
  <2> QED BY <1>1, <2>1, <2>4, LaterTwice DEF Small
<1> QED BY <1>1, <1>2, <1>3, <1>4

\* The cache is one of the graph that continues the changelog.
LEMMA CacheKept ==
    ASSUME NEW g, Small(g), NEW h, Small(h), Later(h, g), NEW pc, IsCache(g, pc)
    PROVE  IsCache(h, pc)
<1>1. MaxNode \in Nat /\ Nodes(g) \subseteq 1..MaxNode /\ Nodes(h) \subseteq 1..MaxNode
      /\ IsGraph(g) /\ IsGraph(h) /\ Nodes(g) \subseteq Nodes(h) /\ \A n \in Nodes(g) : h[n] = g[n]
  BY BoundAssumption DEF Small, Later
<1>2. /\ Cardinality(Nodes(g)) \in Nat /\ Cardinality(Nodes(h)) \in Nat
      /\ \A n \in Nodes(g) : Rev(g, n) \in 1..Cardinality(Nodes(g))
      /\ \A m \in Nodes(h) : \A n \in Nodes(h) : m < n => Rev(h, m) < Rev(h, n)
      /\ \A n \in Nodes(h) : Rev(h, n) \in 1..Cardinality(Nodes(h))
  BY <1>1, RevIs
<1>3. /\ Cardinality(Nodes(g)) <= Cardinality(Nodes(h))
      /\ \A n \in Nodes(g) : Rev(h, n) = Rev(g, n)
  BY <1>1, RevKept DEF Later
<1>4. \A n \in Nodes(g) : PhasesGiven(h, pc.roots)[n] = PhasesGiven(g, pc.roots)[n]
  BY <1>1, GivenKept
<1>5. Len(pc.revs) \in Nat
  BY DEF IsCache
<1>6. ASSUME NEW n \in Nodes(h), Rev(h, n) <= Len(pc.revs) PROVE n \in Nodes(g)
  <2>1. Len(pc.revs) <= Cardinality(Nodes(g))
    BY DEF IsCache
  <2> SUFFICES ASSUME n \notin Nodes(g) PROVE FALSE
    OBVIOUS
  <2>2. Rev(h, n) \in 1..Cardinality(Nodes(g))
    BY <1>2, <1>5, <1>6, <2>1
  <2>3. PICK m \in Nodes(g) : Rev(g, m) = Rev(h, n)
    BY <1>1, <2>2, NodeAtIs
  <2>4. m < n
    BY DEF Later
  <2>5. Rev(h, m) < Rev(h, n) /\ Rev(h, m) = Rev(h, n)
    BY <1>1, <1>2, <1>3, <2>3, <2>4
  <2> QED BY <1>2, <2>2, <2>5
<1>7. pc.roots \in [trackedphases -> SUBSET Nodes(h)]
  BY <1>1 DEF IsCache
<1>8. \A n \in Nodes(h) : Rev(h, n) <= Len(pc.revs) => pc.revs[Rev(h, n)] = PhasesGiven(h, pc.roots)[n]
  BY <1>3, <1>4, <1>6 DEF IsCache
<1>9. Len(pc.revs) <= Cardinality(Nodes(h))
  BY <1>2, <1>3, <1>5 DEF IsCache
<1>10. pc \in [roots : [trackedphases -> SUBSET Nodes(h)], revs : Seq(allphases)]
  BY <1>7 DEF IsCache
<1> QED BY <1>8, <1>9, <1>10 DEF IsCache

-----------------------------------------------------------------------------
(* The invariant                                                           *)

\* Changelog and bundle are parts of one graph, the changelog without the
\* children of what is in the bundle; unless strip is at work, the bundle is
\* empty, the roots are in the changelog and what is cached are their phases.
IInv ==
    /\ IsFcn(changelog) /\ IsGraph(changelog)
    /\ IsGraph(AllChangesets) /\ Nodes(bundle) \subseteq 1..MaxNode
    /\ ~stripping => bundle = NoChangesets /\ IsCache(changelog, Cache)

\* The changesets of both, the changelog's as they are
LEMMA JoinedIs ==
    ASSUME NEW g, NEW h
    PROVE  /\ IsFcn(Joined(g, h)) /\ Nodes(Joined(g, h)) = Nodes(g) \cup Nodes(h)
           /\ \A n \in Nodes(g) : Joined(g, h)[n] = g[n]
           /\ \A n \in Nodes(h) \ Nodes(g) : Joined(g, h)[n] = h[n]
<1> DEFINE j == Joined(g, h)
<1>1. j = [n \in Nodes(g) \cup Nodes(h) |-> IF n \in Nodes(g) THEN g[n] ELSE h[n]]
  BY DEF Joined
<1>2. Nodes(j) = Nodes(g) \cup Nodes(h)
  BY <1>1 DEF Nodes
<1> HIDE DEF j
<1> QED BY <1>1, <1>2 DEF IsFcn, j

LEMMA JoinedNone ==
    ASSUME NEW g, IsFcn(g)
    PROVE  Joined(g, NoChangesets) = g
<1>1. IsFcn(Joined(g, NoChangesets)) /\ Nodes(Joined(g, NoChangesets)) = Nodes(g)
      /\ \A n \in Nodes(g) : Joined(g, NoChangesets)[n] = g[n]
  BY JoinedIs, NoneIs
<1> QED BY <1>1, SameFcn

\* What holds of the graph while no strip is at work
LEMMA Quiet ==
    ASSUME TypeOK, IInv
    PROVE  /\ Small(changelog) /\ IsFcn(changelog) /\ Small(AllChangesets)
           /\ Nodes(changelog) \subseteq Nodes(AllChangesets)
           /\ \A n \in Nodes(changelog) : AllChangesets[n] = changelog[n]
           /\ ~stripping => AllChangesets = changelog /\ IsCache(changelog, Cache)
                            /\ bundle = NoChangesets
<1>1. Nodes(AllChangesets) = Nodes(changelog) \cup Nodes(bundle)
      /\ \A n \in Nodes(changelog) : AllChangesets[n] = changelog[n]
  BY JoinedIs DEF AllChangesets
<1>2. ~stripping => AllChangesets = changelog
  BY JoinedNone DEF IInv, AllChangesets
<1> QED BY <1>1, <1>2 DEF IInv, TypeOK, Small

\* A command that leaves a cache of a graph that continues the changelog
LEMMA TransactionNext ==
    ASSUME TypeOK, IInv, NEW g, Small(g), IsFcn(g), NEW pc, IsCache(g, pc), Transaction(g, pc)
    PROVE  TypeOK' /\ IInv'
<1>1. /\ ~stripping /\ ~stripping' /\ bundle = NoChangesets /\ bundle' = NoChangesets
      /\ changelog' = g /\ phaseroots' = pc.roots /\ phaserevs' = pc.revs
  BY DEF Transaction, TypeOK, IInv
<1>2. MaxNode \in Nat /\ Nodes(g) \subseteq 1..MaxNode /\ IsGraph(g)
  BY BoundAssumption DEF Small
<1>3. Cardinality(Nodes(g)) \in 0..MaxNode
  BY <1>2, RevIs
<1>4. pc = [roots |-> pc.roots, revs |-> pc.revs]
  BY DEF IsCache
<1>5. Cache' = pc
  BY <1>1, <1>4 DEF Cache
<1>6. AllChangesets' = g
  BY <1>1, JoinedNone DEF AllChangesets
<1>7. pc.roots \in Roots /\ pc.revs \in Seq(allphases) /\ Len(pc.revs) <= MaxNode
  BY <1>2, <1>3 DEF IsCache, Roots
<1>8. TypeOK'
  BY <1>1, <1>2, <1>7, NoneIs DEF TypeOK, Transaction, Roots
<1>9. IInv'
  BY <1>1, <1>2, <1>5, <1>6, NoneIs DEF IInv
<1> QED BY <1>8, <1>9

LEMMA InvInit == Init => TypeOK /\ IInv
<1> SUFFICES ASSUME Init PROVE TypeOK /\ IInv
  OBVIOUS
<1>1. MaxNode \in Nat /\ Nodes(NoChangesets) = {} /\ IsFcn(NoChangesets) /\ IsGraph(NoChangesets)
  BY BoundAssumption, NoneIs
<1>2. changelog = NoChangesets /\ bundle = NoChangesets /\ stripping = FALSE
      /\ phaseroots = [p \in trackedphases |-> {}] /\ phaserevs = << >>
  BY DEF Init
<1>3. AllChangesets = NoChangesets
  BY <1>1, <1>2, JoinedNone DEF AllChangesets
<1>4. TypeOK
  <2>1. phaseroots \in Roots
    BY <1>2 DEF Roots
  <2>2. phaserevs \in Seq(allphases) /\ Len(phaserevs) = 0
    BY <1>2
  <2>3. Nodes(changelog) = {} /\ Nodes(bundle) = {}
    BY <1>1, <1>2
  <2>4. stripping \in BOOLEAN
    BY <1>2
  <2>5. Len(phaserevs) <= MaxNode
    BY <1>1, <2>2
  <2>6. Nodes(changelog) \subseteq 1..MaxNode /\ Nodes(bundle) \cap Nodes(changelog) = {}
    BY <2>3
  <2> QED BY <2>1, <2>2, <2>4, <2>5, <2>6 DEF TypeOK
<1>5. Cache \in [roots : [trackedphases -> SUBSET Nodes(NoChangesets)], revs : Seq(allphases)]
      /\ Len(Cache.revs) = 0
  BY <1>1, <1>2 DEF Cache
<1>6. Cardinality(Nodes(NoChangesets)) = 0
  BY <1>1, FS_EmptySet
<1>7. IsCache(changelog, Cache)
  <2>1. IsCache(NoChangesets, Cache)
    BY <1>1, <1>5, <1>6 DEF IsCache
  <2> QED BY <1>2, <2>1
<1> QED BY <1>1, <1>2, <1>3, <1>4, <1>7 DEF IInv

-----------------------------------------------------------------------------
(* The commands                                                            *)

\* Retracting what is not in H moves nothing in H.
LEMMA RetractAdded ==
    ASSUME NEW g, Small(g), NEW pc, IsCache(g, pc), NEW t \in allphases,
           NEW H, H \subseteq Nodes(g), DownClosed(g, H),
           NEW new, new = RetractBoundary(g, pc, t, Nodes(g) \ H),
           NEW old, old = PhasesGiven(g, pc.roots), NEW ph, ph = PhasesGiven(g, new.roots)
    PROVE  /\ IsCache(g, new)
           /\ \A n \in H : ph[n] = old[n]
           /\ \A n \in Nodes(g) \ H : ph[n] \in {old[n], t} /\ old[n] <= ph[n] /\ t <= ph[n]
<1> DEFINE N == Nodes(g) \ H
<1>1. IsGraph(g) /\ N \subseteq Nodes(g)
  BY DEF Small
<1>2. UpClosed(g, N)
  BY DEF UpClosed, DownClosed
<1>3. N \subseteq Descendants(g, N) /\ Descendants(g, N) \subseteq N
  <2>1. N \cap Nodes(g) = N
    OBVIOUS
  <2> HIDE DEF N
  <2> QED BY <1>1, <1>2, <2>1, DescendantsClosed, DescendantsLeast
<1>4. IsCache(g, new) /\ ph = Retracted(g, old, t, N)
  BY <1>1, RetractIs
<1>5. IsPhases(g, old)
  BY <1>1, GivenIs
<1> HIDE DEF N
<1>6. \A n \in Nodes(g) : /\ old[n] <= ph[n] /\ ph[n] \in {old[n], t}
                          /\ n \notin Descendants(g, N) => ph[n] = old[n]
                          /\ n \in Descendants(g, N) => t <= ph[n]
  BY <1>1, <1>4, <1>5, RetractedIs
<1> QED BY <1>3, <1>4, <1>6 DEF N

\* What a command that adds changesets in phase t makes of the phases, and
\* what one does that moves changesets to phase t
Old == PhasesGiven(changelog, phaseroots)
Adds(g, pc, t) ==
    LET ph == PhasesGiven(g, pc.roots)
    IN  /\ \A n \in Nodes(changelog) : ph[n] \in {Old[n], t} /\ ph[n] <= Old[n]
        /\ \A n \in Nodes(g) \ Nodes(changelog) :
              t <= ph[n] /\ (ph[n] = t \/ \E p \in g[n] : ph[n] = ph[p])
Moves(pc, t) ==
    LET ph == PhasesGiven(changelog, pc.roots)
    IN  \A n \in Nodes(changelog) : ph[n] \in {Old[n], t}

\* The changelog in a graph that continues it
LEMMA Continued ==
    ASSUME TypeOK, IInv, ~stripping, NEW g, Small(g), Later(g, changelog)
    PROVE  /\ IsCache(g, Cache) /\ DownClosed(g, Nodes(changelog))
           /\ Nodes(changelog) \subseteq Nodes(g)
           /\ \A n \in Nodes(changelog) : PhasesGiven(g, phaseroots)[n] = Old[n]
           /\ \A n \in Nodes(changelog) : Old[n] \in {0, 1, 2}
           /\ \A n \in Nodes(g) \ Nodes(changelog) :
                 LET ph == PhasesGiven(g, phaseroots)
                 IN  ph[n] = public \/ \E p \in g[n] : ph[n] = ph[p]
<1>1. Small(changelog) /\ IsCache(changelog, Cache)
  BY Quiet
<1>2. IsCache(g, Cache)
  BY <1>1, CacheKept
<1>3. IsGraph(g) /\ IsGraph(changelog) /\ Nodes(changelog) \subseteq Nodes(g)
      /\ \A n \in Nodes(changelog) : g[n] = changelog[n]
  BY <1>1 DEF Small, Later
<1>4. DownClosed(g, Nodes(changelog))
  BY <1>3 DEF DownClosed, IsGraph
<1>5. \A n \in Nodes(changelog) : PhasesGiven(g, phaseroots)[n] = Old[n]
  BY <1>3, GivenKept DEF Old
<1>6. \A n \in Nodes(changelog) : Old[n] \in {0, 1, 2}
  <2>1. IsPhases(changelog, Old)
    BY <1>3, GivenIs DEF Old
  <2> QED BY <2>1, PhaseNumbers DEF IsPhases
<1>7. phaseroots[draft] \subseteq Nodes(changelog) /\ phaseroots[secret] \subseteq Nodes(changelog)
  BY <1>1 DEF IsCache, Cache, trackedphases
<1>8. \A n \in Nodes(g) \ Nodes(changelog) :
         LET ph == PhasesGiven(g, phaseroots)
         IN  ph[n] = public \/ \E p \in g[n] : ph[n] = ph[p]
  BY <1>3, <1>7, GivenParents
<1> QED BY <1>2, <1>3, <1>4, <1>5, <1>6, <1>8

\* Retracting what is added adds it.
LEMMA RetractAdds ==
    ASSUME TypeOK, IInv, ~stripping, NEW g, Small(g), Later(g, changelog), NEW t \in allphases,
           NEW pc, pc = RetractBoundary(g, Cache, t, Nodes(g) \ Nodes(changelog))
    PROVE  IsCache(g, pc) /\ Adds(g, pc, t)
<1> DEFINE old == PhasesGiven(g, phaseroots)
           ph == PhasesGiven(g, pc.roots)
<1>1. /\ IsCache(g, Cache) /\ DownClosed(g, Nodes(changelog))
      /\ Nodes(changelog) \subseteq Nodes(g)
      /\ \A n \in Nodes(changelog) : old[n] = Old[n]
      /\ \A n \in Nodes(changelog) : Old[n] \in {0, 1, 2}
      /\ \A n \in Nodes(g) \ Nodes(changelog) : old[n] = public \/ \E p \in g[n] : old[n] = old[p]
  BY Continued
<1>2. Cache.roots = phaseroots
  BY DEF Cache
<1>3. /\ IsCache(g, pc)
      /\ \A n \in Nodes(changelog) : ph[n] = old[n]
      /\ \A n \in Nodes(g) \ Nodes(changelog) : ph[n] \in {old[n], t} /\ old[n] <= ph[n] /\ t <= ph[n]
  BY <1>1, <1>2, RetractAdded
<1>4. IsPhases(g, old) /\ IsPhases(g, ph) /\ Ordered(g, ph) /\ IsGraph(g)
  BY GivenIs DEF Small
<1>5. t \in {0, 1, 2} /\ public = 0
  BY PhaseNumbers
<1> HIDE DEF old, ph
<1>6. \A n \in Nodes(g) : old[n] \in {0, 1, 2} /\ ph[n] \in {0, 1, 2}
  BY <1>4, PhaseNumbers DEF IsPhases
<1>7. ASSUME NEW n \in Nodes(g) \ Nodes(changelog)
      PROVE  t <= ph[n] /\ (ph[n] = t \/ \E p \in g[n] : ph[n] = ph[p])
  <2> SUFFICES ASSUME ph[n] # t PROVE \E p \in g[n] : ph[n] = ph[p]
    BY <1>3
  <2>1. ph[n] = old[n] /\ t < ph[n]
    BY <1>3, <1>5, <1>6
  <2>2. PICK p \in g[n] : old[n] = old[p]
    BY <1>1, <1>5, <1>6, <2>1
  <2>3. p \in Nodes(g) /\ ph[p] <= ph[n]
    BY <1>4 DEF Ordered, IsGraph
  <2>4. old[p] <= ph[p]
    BY <1>3, <1>6, <2>3
  <2> QED BY <1>6, <2>1, <2>2, <2>3, <2>4
<1>8. \A n \in Nodes(changelog) : ph[n] \in {Old[n], t} /\ ph[n] <= Old[n]
  BY <1>1, <1>3
<1> QED BY <1>3, <1>7, <1>8 DEF Adds, ph

\* A commit adds its changeset in the phase asked for, or its parents'.
LEMMA CommitIs ==
    ASSUME TypeOK, IInv, NEW g \in Bounded(Grown(changelog)), NEW t \in allphases, Commit(g, t)
    PROVE  \E pc : IsCache(g, pc) /\ Transaction(g, pc) /\ Adds(g, pc, t)
<1> DEFINE n == NextNode(changelog)
           old == PhasesGiven(g, phaseroots)
<1>1. ~stripping /\ Transaction(g, IF t = public THEN Cache ELSE RetractBoundary(g, Cache, t, {n}))
  BY DEF Commit, Transaction
<1>2. Small(changelog) /\ IsFcn(changelog) /\ MaxNode \in Nat
  BY Quiet, BoundAssumption
<1>3. g \in Bounded({changelog} \cup Grown(changelog) \cup GrownTwice(changelog)) /\ g \in Grown(changelog)
  BY DEF Bounded
<1>4. Small(g) /\ Later(g, changelog)
  BY <1>2, <1>3, BoundedIs
<1>5. Nodes(g) = Nodes(changelog) \cup {n} /\ n \notin Nodes(changelog)
  BY <1>2, <1>3, GrownIs, NextIsNew DEF Small
<1>6. Nodes(g) \ Nodes(changelog) = {n}
  BY <1>5
<1>7. CASE t = public
  <2>1. /\ IsCache(g, Cache)
        /\ \A m \in Nodes(changelog) : old[m] = Old[m]
        /\ \A m \in Nodes(changelog) : Old[m] \in {0, 1, 2}
        /\ \A m \in Nodes(g) \ Nodes(changelog) : old[m] = public \/ \E p \in g[m] : old[m] = old[p]
    BY <1>1, <1>4, Continued
  <2>2. IsPhases(g, old)
    BY <1>4, GivenIs DEF Small
  <2>3. \A m \in Nodes(g) : old[m] \in {0, 1, 2}
    BY <2>2, PhaseNumbers DEF IsPhases
  <2>4. Cache.roots = phaseroots /\ t = 0
    BY <1>7, PhaseNumbers DEF Cache
  <2> HIDE DEF n, old
  <2>5. /\ \A m \in Nodes(changelog) : old[m] \in {Old[m], t} /\ old[m] <= Old[m]
        /\ \A m \in Nodes(g) \ Nodes(changelog) :
              t <= old[m] /\ (old[m] = t \/ \E p \in g[m] : old[m] = old[p])
    BY <1>7, <2>1, <2>3, <2>4
  <2>6. Adds(g, Cache, t)
    BY <2>4, <2>5 DEF Adds, old
  <2> QED BY <1>1, <1>7, <2>1, <2>6
<1>8. CASE t # public
  <2> DEFINE pc == RetractBoundary(g, Cache, t, {n})
  <2>1. pc = RetractBoundary(g, Cache, t, Nodes(g) \ Nodes(changelog))
    BY <1>6
  <2>2. Transaction(g, pc)
    BY <1>1, <1>8
  <2> HIDE DEF pc
  <2> QED BY <1>1, <1>4, <2>1, <2>2, RetractAdds
<1> QED BY <1>7, <1>8

\* So does unbundling.
LEMMA UnbundledIs ==
    ASSUME TypeOK, IInv, NEW t \in allphases,
           NEW g \in Bounded({changelog} \cup Grown(changelog) \cup GrownTwice(changelog)),
           Unbundled(g, t)
    PROVE  \E pc : IsCache(g, pc) /\ Transaction(g, pc) /\ Adds(g, pc, t)
<1> DEFINE pc == RetractBoundary(g, Cache, t, Nodes(g) \ Nodes(changelog))
<1>1. ~stripping /\ Transaction(g, pc)
  BY DEF Unbundled, Transaction
<1>2. Small(g) /\ Later(g, changelog)
  BY Quiet, BoundedIs
<1> HIDE DEF pc
<1>3. pc = RetractBoundary(g, Cache, t, Nodes(g) \ Nodes(changelog))
  BY DEF pc
<1> QED BY <1>1, <1>2, <1>3, RetractAdds

\* What is received becomes public, or draft; what is known only goes down.
LEMMA ReceivedIs ==
    ASSUME TypeOK, IInv, NEW g \in Bounded({changelog} \cup Grown(changelog) \cup GrownTwice(changelog)),
           NEW content \in SUBSET Nodes(g), Nodes(g) \ Nodes(changelog) \subseteq content,
           NEW publishing, Received(g, content, publishing)
    PROVE  \E pc, t : /\ t \in allphases /\ IsCache(g, pc)
                      /\ Transaction(g, pc) /\ Adds(g, pc, t)
<1> DEFINE old == PhasesGiven(g, phaseroots)
           added == Nodes(g) \ Nodes(changelog)
<1>1. ~stripping /\ Small(g) /\ Later(g, changelog) /\ IsGraph(g)
  <2>1. Small(g) /\ Later(g, changelog)
    BY Quiet, BoundedIs
  <2> QED BY <2>1 DEF Received, Transaction, Small
<1>2. /\ IsCache(g, Cache) /\ DownClosed(g, Nodes(changelog))
      /\ Nodes(changelog) \subseteq Nodes(g)
      /\ \A n \in Nodes(changelog) : old[n] = Old[n]
  BY <1>1, Continued
<1>3. Cache.roots = phaseroots /\ allphases = {0, 1, 2} /\ public = 0 /\ draft = 1
  BY PhaseNumbers DEF Cache
<1>4. IsPhases(g, old)
  BY <1>1, GivenIs
<1>5. \A n \in Nodes(g) : old[n] \in {0, 1, 2}
  BY <1>3, <1>4 DEF IsPhases
<1>6. \A n \in added : n \in Ancestors(g, content)
  BY <1>1, AncestorsClosed
<1>7. CASE publishing
  <2> DEFINE pc == AdvanceBoundary(g, Cache, public, content)
             ph == PhasesGiven(g, pc.roots)
  <2>1. Transaction(g, pc)
    BY <1>7 DEF Received
  <2>2. IsCache(g, pc) /\ ph = Advanced(g, old, public, content)
    BY <1>1, <1>2, <1>3, AdvanceIs
  <2> HIDE DEF pc
  <2>3. \A n \in Nodes(g) : /\ ph[n] <= old[n] /\ ph[n] \in {old[n], public}
                            /\ n \in Ancestors(g, content) => ph[n] <= public
    BY <1>1, <1>3, <1>4, <2>2, AdvancedIs
  <2> HIDE DEF ph, old
  <2>4. /\ \A n \in Nodes(changelog) : ph[n] \in {Old[n], public} /\ ph[n] <= Old[n]
        /\ \A n \in added : public <= ph[n] /\ ph[n] = public
    BY <1>2, <1>3, <1>5, <1>6, <2>3
  <2>5. Adds(g, pc, public)
    BY <2>4 DEF Adds, ph
  <2> QED BY <1>3, <2>1, <2>2, <2>5
<1>8. CASE ~publishing
  <2> DEFINE mid == AdvanceBoundary(g, Cache, draft, content)
             pc == RetractBoundary(g, mid, draft, added)
             between == PhasesGiven(g, mid.roots)
             ph == PhasesGiven(g, pc.roots)
  <2>1. Transaction(g, pc)
    BY <1>8 DEF Received
  <2>2. IsCache(g, mid) /\ between = Advanced(g, old, draft, content)
    BY <1>1, <1>2, <1>3, AdvanceIs
  <2> HIDE DEF mid
  <2>3. \A n \in Nodes(g) : /\ between[n] <= old[n] /\ between[n] \in {old[n], draft}
                            /\ n \in Ancestors(g, content) => between[n] <= draft
    BY <1>1, <1>3, <1>4, <2>2, AdvancedIs
  <2>4. pc = RetractBoundary(g, mid, draft, Nodes(g) \ Nodes(changelog)) /\ draft \in allphases
    BY <1>3
  <2> HIDE DEF pc
  <2>5. /\ IsCache(g, pc)
        /\ \A n \in Nodes(changelog) : ph[n] = between[n]
        /\ \A n \in Nodes(g) \ Nodes(changelog) : ph[n] \in {between[n], draft} /\ draft <= ph[n]
    BY <1>1, <1>2, <2>2, <2>4, RetractAdded
  <2> HIDE DEF ph, old, between
  <2>6. /\ \A n \in Nodes(changelog) : ph[n] \in {Old[n], draft} /\ ph[n] <= Old[n]
        /\ \A n \in added : draft <= ph[n] /\ ph[n] = draft
    BY <1>2, <1>3, <1>5, <1>6, <2>3, <2>5
  <2>7. Adds(g, pc, draft)
    BY <2>6 DEF Adds, ph
  <2> QED BY <1>3, <2>1, <2>5, <2>7
<1> QED BY <1>7, <1>8

\* hg phase moves changesets to the phase asked for.
LEMMA SetPhaseIs ==
    ASSUME TypeOK, IInv, NEW t \in allphases, NEW N \in SUBSET Nodes(changelog), NEW force,
           SetPhase(t, N, force)
    PROVE  \E pc : IsCache(changelog, pc) /\ Transaction(changelog, pc) /\ Moves(pc, t)
<1> DEFINE loaded == Loaded(changelog, Cache, Nodes(changelog))
           moved == AdvanceBoundary(changelog, loaded, t, N)
           pc == IF force THEN RetractBoundary(changelog, moved, t, N) ELSE moved
           between == PhasesGiven(changelog, moved.roots)
           ph == PhasesGiven(changelog, pc.roots)
<1>1. ~stripping /\ Transaction(changelog, pc)
  BY DEF SetPhase, Transaction
<1>2. Small(changelog) /\ IsGraph(changelog) /\ IsCache(changelog, Cache) /\ N \subseteq Nodes(changelog)
  BY <1>1, Quiet DEF Small
<1>3. IsCache(changelog, loaded) /\ loaded.roots = phaseroots
  <2>1. IsCache(changelog, loaded) /\ loaded.roots = Cache.roots
    BY <1>2, LoadedIs
  <2> QED BY <2>1 DEF Cache
<1> HIDE DEF loaded
<1>4. IsCache(changelog, moved) /\ between = Advanced(changelog, Old, t, N)
  BY <1>2, <1>3, AdvanceIs DEF Old
<1> HIDE DEF moved
<1>5. IsPhases(changelog, Old) /\ IsPhases(changelog, between)
  BY <1>2, GivenIs DEF Old
<1>6. \A n \in Nodes(changelog) : between[n] \in {Old[n], t}
  BY <1>2, <1>4, <1>5, AdvancedIs
<1>7. CASE ~force
  <2>1. pc = moved
    BY <1>7
  <2> QED BY <1>1, <1>4, <1>6, <2>1 DEF Moves
<1>8. CASE force
  <2>1. pc = RetractBoundary(changelog, moved, t, N)
    BY <1>8
  <2> HIDE DEF pc
  <2>2. IsCache(changelog, pc) /\ ph = Retracted(changelog, between, t, N)
    BY <1>2, <1>4, <2>1, RetractIs
  <2>3. \A n \in Nodes(changelog) : ph[n] \in {between[n], t}
    BY <1>2, <1>5, <2>2, RetractedIs
  <2>4. \A n \in Nodes(changelog) : ph[n] \in {Old[n], t}
    BY <1>6, <2>3
  <2> QED BY <1>1, <2>2, <2>4 DEF Moves
<1> QED BY <1>7, <1>8

\* An abort forgets what was computed; the roots are as they were before.
LEMMA AbortNext ==
    ASSUME TypeOK, IInv, Abort
    PROVE  TypeOK' /\ IInv' /\ AllChangesets' = AllChangesets
<1>1. ~stripping /\ phaserevs' = << >>
      /\ changelog' = changelog /\ phaseroots' = phaseroots /\ stripping' = stripping /\ bundle' = bundle
  BY DEF Abort
<1>2. AllChangesets' = AllChangesets
  BY <1>1 DEF AllChangesets
<1>3. Small(changelog) /\ IsCache(changelog, Cache)
  BY <1>1, Quiet
<1>4. phaserevs' \in Seq(allphases) /\ Len(phaserevs') = 0 /\ MaxNode \in Nat
  BY <1>1, BoundAssumption
<1>5. IsCache(changelog, Cache')
  <2>1. Cache' = [roots |-> phaseroots, revs |-> phaserevs'] /\ phaseroots = Cache.roots
    BY <1>1 DEF Cache
  <2>2. Cache' \in [roots : [trackedphases -> SUBSET Nodes(changelog)], revs : Seq(allphases)]
        /\ Len(Cache'.revs) = 0
    BY <1>3, <1>4, <2>1 DEF IsCache
  <2>3. /\ Cardinality(Nodes(changelog)) \in Nat
        /\ \A n \in Nodes(changelog) : Rev(changelog, n) \in 1..Cardinality(Nodes(changelog))
    BY <1>3, <1>4, RevIs DEF Small
  <2> QED BY <2>2, <2>3 DEF IsCache
<1>6. TypeOK'
  BY <1>1, <1>4 DEF TypeOK
<1>7. IInv'
  BY <1>1, <1>2, <1>5 DEF IInv
<1> QED BY <1>2, <1>6, <1>7

\* Reading may compute the cache, also while strip is at work.
LEMMA ReadNext ==
    ASSUME TypeOK, IInv, NEW n \in Nodes(changelog), Read(n)
    PROVE  TypeOK' /\ IInv' /\ AllChangesets' = AllChangesets
<1> DEFINE new == Loaded(changelog, Cache, {n})
<1>1. phaserevs' = new.revs
      /\ changelog' = changelog /\ phaseroots' = phaseroots /\ stripping' = stripping /\ bundle' = bundle
  BY DEF Read
<1>2. AllChangesets' = AllChangesets
  BY <1>1 DEF AllChangesets
<1>3. Small(changelog) /\ MaxNode \in Nat
  BY Quiet, BoundAssumption
<1>4. new.revs \in Seq(allphases) /\ Len(new.revs) <= MaxNode
  <2>1. /\ ComputePhaseRevs(changelog, Cache.roots) \in Seq(allphases)
        /\ Len(ComputePhaseRevs(changelog, Cache.roots)) = Cardinality(Nodes(changelog))
    BY <1>3, ComputedIs
  <2>2. Cardinality(Nodes(changelog)) \in 0..MaxNode
    BY <1>3, RevIs DEF Small
  <2>3. new.revs = phaserevs \/ new.revs = ComputePhaseRevs(changelog, Cache.roots)
    BY DEF Loaded, Cache
  <2> HIDE DEF new
  <2> QED BY <2>1, <2>2, <2>3 DEF TypeOK
<1>5. TypeOK'
  BY <1>1, <1>4 DEF TypeOK
<1>6. ASSUME ~stripping PROVE IsCache(changelog, Cache')
  <2>1. IsCache(changelog, Cache)
    BY <1>6, Quiet
  <2>2. IsCache(changelog, new) /\ new.roots = Cache.roots
    BY <1>3, <2>1, LoadedIs
  <2>3. new = [roots |-> new.roots, revs |-> new.revs]
    BY <2>2 DEF IsCache
  <2>4. Cache' = new
    BY <1>1, <2>2, <2>3 DEF Cache
  <2> QED BY <2>2, <2>4
<1>7. IInv'
  BY <1>1, <1>2, <1>6 DEF IInv
<1> QED BY <1>2, <1>5, <1>7

\* strip leaves what is not to be removed, in the changelog or in the bundle.
LEMMA StripTruncateNext ==
    ASSUME TypeOK, IInv, NEW N \in (SUBSET Nodes(changelog)) \ {{}}, StripTruncate(N)
    PROVE  /\ TypeOK' /\ IInv' /\ phaseroots' = phaseroots
           /\ Nodes(AllChangesets') \subseteq Nodes(AllChangesets)
           /\ \A n \in Nodes(AllChangesets') : AllChangesets'[n] = AllChangesets[n]
<1> DEFINE tostrip == Descendants(changelog, N)
           below == {n \in Nodes(changelog) : n < Min(N)}
           rest == Nodes(changelog) \ (tostrip \cup below)
           keep == Nodes(changelog) \ tostrip
<1>1. ~stripping /\ stripping' = TRUE /\ bundle' = Restricted(changelog, rest)
      /\ changelog' = Restricted(changelog, below) /\ phaseroots' = phaseroots /\ phaserevs' = phaserevs
  BY DEF StripTruncate
<1>2. Small(changelog) /\ IsGraph(changelog) /\ AllChangesets = changelog /\ MaxNode \in Nat
  BY <1>1, Quiet, BoundAssumption DEF Small
<1>3. Min(N) \in N /\ \A n \in N : Min(N) <= n
  <2>a. N \subseteq Nodes(changelog) /\ N # {}
    OBVIOUS
  <2>1. N \subseteq Nat
    BY <1>2, <2>a DEF IsGraph
  <2>2. \E m \in N : \A n \in N : m =< n
    BY <2>a, <2>1, Least
  <2> QED BY <2>2 DEF Min
<1>4. DownClosed(changelog, below)
  BY <1>2, <1>3 DEF DownClosed, IsGraph
<1>5. DownClosed(changelog, keep)
  BY <1>2, DescendantsClosed DEF DownClosed, UpClosed, IsGraph
<1>6. below \subseteq keep
  <2> DEFINE above == {n \in Nodes(changelog) : Min(N) <= n}
  <2>1. N \subseteq above
    BY <1>3
  <2>2. UpClosed(changelog, above)
    BY <1>2, <1>3 DEF UpClosed, IsGraph
  <2>3. N \cap Nodes(changelog) \subseteq above
    BY <2>1
  <2>4. tostrip \subseteq above
    <3> HIDE DEF above
    <3> QED BY <1>2, <2>2, <2>3, DescendantsLeast
  <2>5. Nodes(changelog) \subseteq Nat /\ Min(N) \in Nat
    BY <1>2, <1>3 DEF IsGraph
  <2>6. \A n \in below : n \notin above
    BY <2>5
  <2> QED BY <2>4, <2>6
<1>7. rest \subseteq Nodes(changelog) /\ below \subseteq Nodes(changelog) /\ keep \subseteq Nodes(changelog)
      /\ below \cup rest = keep /\ below \cap rest = {}
  BY <1>6
<1> HIDE DEF below, rest, keep
<1>8. Nodes(changelog') = below /\ IsGraph(changelog') /\ IsFcn(changelog')
      /\ \A n \in below : changelog'[n] = changelog[n]
  <2>1. IsFcn(Restricted(changelog, below))
    BY DEF Restricted, IsFcn, Nodes
  <2> QED BY <1>1, <1>2, <1>4, <1>7, <2>1, RestrictedGraph
<1>9. Nodes(bundle') = rest /\ \A n \in rest : bundle'[n] = changelog[n]
  BY <1>1 DEF Restricted, Nodes
<1>10. Nodes(AllChangesets') = keep /\ \A n \in keep : AllChangesets'[n] = changelog[n]
  <2>1. AllChangesets' = Joined(changelog', bundle')
    BY DEF AllChangesets
  <2>2. \A g, h :
           /\ Nodes(Joined(g, h)) = Nodes(g) \cup Nodes(h)
           /\ \A m \in Nodes(g) : Joined(g, h)[m] = g[m]
           /\ \A m \in Nodes(h) \ Nodes(g) : Joined(g, h)[m] = h[m]
    BY JoinedIs
  <2>3. Nodes(AllChangesets') = keep
    BY <1>7, <1>8, <1>9, <2>1, <2>2
  <2>4. ASSUME NEW n \in keep PROVE AllChangesets'[n] = changelog[n]
    <3>1. CASE n \in below
      <4>1. Joined(changelog', bundle')[n] = changelog'[n]
        BY <1>8, <2>2, <3>1
      <4> QED BY <1>8, <2>1, <3>1, <4>1
    <3>2. CASE n \in rest
      <4>1. n \notin below
        BY <1>7, <3>2
      <4>2. n \in Nodes(bundle') \ Nodes(changelog')
        BY <1>8, <1>9, <3>2, <4>1
      <4>3. Joined(changelog', bundle')[n] = bundle'[n]
        BY <4>2, JoinedIs
      <4> QED BY <1>9, <2>1, <3>2, <4>3
    <3> QED BY <1>7, <3>1, <3>2
  <2> QED BY <2>3, <2>4
<1>11. IsGraph(AllChangesets')
  BY <1>2, <1>5, <1>7, <1>10 DEF IsGraph, DownClosed
<1>12. TypeOK'
  <2>1. Nodes(changelog') \subseteq 1..MaxNode /\ Nodes(bundle') \cap Nodes(changelog') = {}
    BY <1>2, <1>7, <1>8, <1>9 DEF Small
  <2> QED BY <1>1, <2>1 DEF TypeOK
<1>13. IInv'
  <2>1. Nodes(bundle') \subseteq 1..MaxNode
    BY <1>2, <1>7, <1>9 DEF Small
  <2> QED BY <1>1, <1>8, <1>11, <2>1 DEF IInv
<1> QED BY <1>1, <1>2, <1>7, <1>10, <1>12, <1>13

\* When it is over, the roots are filtered.
LEMMA StripEnds ==
    ASSUME TypeOK, IInv, stripping' = FALSE, bundle' = NoChangesets, phaserevs' = << >>,
           phaseroots' = FilterUnknown(changelog', phaseroots),
           Small(changelog'), IsFcn(changelog')
    PROVE  TypeOK' /\ IInv' /\ AllChangesets' = changelog'
<1>1. MaxNode \in Nat /\ Nodes(changelog') \subseteq 1..MaxNode /\ IsGraph(changelog')
  BY BoundAssumption DEF Small
<1>2. AllChangesets' = changelog'
  <2>1. AllChangesets' = Joined(changelog', NoChangesets)
    BY DEF AllChangesets
  <2> QED BY <2>1, JoinedNone
<1>3. phaseroots' \in [trackedphases -> SUBSET Nodes(changelog')]
  BY DEF FilterUnknown
<1>4. phaserevs' \in Seq(allphases) /\ Len(phaserevs') = 0 /\ Nodes(bundle') = {}
  BY NoneIs
<1>5. TypeOK'
  <2>1. phaseroots' \in [trackedphases -> SUBSET (1..MaxNode)]
    BY <1>1, <1>3
  <2>2. Nodes(bundle') \cap Nodes(changelog') = {} /\ stripping' \in BOOLEAN
    BY <1>4
  <2>3. Len(phaserevs') <= MaxNode
    BY <1>1, <1>4
  <2> QED BY <1>1, <1>4, <2>1, <2>2, <2>3 DEF TypeOK, Roots
<1>6. IsCache(changelog', Cache')
  <2>1. Cache' = [roots |-> phaseroots', revs |-> phaserevs']
    BY DEF Cache
  <2>2. Cache' \in [roots : [trackedphases -> SUBSET Nodes(changelog')], revs : Seq(allphases)]
        /\ Len(Cache'.revs) = 0
    BY <1>3, <1>4, <2>1
  <2>3. Cardinality(Nodes(changelog')) \in Nat
        /\ \A n \in Nodes(changelog') : Rev(changelog', n) \in 1..Cardinality(Nodes(changelog'))
    BY <1>1, RevIs
  <2> QED BY <2>2, <2>3 DEF IsCache
<1>7. IInv'
  BY <1>1, <1>2, <1>4, <1>6 DEF IInv
<1> QED BY <1>2, <1>5, <1>7

\* Dropping unknown roots when all is back leaves the phases as they are, ...
LEMMA StripRestoreNext ==
    ASSUME TypeOK, IInv, StripRestore
    PROVE  /\ TypeOK' /\ IInv' /\ AllChangesets' = AllChangesets
           /\ PhasesGiven(AllChangesets, phaseroots') = PhasesGiven(AllChangesets, phaseroots)
<1>1. changelog' = AllChangesets /\ stripping' = FALSE /\ bundle' = NoChangesets
      /\ phaserevs' = << >> /\ phaseroots' = FilterUnknown(changelog', phaseroots)
  BY DEF StripRestore, AllChangesets
<1>2. Small(AllChangesets) /\ IsFcn(AllChangesets) /\ IsGraph(AllChangesets)
  BY Quiet, JoinedIs DEF AllChangesets, Small
<1>3. TypeOK' /\ IInv' /\ AllChangesets' = changelog'
  BY <1>1, <1>2, StripEnds
<1>4. \A p \in trackedphases : phaseroots'[p] = phaseroots[p] \cap Nodes(AllChangesets)
  BY <1>1 DEF FilterUnknown
<1>5. PhasesGiven(AllChangesets, phaseroots') = PhasesGiven(AllChangesets, phaseroots)
  BY <1>2, <1>4, GivenFiltered
<1> QED BY <1>1, <1>3, <1>5

\* ... and so does dropping them when it will never come back.
LEMMA StripFailsNext ==
    ASSUME TypeOK, IInv, StripFails
    PROVE  /\ TypeOK' /\ IInv' /\ AllChangesets' = changelog
           /\ PhasesGiven(changelog, phaseroots') = PhasesGiven(changelog, phaseroots)
<1>1. changelog' = changelog /\ stripping' = FALSE /\ bundle' = NoChangesets
      /\ phaserevs' = << >> /\ phaseroots' = FilterUnknown(changelog', phaseroots)
  BY DEF StripFails
<1>2. Small(changelog) /\ IsFcn(changelog) /\ IsGraph(changelog)
  BY Quiet DEF Small
<1>3. TypeOK' /\ IInv' /\ AllChangesets' = changelog'
  BY <1>1, <1>2, StripEnds
<1>4. \A p \in trackedphases : phaseroots'[p] = phaseroots[p] \cap Nodes(changelog)
  BY <1>1 DEF FilterUnknown
<1>5. PhasesGiven(changelog, phaseroots') = PhasesGiven(changelog, phaseroots)
  BY <1>2, <1>4, GivenFiltered
<1> QED BY <1>1, <1>3, <1>5

\* What adds changesets, what moves them, and what only reads or aborts
LEMMA CommandIs ==
    ASSUME TypeOK, IInv, Next
    PROVE  \/ \E g, pc, t : /\ t \in allphases /\ Small(g) /\ IsFcn(g) /\ Later(g, changelog)
                            /\ IsCache(g, pc) /\ Transaction(g, pc) /\ Adds(g, pc, t)
           \/ \E pc, t : /\ t \in allphases
                         /\ IsCache(changelog, pc) /\ Transaction(changelog, pc) /\ Moves(pc, t)
           \/ Abort \/ \E n \in Nodes(changelog) : Read(n)
           \/ \E N \in (SUBSET Nodes(changelog)) \ {{}} : StripTruncate(N)
           \/ StripRestore \/ StripFails
<1>1. Small(changelog) /\ IsFcn(changelog)
  BY Quiet
<1>2. ASSUME NEW g \in Bounded(Grown(changelog)), NEW t \in allphases, Commit(g, t)
      PROVE  /\ Small(g) /\ IsFcn(g) /\ Later(g, changelog)
             /\ \E pc : IsCache(g, pc) /\ Transaction(g, pc) /\ Adds(g, pc, t)
  <2>1. g \in Bounded({changelog} \cup Grown(changelog) \cup GrownTwice(changelog))
    BY DEF Bounded
  <2> QED BY <1>1, <1>2, <2>1, BoundedIs, CommitIs
<1>3. ASSUME NEW g \in Bounded({changelog} \cup Grown(changelog) \cup GrownTwice(changelog)),
             NEW content \in SUBSET Nodes(g), NEW publishing \in BOOLEAN,
             Nodes(g) \ Nodes(changelog) \subseteq content, Received(g, content, publishing)
      PROVE  /\ Small(g) /\ IsFcn(g) /\ Later(g, changelog)
             /\ \E pc, t : /\ t \in allphases /\ IsCache(g, pc)
                           /\ Transaction(g, pc) /\ Adds(g, pc, t)
  BY <1>1, <1>3, BoundedIs, ReceivedIs
<1>4. ASSUME NEW g \in Bounded({changelog} \cup Grown(changelog) \cup GrownTwice(changelog)),
             NEW t \in allphases, Unbundled(g, t)
      PROVE  /\ Small(g) /\ IsFcn(g) /\ Later(g, changelog)
             /\ \E pc : IsCache(g, pc) /\ Transaction(g, pc) /\ Adds(g, pc, t)
  BY <1>1, <1>4, BoundedIs, UnbundledIs
<1>5. ASSUME NEW t \in allphases, NEW N \in (SUBSET Nodes(changelog)) \ {{}}, NEW force \in BOOLEAN,
             SetPhase(t, N, force)
      PROVE  \E pc : IsCache(changelog, pc) /\ Transaction(changelog, pc) /\ Moves(pc, t)
  <2>1. N \in SUBSET Nodes(changelog)
    OBVIOUS
  <2> QED BY <1>5, <2>1, SetPhaseIs
<1> QED BY <1>2, <1>3, <1>4, <1>5 DEF Next

\* Each step keeps the invariant.
LEMMA InvNext == ASSUME TypeOK, IInv, [Next]_vars PROVE TypeOK' /\ IInv'
<1>1. CASE Next
  <2>1. ASSUME NEW g, Small(g), IsFcn(g), NEW pc, IsCache(g, pc), Transaction(g, pc) PROVE TypeOK' /\ IInv'
    BY <2>1, TransactionNext
  <2>2. Small(changelog) /\ IsFcn(changelog)
    BY Quiet
  <2>3. Abort => TypeOK' /\ IInv'
    BY AbortNext
  <2>4. (\E n \in Nodes(changelog) : Read(n)) => TypeOK' /\ IInv'
    BY ReadNext
  <2>5. (\E N \in (SUBSET Nodes(changelog)) \ {{}} : StripTruncate(N)) => TypeOK' /\ IInv'
    BY StripTruncateNext
  <2>6. StripRestore \/ StripFails => TypeOK' /\ IInv'
    BY StripRestoreNext, StripFailsNext
  <2> HIDE DEF TypeOK, IInv
  <2> QED BY <1>1, <2>1, <2>2, <2>3, <2>4, <2>5, <2>6, CommandIs
<1>2. CASE UNCHANGED vars
  BY <1>2 DEF vars, TypeOK, IInv, AllChangesets, Cache, IsCache
<1> QED BY <1>1, <1>2

\* Whatever is committed, received, moved, aborted and stripped, in any order,
\* the roots are in the changelog and the cache holds the phases they give
\* whenever no strip is at work (phasecache, repair.strip, destroyed).
THEOREM Invariance == Spec => [](TypeOK /\ IInv)
BY InvInit, InvNext, PTL DEF Spec

\* Changesets stay within the bound, roots and cached phases have their types,
\* and the changelog and the bundle of strip share nothing (repair.strip).
THEOREM TypeCorrect == Spec => []TypeOK
BY Invariance, PTL

\* A right cache is fresh, revision by revision.
LEMMA CacheIsFresh == ASSUME TypeOK, IInv PROVE CacheFresh
<1> SUFFICES ASSUME ~stripping, NEW r \in 1..Len(phaserevs)
             PROVE  /\ r <= Cardinality(Nodes(changelog))
                    /\ phaserevs[r] = ComputePhaseRevs(changelog, phaseroots)[r]
  BY DEF CacheFresh
<1>1. Small(changelog) /\ IsCache(changelog, Cache) /\ MaxNode \in Nat /\ Nodes(changelog) \subseteq 1..MaxNode
  BY Quiet, BoundAssumption DEF Small
<1>2. Cardinality(Nodes(changelog)) \in Nat /\ Len(phaserevs) \in Nat
  BY <1>1, RevIs DEF TypeOK
<1>3. r <= Cardinality(Nodes(changelog))
  BY <1>1, <1>2 DEF IsCache, Cache
<1>4. PICK n \in Nodes(changelog) : Rev(changelog, n) = r
  <2>1. r \in 1..Cardinality(Nodes(changelog))
    BY <1>2, <1>3
  <2> QED BY <1>1, <2>1, NodeAtIs
<1>5. phaserevs[r] = PhasesGiven(changelog, phaseroots)[n]
  BY <1>1, <1>2, <1>4 DEF IsCache, Cache
<1>6. ComputePhaseRevs(changelog, phaseroots)[Rev(changelog, n)] = PhasesGiven(changelog, phaseroots)[n]
  BY <1>1, ComputedIs
<1> QED BY <1>3, <1>4, <1>5, <1>6

\* The cached phases are those that the roots give, although a commit, a pull
\* and a push leave the cache of what was there before (phasecache.phase,
\* invalidate, _updateroots).
THEOREM CacheFreshHolds == Spec => []CacheFresh
BY Invariance, CacheIsFresh, PTL

\* A right cache suffices for boundaries to be moved exactly.
LEMMA Exact == ASSUME TypeOK, IInv PROVE BoundariesExact
<1> SUFFICES ASSUME ~stripping, NEW t \in allphases, NEW N \in SUBSET Nodes(changelog)
             PROVE  LET g == changelog
                        before == PhasesGiven(g, phaseroots)
                        advanced == AdvanceBoundary(g, Cache, t, N)
                        retracted == RetractBoundary(g, Cache, t, N)
                    IN  /\ PhasesGiven(g, advanced.roots) = Advanced(g, before, t, N)
                        /\ t # public =>
                            PhasesGiven(g, retracted.roots) = Retracted(g, before, t, N)
  BY DEF BoundariesExact
<1>1. Small(changelog) /\ IsCache(changelog, Cache) /\ Cache.roots = phaseroots
  BY Quiet DEF Cache
<1>2. PhasesGiven(changelog, AdvanceBoundary(changelog, Cache, t, N).roots)
        = Advanced(changelog, PhasesGiven(changelog, phaseroots), t, N)
  BY <1>1, AdvanceIs
<1>3. PhasesGiven(changelog, RetractBoundary(changelog, Cache, t, N).roots)
        = Retracted(changelog, PhasesGiven(changelog, phaseroots), t, N)
  BY <1>1, RetractIs
<1> QED BY <1>2, <1>3

\* Advancing and retracting a boundary move what is asked for with its
\* ancestors, or descendants, and nothing else, whatever was done before
\* (phasecache.advanceboundary, retractboundary).
THEOREM BoundariesExactHolds == Spec => []BoundariesExact
BY Invariance, Exact, PTL

-----------------------------------------------------------------------------
(* What phases promise                                                     *)

\* The promise is stated with the same operators.
LEMMA PromiseOps ==
    /\ Promise!allphases = allphases /\ Promise!NoChangesets = NoChangesets
    /\ \A g : Promise!Nodes(g) = Nodes(g)
    /\ \A g, S : Promise!Ancestors(g, S) = Ancestors(g, S)
    /\ \A g, S : Promise!Descendants(g, S) = Descendants(g, S)
    /\ \A h, g : Promise!Extends(h, g) <=> Extends(h, g)
    /\ \A S : Promise!Max(S) = Max(S)
<1>1. Promise!allphases = allphases /\ Promise!NoChangesets = NoChangesets
  BY DEF Promise!allphases, Promise!NoChangesets, Promise!trackedphases, Promise!public,
         Promise!draft, Promise!secret,
         allphases, NoChangesets, trackedphases, public, draft, secret
<1>2. \A g : Promise!Nodes(g) = Nodes(g)
  BY DEF Promise!Nodes, Nodes
<1>3. \A g, S : Promise!Ancestors(g, S) = Ancestors(g, S)
  BY DEF Promise!Ancestors, Promise!Nodes, Ancestors, Nodes
<1>4. \A g, S : Promise!Descendants(g, S) = Descendants(g, S)
  BY DEF Promise!Descendants, Promise!Nodes, Descendants, Nodes
<1>5. \A h, g : Promise!Extends(h, g) <=> Extends(h, g)
  BY DEF Promise!Extends, Promise!Restricted, Promise!Nodes, Extends, Restricted, Nodes
<1>6. \A S : Promise!Max(S) = Max(S)
  BY DEF Promise!Max, Max
<1> QED BY <1>1, <1>2, <1>3, <1>4, <1>5, <1>6

\* Some changesets getting phase t, their ancestors and descendants are on
\* the right side of it when the phases are in order.
LEMMA MoveIs ==
    ASSUME NEW g, IsGraph(g), NEW before, NEW after, NEW t \in Int, Ordered(g, after),
           \A n \in Nodes(g) : /\ before[n] \in Int /\ after[n] \in Int
                               /\ after[n] \in {before[n], t}
    PROVE  /\ \A a \in Ancestors(g, {n \in Nodes(g) : after[n] < before[n]}) : after[a] <= t
           /\ \A d \in Descendants(g, {n \in Nodes(g) : after[n] > before[n]}) : after[d] >= t
<1> DEFINE lowered == {n \in Nodes(g) : after[n] < before[n]}
           raised == {n \in Nodes(g) : after[n] > before[n]}
           low == {n \in Nodes(g) : after[n] <= t}
           high == {n \in Nodes(g) : after[n] >= t}
<1>1. lowered \subseteq low /\ raised \subseteq high
  OBVIOUS
<1>2. DownClosed(g, low)
  BY DEF DownClosed, Ordered, IsGraph
<1>3. UpClosed(g, high)
  BY DEF UpClosed, Ordered, IsGraph
<1>4. lowered \subseteq Nodes(g) /\ raised \cap Nodes(g) \subseteq high
  BY <1>1
<1>5. Ancestors(g, lowered) \subseteq low
  <2> HIDE DEF low, lowered
  <2> QED BY <1>1, <1>2, <1>4, AncestorsLeast
<1>6. Descendants(g, raised) \subseteq high
  <2> HIDE DEF high, raised
  <2> QED BY <1>3, <1>4, DescendantsLeast
<1> QED BY <1>5, <1>6

LEMMA PromiseMove ==
    ASSUME NEW before, NEW after, NEW t \in allphases,
           IsGraph(AllChangesets), Ordered(AllChangesets, after),
           \A n \in Nodes(AllChangesets) : /\ before[n] \in Int /\ after[n] \in Int
                                           /\ after[n] \in {before[n], t}
    PROVE  Promise!Move(before, after, t)
<1>1. t \in Int
  BY PhaseNumbers
<1>2. /\ \A a \in Ancestors(AllChangesets, {n \in Nodes(AllChangesets) : after[n] < before[n]}) : after[a] <= t
      /\ \A d \in Descendants(AllChangesets, {n \in Nodes(AllChangesets) : after[n] > before[n]}) : after[d] >= t
  BY <1>1, MoveIs
<1> QED BY <1>2, PromiseOps DEF Promise!Move

\* The highest of t and of the phases of the parents
LEMMA HighestIs ==
    ASSUME NEW g, IsGraph(g), NEW ph, IsPhases(g, ph), Ordered(g, ph), NEW t \in allphases,
           NEW n \in Nodes(g), t <= ph[n], ph[n] = t \/ \E p \in g[n] : ph[n] = ph[p]
    PROVE  ph[n] = Max({t} \cup {ph[p] : p \in g[n]})
<1> DEFINE S == {t} \cup {ph[p] : p \in g[n]}
<1>1. g[n] \subseteq Nodes(g) /\ \A p \in g[n] : ph[p] <= ph[n]
  BY DEF IsGraph, Ordered
<1>2. t \in {0, 1, 2} /\ \A m \in Nodes(g) : ph[m] \in {0, 1, 2}
  BY PhaseNumbers DEF IsPhases
<1>3. S \subseteq 0..2 /\ S # {} /\ ph[n] \in S /\ \A x \in S : x <= ph[n]
  BY <1>1, <1>2
<1> HIDE DEF S
<1>4. Max(S) \in S /\ \A x \in S : x <= Max(S)
  BY <1>3, MaxIs
<1>5. Max(S) = ph[n]
  BY <1>2, <1>3, <1>4
<1> QED BY <1>5 DEF S

\* What the promise is about
Phase == PhasesGiven(AllChangesets, phaseroots)
promised == <<AllChangesets, Phase>>

\* Phases are numbers.
LEMMA PhaseTypes ==
    ASSUME NEW g, IsGraph(g), NEW roots, NEW n \in Nodes(g)
    PROVE  PhasesGiven(g, roots)[n] \in {0, 1, 2}
<1>1. IsPhases(g, PhasesGiven(g, roots))
  BY GivenIs
<1> QED BY <1>1, PhaseNumbers DEF IsPhases

\* Each kind of step of the promise
LEMMA PromiseSteps ==
    /\ AllChangesets' = AllChangesets /\ (\E t \in allphases : Promise!Move(Phase, Phase', t)) => Promise!Next
    /\ /\ Extends(AllChangesets', AllChangesets)
       /\ \E t \in allphases : Promise!Add(Phase, Phase', t)
       => Promise!Next
    /\ Extends(AllChangesets, AllChangesets') /\ Promise!Strip(Phase, Phase') => Promise!Next
BY PromiseOps DEF Promise!Next, Phase

\* A command that moves boundaries is a move of the promise, ...
LEMMA MoveStep ==
    ASSUME TypeOK, IInv, NEW pc, NEW t \in allphases,
           IsCache(changelog, pc), Transaction(changelog, pc), Moves(pc, t)
    PROVE  Promise!Next
<1>1. ~stripping /\ changelog' = changelog /\ bundle' = bundle /\ phaseroots' = pc.roots
  BY DEF Transaction
<1>2. AllChangesets = changelog /\ AllChangesets' = changelog /\ IsGraph(changelog)
  BY <1>1, Quiet DEF AllChangesets, Small
<1>3. Phase = Old /\ Phase' = PhasesGiven(changelog, pc.roots)
  BY <1>1, <1>2 DEF Phase, Old
<1>4. Ordered(changelog, Phase')
  BY <1>2, <1>3, GivenIs
<1>5. \A n \in Nodes(changelog) : /\ Phase[n] \in Int /\ Phase'[n] \in Int
                                  /\ Phase'[n] \in {Phase[n], t}
  BY <1>2, <1>3, PhaseTypes DEF Moves, Old
<1>6. Promise!Move(Phase, Phase', t)
  BY <1>2, <1>4, <1>5, PromiseMove
<1> QED BY <1>2, <1>6, PromiseSteps

\* ... and one that adds changesets adds them.
LEMMA AddStep ==
    ASSUME TypeOK, IInv, NEW g, Small(g), IsFcn(g), Later(g, changelog), NEW pc, NEW t \in allphases,
           IsCache(g, pc), Transaction(g, pc), Adds(g, pc, t)
    PROVE  Promise!Next
<1>1. ~stripping /\ ~stripping' /\ changelog' = g /\ bundle' = bundle /\ phaseroots' = pc.roots
  BY DEF Transaction
<1>2. AllChangesets = changelog /\ AllChangesets' = g /\ IsGraph(changelog) /\ IsGraph(g)
      /\ IsFcn(changelog)
  BY <1>1, Quiet, JoinedNone DEF AllChangesets, Small
<1>3. Phase = Old /\ Phase' = PhasesGiven(g, pc.roots)
  BY <1>1, <1>2 DEF Phase, Old
<1>4. Ordered(g, Phase') /\ IsPhases(g, Phase')
  BY <1>2, <1>3, GivenIs
<1>5. Nodes(changelog) \subseteq Nodes(g) /\ \A n \in Nodes(changelog) : g[n] = changelog[n]
  BY DEF Later
<1>6. Ordered(changelog, Phase')
  BY <1>4, <1>5 DEF Ordered
<1>7. \A n \in Nodes(changelog) : /\ Phase[n] \in Int /\ Phase'[n] \in Int
                                  /\ Phase'[n] \in {Phase[n], t} /\ Phase'[n] <= Phase[n]
  BY <1>2, <1>3, <1>5, PhaseTypes DEF Adds, Old
<1>8. Promise!Move(Phase, Phase', t)
  BY <1>2, <1>6, <1>7, PromiseMove
<1>9. ASSUME NEW n \in Nodes(g) \ Nodes(changelog)
      PROVE  Phase'[n] = Max({t} \cup {Phase'[p] : p \in g[n]})
  <2> DEFINE ph == PhasesGiven(g, pc.roots)
  <2>1. t <= ph[n] /\ (ph[n] = t \/ \E p \in g[n] : ph[n] = ph[p])
    BY DEF Adds
  <2>2. Ordered(g, ph) /\ IsPhases(g, ph) /\ Phase' = ph
    BY <1>3, <1>4
  <2> HIDE DEF ph
  <2>3. ph[n] = Max({t} \cup {ph[p] : p \in g[n]})
    BY <1>2, <2>1, <2>2, HighestIs
  <2> QED BY <2>2, <2>3
<1>10. Promise!Add(Phase, Phase', t)
  BY <1>2, <1>7, <1>8, <1>9, PromiseOps DEF Promise!Add
<1>11. Extends(g, changelog)
  BY <1>2, <1>5 DEF Extends, Restricted, IsFcn
<1> QED BY <1>2, <1>10, <1>11, PromiseSteps

\* Stripping leaves the phases of what it leaves.
LEMMA StripStep ==
    ASSUME TypeOK, IInv, IInv', Nodes(AllChangesets') \subseteq Nodes(AllChangesets),
           \A n \in Nodes(AllChangesets') : AllChangesets'[n] = AllChangesets[n],
           PhasesGiven(AllChangesets', phaseroots') = PhasesGiven(AllChangesets', phaseroots)
    PROVE  Promise!Next
<1>1. IsGraph(AllChangesets) /\ IsGraph(AllChangesets') /\ IsFcn(AllChangesets')
  BY JoinedIs DEF IInv, AllChangesets
<1>2. \A n \in Nodes(AllChangesets') :
         PhasesGiven(AllChangesets, phaseroots)[n] = PhasesGiven(AllChangesets', phaseroots)[n]
  BY <1>1, GivenKept
<1>3. Phase' = PhasesGiven(AllChangesets', phaseroots')
  BY DEF Phase
<1>4. Promise!Strip(Phase, Phase')
  BY <1>2, <1>3, PromiseOps DEF Promise!Strip, Phase
<1>5. Extends(AllChangesets, AllChangesets')
  BY <1>1 DEF Extends, Restricted, IsFcn
<1> QED BY <1>4, <1>5, PromiseSteps

LEMMA PromiseInit == Init => Promise!Init
<1> SUFFICES ASSUME Init PROVE Promise!Init
  OBVIOUS
<1>1. AllChangesets = NoChangesets
  BY NoneIs, JoinedNone DEF Init, AllChangesets
<1>2. Nodes(AllChangesets) = {}
  BY <1>1, NoneIs
<1>3. IsFcn(Phase) /\ Nodes(Phase) = Nodes(AllChangesets)
  BY DEF Phase, PhasesGiven, IsFcn, Nodes
<1>4. Phase = NoChangesets
  BY <1>2, <1>3, NoneIs, SameFcn
<1> QED BY <1>1, <1>4, PromiseOps DEF Promise!Init, Phase

\* Every step is one of the promise, or none.
LEMMA PromiseStep == ASSUME TypeOK, IInv, Next PROVE [Promise!Next]_promised
<1>1. TypeOK' /\ IInv'
  BY InvNext
<1>2. (\E n \in Nodes(changelog) : Read(n)) \/ Abort => UNCHANGED promised
  <2> SUFFICES ASSUME (\E n \in Nodes(changelog) : Read(n)) \/ Abort PROVE UNCHANGED promised
    OBVIOUS
  <2>1. AllChangesets' = AllChangesets /\ phaseroots' = phaseroots
    BY DEF Read, Abort, AllChangesets
  <2> QED BY <2>1 DEF promised, Phase
<1>3. (\E N \in (SUBSET Nodes(changelog)) \ {{}} : StripTruncate(N)) => Promise!Next
  BY <1>1, StripTruncateNext, StripStep
<1>4. StripRestore => UNCHANGED promised
  BY StripRestoreNext DEF promised, Phase
<1>5. StripFails => Promise!Next
  <2> SUFFICES ASSUME StripFails PROVE Promise!Next
    OBVIOUS
  <2>1. AllChangesets' = changelog
        /\ PhasesGiven(changelog, phaseroots') = PhasesGiven(changelog, phaseroots)
    BY StripFailsNext
  <2>2. Nodes(changelog) \subseteq Nodes(AllChangesets)
        /\ \A n \in Nodes(changelog) : AllChangesets[n] = changelog[n]
    BY Quiet
  <2> QED BY <1>1, <2>1, <2>2, StripStep
<1> QED BY <1>2, <1>3, <1>4, <1>5, CommandIs, AddStep, MoveStep

\* Every operation on phases does what phases promise, strip and its failure
\* included: changesets keep their phase but for those that are moved, their
\* ancestors or descendants, and added ones get the phase asked for, or a
\* parent's that is higher (phases.py, changegroup.py, repair.py).
THEOREM PhasesPromised == Spec => PromiseKept
<1>1. TypeOK /\ IInv /\ [Next]_vars => [Promise!Next]_promised
  <2>1. UNCHANGED vars => UNCHANGED promised
    BY DEF vars, promised, Phase, AllChangesets
  <2> QED BY <2>1, PromiseStep
<1>2. [Promise!Next]_promised => [Promise!Next]_<<AllChangesets, PhasesGiven(AllChangesets, phaseroots)>>
  BY DEF promised, Phase
<1> QED BY <1>1, <1>2, Invariance, PromiseInit, PTL DEF Spec, PromiseKept, Promise!Spec
=============================================================================
