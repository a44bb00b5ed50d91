------------------------------- MODULE Phases -------------------------------
(***************************************************************************)
(* Phases as mercurial/phases.py keeps them: the roots of the draft and of *)
(* the secret changesets (phaseroots), from which the phase of a changeset *)
(* is computed, and the computed phases of all revisions, cached in        *)
(* _phaserevs until the roots change.  Commands of the repository move     *)
(* boundaries under its lock, in transactions that may abort; strip        *)
(* truncates the changelog, adds back what was above and not to be         *)
(* removed, and only then drops the roots that no longer exist.            *)
(***************************************************************************)
EXTENDS ChangesetGraph, Sequences

CONSTANT MaxNode   \* bound: the highest changeset
ASSUME BoundAssumption == MaxNode \in Nat

VARIABLES changelog,  \* the graph
          phaseroots, \* phasecache.phaseroots, as in the file of this name
          phaserevs,  \* phasecache._phaserevs, by revision; << >> for None
          stripping,  \* strip has truncated the changelog
          bundle      \* the changesets that strip will add back

vars == <<changelog, phaseroots, phaserevs, stripping, bundle>>

Roots == [trackedphases -> SUBSET (1..MaxNode)]

TypeOK ==
    /\ Nodes(changelog) \subseteq 1..MaxNode
    /\ phaseroots \in Roots
    /\ phaserevs \in Seq(allphases) /\ Len(phaserevs) <= MaxNode
    /\ stripping \in BOOLEAN /\ Nodes(bundle) \cap Nodes(changelog) = {}

Init ==
    /\ changelog = NoChangesets /\ phaseroots = [p \in trackedphases |-> {}]
    /\ phaserevs = << >>
    /\ stripping = FALSE /\ bundle = NoChangesets

\* The phases that the roots give: secret overrides draft.
PhasesGiven(g, roots) ==
    LET secrets == Descendants(g, roots[secret])
        drafts == Descendants(g, roots[draft])
    IN  [n \in Nodes(g) |-> IF n \in secrets THEN secret ELSE IF n \in drafts THEN draft ELSE public]

ComputePhaseRevs(g, roots) ==
    LET phases == PhasesGiven(g, roots)
    IN  [r \in 1..Cardinality(Nodes(g)) |-> phases[NodeAt(g, r)]]

-----------------------------------------------------------------------------
(* phasecache, as a record [roots, revs].                                  *)

\* phase: the cache is computed when there is none or when it is too short.
Loaded(g, pc, N) ==
    IF N # {} /\ Rev(g, Max(N)) > Len(pc.revs)
    THEN [pc EXCEPT !.revs = ComputePhaseRevs(g, pc.roots)]
    ELSE pc
PhaseOf(g, pc, n) == Loaded(g, pc, {n}).revs[Rev(g, n)]

UpdateRoots(pc, p, roots) == [roots |-> [pc.roots EXCEPT ![p] = roots], revs |-> << >>]

\* Only the roots at or above the lowest new one are computed again.
RetractBoundary(g, pc, t, N) ==
    LET newroots == {n \in N : PhaseOf(g, pc, n) < t}
        roots == pc.roots[t] \cup newroots
        aboveroots == {n \in roots : n >= Min(newroots)}
    IN  IF newroots = {}
        THEN Loaded(g, pc, N)
        ELSE UpdateRoots(pc, t, (roots \ aboveroots)
                                \cup RootsOf(g, Descendants(g, aboveroots)))

\* Mutant: the roots deleted are not declared in the target phase.
AdvanceOne_undeclared(g, s, t, p) ==
    LET nodes == {n \in s.nodes : PhaseOf(g, s.pc, n) >= p}
        olds == s.pc.roots[p]
    IN  [s EXCEPT !.nodes = nodes,
            !.pc = IF nodes = {} THEN Loaded(g, s.pc, s.nodes)
                   ELSE UpdateRoots(s.pc, p,
                            RootsOf(g, Descendants(g, olds) \ Between(g, olds, nodes)))]

\* One phase p above the target: s holds the cache, the nodes that are still
\* too high and the roots deleted so far.
AdvanceOne(g, s, t, p) ==
    LET nodes == {n \in s.nodes : PhaseOf(g, s.pc, n) >= p}
        olds == s.pc.roots[p]
        roots == RootsOf(g, Descendants(g, olds) \ Between(g, olds, nodes))
        moved == IF olds = roots THEN Loaded(g, s.pc, s.nodes)
                                 ELSE UpdateRoots(s.pc, p, roots)
        delroots == s.delroots \cup (olds \ roots)
    IN  IF nodes = {}
        THEN [s EXCEPT !.nodes = {}, !.pc = Loaded(g, s.pc, s.nodes)]
        ELSE [nodes |-> nodes, delroots |-> delroots,
              pc |-> IF t = public THEN moved ELSE RetractBoundary(g, moved, t, delroots)]

AdvanceBoundary(g, pc, t, N) ==
    LET start == [nodes |-> N, delroots |-> {}, pc |-> pc]
        below == IF t < draft THEN AdvanceOne(g, start, t, draft) ELSE start
    IN  IF t < secret THEN AdvanceOne(g, below, t, secret).pc ELSE pc

FilterUnknown(g, roots) == [p \in trackedphases |-> roots[p] \cap Nodes(g)]

-----------------------------------------------------------------------------
(* Commands, each in a transaction.                                        *)

Cache == [roots |-> phaseroots, revs |-> phaserevs]

Transaction(g, pc) ==
    /\ ~stripping
    /\ changelog' = g /\ phaseroots' = pc.roots /\ phaserevs' = pc.revs
    /\ UNCHANGED <<stripping, bundle>>

\* A transaction aborts, whatever was done in it, and with it goes all that
\* the repository object has read.
Abort ==
    /\ ~stripping
    /\ phaserevs' = << >>
    /\ UNCHANGED <<changelog, phaseroots, stripping, bundle>>

\* A changeset is committed, in the phase of phases.new-commit at least.
Commit(g, t) ==
    LET n == NextNode(changelog)
    IN  Transaction(g, IF t = public THEN Cache ELSE RetractBoundary(g, Cache, t, {n}))

\* cg1unpacker.apply: pushed to this repository, or pulled and unbundled by it.
Received(g, content, publishing) ==
    LET added == Nodes(g) \ Nodes(changelog)
    IN  Transaction(g,
            IF publishing THEN AdvanceBoundary(g, Cache, public, content)
            ELSE RetractBoundary(g, AdvanceBoundary(g, Cache, draft, content), draft, added))
Unbundled(g, t) ==
    Transaction(g, RetractBoundary(g, Cache, t, Nodes(g) \ Nodes(changelog)))

\* hg phase --public, --draft or --secret, with or without --force.
SetPhase(t, N, force) ==
    LET loaded == Loaded(changelog, Cache, Nodes(changelog))
        moved == AdvanceBoundary(changelog, loaded, t, N)
    IN  Transaction(changelog,
            IF force THEN RetractBoundary(changelog, moved, t, N) ELSE moved)

\* Anything that asks for the phase of a changeset.
Read(n) ==
    /\ phaserevs' = Loaded(changelog, Cache, {n}).revs
    /\ UNCHANGED <<changelog, phaseroots, stripping, bundle>>

\* repair.strip: everything from the lowest changeset to strip goes, ...
StripTruncate(N) ==
    LET tostrip == Descendants(changelog, N)
        below == {n \in Nodes(changelog) : n < Min(N)}
    IN  /\ ~stripping
        /\ stripping' = TRUE
        /\ bundle' = Restricted(changelog, Nodes(changelog) \ (tostrip \cup below))
        /\ changelog' = Restricted(changelog, below)
        /\ UNCHANGED <<phaseroots, phaserevs>>

\* Mutant: the temporary bundle is left behind.
StripRestore_left ==
    /\ stripping
    /\ stripping' = FALSE /\ UNCHANGED bundle
    /\ changelog' = Joined(changelog, bundle)
    /\ phaseroots' = FilterUnknown(changelog', phaseroots)
    /\ phaserevs' = << >>

\* Mutant: the cached phases survive, as before issue 3858.
StripRestore_cached ==
    /\ stripping
    /\ stripping' = FALSE /\ bundle' = NoChangesets
    /\ changelog' = Joined(changelog, bundle)
    /\ phaseroots' = FilterUnknown(changelog', phaseroots)
    /\ UNCHANGED phaserevs

\* Mutant: unknown roots are dropped before the changesets come back.
StripRestore_early ==
    /\ stripping
    /\ stripping' = FALSE /\ bundle' = NoChangesets
    /\ changelog' = Joined(changelog, bundle)
    /\ phaseroots' = FilterUnknown(changelog, phaseroots)
    /\ phaserevs' = << >>

\* ... what is not a descendant comes back, and destroyed drops the unknown
\* roots and the cache.
StripRestore ==
    /\ stripping
    /\ stripping' = FALSE /\ bundle' = NoChangesets
    /\ changelog' = Joined(changelog, bundle)
    /\ phaseroots' = FilterUnknown(changelog', phaseroots)
    /\ phaserevs' = << >>

\* The process fails in between, leaving the bundle file; the next one reads
\* the roots and drops those it does not know.
StripFails ==
    /\ stripping
    /\ stripping' = FALSE /\ bundle' = NoChangesets
    /\ phaseroots' = FilterUnknown(changelog, phaseroots)
    /\ phaserevs' = << >>
    /\ UNCHANGED changelog

-----------------------------------------------------------------------------
Bounded(S) == {g \in S : Nodes(g) \subseteq 1..MaxNode}

Next ==
    \/ \E g \in Bounded(Grown(changelog)), t \in allphases : Commit(g, t)
    \/ \E g \in Bounded({changelog} \cup Grown(changelog) \cup GrownTwice(changelog)) :
          \/ \E content \in SUBSET Nodes(g), publishing \in BOOLEAN :
                /\ Nodes(g) \ Nodes(changelog) \subseteq content
                /\ Received(g, content, publishing)
          \/ \E t \in allphases : Unbundled(g, t)
    \/ \E t \in allphases, N \in (SUBSET Nodes(changelog)) \ {{}}, force \in BOOLEAN :
          SetPhase(t, N, force)
    \/ Abort
    \/ \E n \in Nodes(changelog) : Read(n)
    \/ \E N \in (SUBSET Nodes(changelog)) \ {{}} : StripTruncate(N)
    \/ StripRestore
    \/ StripFails

Spec == Init /\ [][Next]_vars

-----------------------------------------------------------------------------
(* Properties.                                                             *)

\* What the roots say of every changeset, those that strip will add back
\* included, is what phases promise of all operations (PhaseMap).
AllChangesets == Joined(changelog, bundle)
Promise == INSTANCE PhaseMap WITH
    graph <- AllChangesets, phase <- PhasesGiven(AllChangesets, phaseroots)

\* The changesets in the changelog and in the bundle of strip behave as the
\* phases of phases.py promise.
PromiseKept == Promise!Spec

\* The cached phases are those that the roots give, whatever was committed,
\* received, stripped or aborted since they were computed
\* (phasecache.phase, invalidate).
CacheFresh ==
    ~stripping => \A r \in 1..Len(phaserevs) :
        /\ r <= Cardinality(Nodes(changelog))
        /\ phaserevs[r] = ComputePhaseRevs(changelog, phaseroots)[r]

\* Whatever changesets are moved to whatever phase, they and their ancestors
\* (descendants) are then exactly those that have changed.
BoundariesExact ==
    ~stripping => \A t \in allphases, N \in SUBSET Nodes(changelog) :
        LET g == changelog
            before == PhasesGiven(g, phaseroots)
            advanced == AdvanceBoundary(g, Cache, t, N)
            retracted == RetractBoundary(g, Cache, t, N)
        IN  /\ PhasesGiven(g, advanced.roots) = Advanced(g, before, t, N)
            /\ t # public =>
                PhasesGiven(g, retracted.roots) = Retracted(g, before, t, N)

=============================================================================
