--------------------------- MODULE ChangesetGraph ---------------------------
(***************************************************************************)
(* The graph of changesets, as phases and exchange use it.  A graph g maps *)
(* a changeset to the set of its parents, at most two.  Changesets are     *)
(* positive integers, a child above its parents: the order of the revision *)
(* numbers, which revlog.py relies on in the same way.  A phase map ph     *)
(* gives each changeset a phase.                                           *)
(***************************************************************************)
EXTENDS Integers, FiniteSets, FiniteSetsExt, TLC

NoChangesets == << >>

Nodes(g) == DOMAIN g

\* ::S and S::, the revision sets of ancestors and of descendants, with S.
Ancestors(g, S) ==
    LET upto[n \in Nodes(g)] == {n} \cup UNION {upto[p] : p \in g[n]}
    IN  UNION {upto[n] : n \in S}
Descendants(g, S) ==
    LET below[n \in Nodes(g)] == n \in S \/ \E p \in g[n] : below[p]
    IN  {n \in Nodes(g) : below[n]}

\* The position of a changeset among the others, counted from one, and the
\* changeset at a position.
Rev(g, n) == Cardinality({m \in Nodes(g) : m <= n})
NodeAt(g, r) == CHOOSE n \in Nodes(g) : Rev(g, n) = r

\* S::T
Between(g, S, T) == Descendants(g, S) \cap Ancestors(g, T)

\* The members of S with no parent in S, and with no child in S.
RootsOf(g, S) == {n \in S : g[n] \cap S = {}}
HeadsOf(g, S) == {n \in S : ~\E c \in S : n \in g[c]}

Restricted(g, S) == [n \in S |-> g[n]]

\* g with one more changeset, and its parents
Added(g, n, P) == [m \in Nodes(g) \cup {n} |-> IF m = n THEN P ELSE g[m]]

\* g and the changesets of h that it does not have
Joined(g, h) == [n \in Nodes(g) \cup Nodes(h) |-> IF n \in Nodes(g) THEN g[n] ELSE h[n]]

\* The graphs that adding one changeset to g gives, and that adding two give.
NextNode(g) == Max({0} \cup Nodes(g)) + 1
ParentSets(g) == {P \in SUBSET Nodes(g) : Cardinality(P) <= 2}
WithChild(g, P) == Added(g, NextNode(g), P)
Grown(g) == {WithChild(g, P) : P \in ParentSets(g)}
GrownTwice(g) == UNION {Grown(h) : h \in Grown(g)}

\* h is g and perhaps more.
Extends(h, g) == Nodes(g) \subseteq Nodes(h) /\ Restricted(h, Nodes(g)) = g
-----------------------------------------------------------------------------
public == 0
draft == 1
secret == 2
trackedphases == {draft, secret}
allphases == {public} \cup trackedphases

\* "all nodes are set in the target phase or kept in a lower phase"
Advanced(g, ph, t, N) ==
    LET moving == Ancestors(g, N)
    IN  [n \in Nodes(g) |-> IF n \in moving THEN Min({ph[n], t}) ELSE ph[n]]

\* "all nodes are set in the target phase or kept in a higher phase"
Retracted(g, ph, t, N) ==
    LET moving == Descendants(g, N)
    IN  [n \in Nodes(g) |-> IF n \in moving THEN Max({ph[n], t}) ELSE ph[n]]

\* The phases of g when ph gives those of a part of it that holds all
\* ancestors: what is added has the highest phase of its ancestors.
Inherited(g, ph) ==
    [n \in Nodes(g) |-> IF n \in DOMAIN ph THEN ph[n]
        ELSE Max({public} \cup {ph[a] : a \in Ancestors(g, {n}) \cap DOMAIN ph})]
=============================================================================
