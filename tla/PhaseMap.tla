------------------------------ MODULE PhaseMap ------------------------------
(***************************************************************************)
(* What phases promise (mercurial/phases.py, hg help phases): every        *)
(* changeset is public, draft or secret; the phase of a changeset is never *)
(* below a parent's; moving changesets to a lower phase takes along their  *)
(* ancestors and nothing else, moving them to a higher phase takes along   *)
(* their descendants and nothing else; and a changeset keeps its phase     *)
(* while others are added and stripped.                                    *)
(***************************************************************************)
EXTENDS ChangesetGraph

VARIABLES graph, phase

Init == graph = NoChangesets /\ phase = NoChangesets

\* Of the changesets there were, some get phase t; those that go down take
\* their ancestors along, those that go up their descendants.
Move(before, after, t) ==
    LET lowered == {n \in Nodes(graph) : after[n] < before[n]}
        raised == {n \in Nodes(graph) : after[n] > before[n]}
    IN  /\ \A n \in Nodes(graph) : after[n] \in {before[n], t}
        /\ \A a \in Ancestors(graph, lowered) : after[a] <= t
        /\ \A d \in Descendants(graph, raised) : after[d] >= t

\* Changesets are added in phase t, or in a parent's that is higher; what
\* the receiver of a push had of them may go down.
Add(before, after, t) ==
    /\ Move(before, after, t)
    /\ \A n \in Nodes(graph) : after[n] <= before[n]
    /\ \A n \in Nodes(graph') \ Nodes(graph) :
        after[n] = Max({t} \cup {after[p] : p \in graph'[n]})

Strip(before, after) == \A n \in Nodes(graph') : after[n] = before[n]

Next ==
    \E before \in {phase}, after \in {phase'} :
        \/ UNCHANGED graph /\ \E t \in allphases : Move(before, after, t)
        \/ Extends(graph', graph) /\ \E t \in allphases : Add(before, after, t)
        \/ Extends(graph, graph') /\ Strip(before, after)

Spec == Init /\ [][Next]_<<graph, phase>>
=============================================================================
