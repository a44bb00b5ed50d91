--------------------------- MODULE ExchangeProofs ---------------------------
(***************************************************************************)
(* Proofs about Exchange, for any clients with and without bundle2, any    *)
(* committers, releasers and forcing clients, and any bound on changesets. *)
(*                                                                         *)
(* What an operation of a client has learned in one step it uses in later  *)
(* ones, when the server has changed.  The inductive invariant says what   *)
(* remains true of it: changesets are never lost, and the phase of one     *)
(* that is held never rises, so that what was served is served; and the    *)
(* client's own repository is locked.                                      *)
(***************************************************************************)
EXTENDS Exchange, GraphLemmas

Closed == IsGraph(graph) /\ DownClosed(graph, released)

\* What the operation of c carries from step to step
Carried(c) ==
    /\ op[c].remoteheads \subseteq Served(Server)
    /\ op[c].common \subseteq Held(c) \cap Served(Server)
    /\ \A n \in op[c].outdated : n \in Held(c) /\ (publishing \/ phase[c][n] = public)
    /\ op[c].at \in {"check", "apply", "unbundle"} => op[c].outdated \subseteq Served(c)
    /\ op[c].at \in {"sync", "keys"} => op[c].outdated \subseteq Held(Server)
    /\ op[c].at \in {"sync", "keys"} /\ op[c].cgresult => Served(c) \subseteq Held(Server)

IInv ==
    /\ TypeOK /\ Closed /\ Whole /\ NothingEscapes
    /\ \A c \in Client : Busy(c) => Carried(c)

\* No changeset is lost, and none gets a higher phase; so what was served is.
Later ==
    /\ Nodes(graph) \subseteq Nodes(graph') /\ \A n \in Nodes(graph) : graph'[n] = graph[n]
    /\ publishing' = publishing
    /\ \A r \in Repo : /\ Held(r) \subseteq Held(r)' /\ Served(r) \subseteq Served(r)'
                       /\ \A n \in Held(r) : phase'[r][n] <= phase[r][n]

-----------------------------------------------------------------------------
(* What holds in a state                                                   *)

\* What a repository holds is a graph with ordered phases; what it serves
\* is closed too.
LEMMA HeldIs ==
    ASSUME IInv, NEW r \in Repo
    PROVE  /\ Held(r) \subseteq Nodes(graph) /\ Served(r) \subseteq Held(r)
           /\ DownClosed(graph, Held(r)) /\ DownClosed(graph, Served(r))
           /\ Nodes(Log(r)) = Held(r) /\ IsGraph(Log(r))
           /\ \A n \in Held(r) : Log(r)[n] = graph[n]
           /\ \A S \in SUBSET Held(r) : Ancestors(Log(r), S) = Ancestors(graph, S)
           /\ IsPhases(Log(r), phase[r]) /\ Ordered(Log(r), phase[r])
           /\ \A n \in Held(r) : phase[r][n] \in {public, draft, secret}
<1>1. /\ IsGraph(graph) /\ Held(r) \subseteq Nodes(graph)
      /\ phase[r] \in [Held(r) -> allphases]
  BY DEF IInv, Closed, TypeOK
<1>2. \A n \in Held(r) : phase[r][n] \in {0, 1, 2} /\ phase[r][n] \in {public, draft, secret}
  BY <1>1, PhaseNumbers
<1>3. \A n \in Held(r) : graph[n] \subseteq Held(r) /\ \A p \in graph[n] : phase[r][p] <= phase[r][n]
  BY DEF IInv, Whole
<1>4. DownClosed(graph, Held(r))
  BY <1>3 DEF DownClosed
<1>5. Served(r) \subseteq Held(r) /\ DownClosed(graph, Served(r))
  <2>1. ASSUME NEW n \in Served(r), NEW p \in graph[n] PROVE p \in Served(r)
    <3>1. n \in Held(r) /\ phase[r][n] < 2 /\ p \in Held(r)
      BY <1>3, <2>1, PhaseNumbers DEF Served
    <3>2. phase[r][p] <= phase[r][n] /\ phase[r][p] \in {0, 1, 2} /\ phase[r][n] \in {0, 1, 2}
      BY <1>2, <1>3, <2>1, <3>1
    <3> QED BY <3>1, <3>2, PhaseNumbers DEF Served
  <2> QED BY <2>1 DEF DownClosed, Served
<1>6. /\ Nodes(Log(r)) = Held(r) /\ IsGraph(Log(r))
      /\ \A n \in Held(r) : Log(r)[n] = graph[n]
      /\ \A S \in SUBSET Held(r) : Ancestors(Log(r), S) = Ancestors(graph, S)
  BY <1>1, <1>4, RestrictedGraph DEF Log
<1>7. IsPhases(Log(r), phase[r]) /\ Ordered(Log(r), phase[r])
  BY <1>1, <1>3, <1>6 DEF IsPhases, Ordered
<1> QED BY <1>1, <1>2, <1>4, <1>5, <1>6, <1>7

\* What two repositories hold, both serve.
LEMMA BothServe ==
    ASSUME IInv, NEW r \in Repo, NEW q \in Repo, r # q, NEW n \in Held(r) \cap Held(q)
    PROVE  n \in Served(r) /\ n \in Served(q)
<1>1. phase[r][n] # secret /\ phase[q][n] # secret
  BY DEF IInv, NothingEscapes
<1>2. phase[r][n] \in {public, draft, secret} /\ phase[q][n] \in {public, draft, secret}
  BY HeldIs
<1> QED BY <1>1, <1>2, PhaseNumbers DEF Served

\* What a client learns to be public is public at the server.
LEMMA PublicThere ==
    ASSUME IInv, NEW H, H \subseteq Nodes(graph), DownClosed(graph, H),
           NEW S, S \subseteq H, S \subseteq Served(Server)
    PROVE  \A x \in PublicHeads(Restricted(graph, H), S) :
               x \in H /\ x \in Held(Server) /\ phase[Server][x] = public
<1> DEFINE g == Restricted(graph, H)
           D == {n \in Held(Server) : phase[Server][n] = draft}
           droots == DraftRoots(Server) \cap Nodes(g)
           parents == UNION {g[n] : n \in droots}
<1>1. /\ Nodes(g) = H /\ IsGraph(g) /\ \A n \in H : g[n] = graph[n]
      /\ \A T \in SUBSET H : Ancestors(g, T) = Ancestors(graph, T)
  BY RestrictedGraph DEF IInv, Closed
<1>2. Server \in Repo /\ IsGraph(graph)
  BY DEF Repo, IInv, Closed
<1>3. DraftRoots(Server) = RootsOf(graph, D)
  BY DEF DraftRoots
<1>4. ASSUME NEW n \in Served(Server)
      PROVE  n \in Held(Server) /\ phase[Server][n] \in {public, draft}
  <2>1. n \in Held(Server) /\ phase[Server][n] < secret
    BY DEF Served
  <2>2. phase[Server][n] \in {public, draft, secret}
    BY <1>2, <2>1, HeldIs
  <2> QED BY <2>1, <2>2, PhaseNumbers
<1>5. ASSUME NEW x \in parents
      PROVE  x \in H /\ x \in Held(Server) /\ phase[Server][x] = public
  <2>1. PICK n \in droots : x \in g[n]
    OBVIOUS
  <2>2. n \in H /\ n \in D /\ x \in graph[n] /\ x \notin D
    BY <1>1, <1>3, <2>1 DEF RootsOf
  <2>3. x \in H /\ x \in Held(Server) /\ phase[Server][x] <= phase[Server][n]
    BY <1>2, <2>2 DEF DownClosed, IInv, Whole
  <2>4. phase[Server][x] \in {public, draft, secret} /\ phase[Server][n] = draft
    BY <1>2, <2>2, <2>3, HeldIs
  <2>5. phase[Server][x] # draft
    BY <2>2, <2>3
  <2> QED BY <2>3, <2>4, <2>5, PhaseNumbers
<1>6. ASSUME NEW x \in S, x \notin Between(g, droots, S) PROVE phase[Server][x] = public
  <2>1. x \in Ancestors(g, S) /\ x \in Nodes(g)
    BY <1>1, AncestorsClosed
  <2>2. x \notin Descendants(g, droots)
    BY <1>6, <2>1 DEF Between
  <2>3. Ancestors(g, {x}) \cap droots = {}
    BY <1>1, <2>1, <2>2, Related
  <2>4. Ancestors(graph, {x}) \cap droots = {} /\ Ancestors(graph, {x}) \subseteq H
    BY <1>1, <1>2, <2>1, <2>3, AncestorsLeast
  <2>5. x \notin D
    <3> SUFFICES ASSUME x \in D PROVE FALSE
      OBVIOUS
    <3>1. PICK r \in Ancestors(graph, {x}) : r \in RootsOf(graph, D)
      BY <1>2, RootBelow
    <3> QED BY <1>1, <1>3, <2>4, <3>1
  <2> QED BY <1>4, <2>5
<1>7. PublicHeads(g, S) = HeadsOf(g, (S \cup parents) \ Between(g, droots, S))
  BY DEF PublicHeads
<1>8. ASSUME NEW x \in PublicHeads(g, S)
      PROVE  x \in H /\ x \in Held(Server) /\ phase[Server][x] = public
  <2>1. x \in S \cup parents /\ x \notin Between(g, droots, S)
    BY <1>7 DEF HeadsOf
  <2> HIDE DEF g, D, droots, parents
  <2> QED BY <1>4, <1>5, <1>6, <2>1
<1> QED BY <1>8

\* What is public at the server has public ancestors there.
LEMMA PublicClosed ==
    ASSUME IInv, NEW S, \A x \in S : x \in Held(Server) /\ phase[Server][x] = public
    PROVE  \A a \in Ancestors(graph, S) : a \in Held(Server) /\ phase[Server][a] = public
<1> DEFINE C == {x \in Held(Server) : phase[Server][x] = public}
<1>1. Server \in Repo /\ IsGraph(graph) /\ Held(Server) \subseteq Nodes(graph)
  BY HeldIs DEF Repo, IInv, Closed
<1>2. ASSUME NEW n \in C, NEW p \in graph[n] PROVE p \in C
  <2>1. p \in Held(Server) /\ phase[Server][p] <= phase[Server][n]
    BY <1>1 DEF IInv, Whole
  <2>2. phase[Server][p] \in {public, draft, secret} /\ phase[Server][n] = public
    BY <1>1, <2>1, HeldIs
  <2> QED BY <2>1, <2>2, PhaseNumbers
<1>3. Ancestors(graph, S) \subseteq C
  <2>1. DownClosed(graph, C) /\ S \subseteq C /\ S \subseteq Nodes(graph)
    BY <1>1, <1>2 DEF DownClosed
  <2> QED BY <1>1, <2>1, AncestorsLeast
<1> QED BY <1>3

\* The phases of the server, applied to what is held here, of which the
\* server has S: what moves is at the server, and is made public when the
\* server publishes or has it public.
LEMMA SynchronizedIs ==
    ASSUME IInv, NEW H, H \subseteq Nodes(graph), DownClosed(graph, H),
           NEW S, S \subseteq H, S \subseteq Served(Server),
           NEW ph \in [H -> allphases], \A n \in H : \A p \in graph[n] : ph[p] <= ph[n]
    PROVE  LET new == Synchronized(Restricted(graph, H), ph, S)
           IN  /\ new \in [H -> allphases]
               /\ \A n \in H : \A p \in graph[n] : new[p] <= new[n]
               /\ \A n \in H : /\ new[n] <= ph[n]
                               /\ new[n] # ph[n] => n \in Held(Server)
                               /\ new[n] = public /\ ph[n] # public =>
                                      publishing \/ phase[Server][n] = public
               /\ \A n \in Ancestors(graph, S) : /\ new[n] <= draft
                                                 /\ publishing => new[n] = public
<1> DEFINE g == Restricted(graph, H)
           P == PublicHeads(g, S)
           new == Synchronized(g, ph, S)
<1>1. /\ Nodes(g) = H /\ IsGraph(g) /\ \A n \in H : g[n] = graph[n]
      /\ \A T \in SUBSET H : Ancestors(g, T) = Ancestors(graph, T)
  BY RestrictedGraph DEF IInv, Closed
<1>2. IsPhases(g, ph) /\ Ordered(g, ph)
  BY <1>1 DEF IsPhases, Ordered
<1>3. Ancestors(graph, S) \subseteq Served(Server) /\ Served(Server) \subseteq Held(Server)
  BY HeldIs, AncestorsLeast DEF Repo, IInv, Closed
<1>4. Ancestors(graph, S) \subseteq H
  BY AncestorsLeast DEF IInv, Closed
<1>5. public \in allphases /\ draft \in allphases
  BY PhaseNumbers
<1>6. CASE publishing
  <2>1. new = Advanced(g, ph, public, S)
    BY <1>6 DEF Synchronized
  <2>2. /\ IsPhases(g, new)
        /\ \A n \in H : /\ new[n] <= ph[n]
                        /\ n \notin Ancestors(graph, S) => new[n] = ph[n]
                        /\ n \in Ancestors(graph, S) => new[n] <= public
        /\ Ordered(g, new)
    <3> HIDE DEF g, new
    <3> QED BY <1>1, <1>2, <1>5, <2>1, AdvancedIs
  <2> HIDE DEF new
  <2>3. new \in [H -> allphases] /\ \A n \in H : \A p \in graph[n] : new[p] <= new[n]
    BY <1>1, <2>2 DEF IsPhases, Ordered
  <2>4. ASSUME NEW n \in Ancestors(graph, S) PROVE new[n] <= draft /\ new[n] = public
    <3>1. n \in H /\ new[n] \in {0, 1, 2} /\ new[n] <= 0
      BY <1>4, <2>2, <2>3, PhaseNumbers
    <3> QED BY <3>1, PhaseNumbers
  <2> HIDE DEF g
  <2> QED BY <1>3, <1>6, <2>2, <2>3, <2>4 DEF g, new
<1>7. CASE ~publishing
  <2> DEFINE mid == Advanced(g, ph, public, P)
  <2>1. new = Advanced(g, mid, draft, S)
    BY <1>7 DEF Synchronized
  <2>2. P \subseteq H /\ \A x \in P : x \in Held(Server) /\ phase[Server][x] = public
    BY PublicThere
  <2>3. \A a \in Ancestors(graph, P) : a \in Held(Server) /\ phase[Server][a] = public
    BY <2>2, PublicClosed
  <2>4. /\ IsPhases(g, mid)
        /\ \A n \in H : /\ mid[n] <= ph[n] /\ mid[n] \in {ph[n], public}
                        /\ n \notin Ancestors(graph, P) => mid[n] = ph[n]
        /\ Ordered(g, mid)
    <3> HIDE DEF g, P
    <3> QED BY <1>1, <1>2, <1>5, <2>2, AdvancedIs
  <2> HIDE DEF mid
  <2>5. /\ IsPhases(g, new)
        /\ \A n \in H : /\ new[n] <= mid[n] /\ new[n] \in {mid[n], draft}
                        /\ n \notin Ancestors(graph, S) => new[n] = mid[n]
                        /\ n \in Ancestors(graph, S) => new[n] <= draft
        /\ Ordered(g, new)
    <3> HIDE DEF g, new
    <3> QED BY <1>1, <1>5, <2>1, <2>4, AdvancedIs
  <2> HIDE DEF new, P
  <2>6. new \in [H -> allphases] /\ \A n \in H : \A p \in graph[n] : new[p] <= new[n]
    BY <1>1, <2>5 DEF IsPhases, Ordered
  <2>7. ASSUME NEW n \in H
        PROVE  /\ new[n] <= ph[n]
               /\ new[n] # ph[n] => n \in Held(Server)
               /\ new[n] = public /\ ph[n] # public => phase[Server][n] = public
    <3>1. /\ new[n] \in {0, 1, 2} /\ ph[n] \in {0, 1, 2} /\ mid[n] \in {0, 1, 2}
          /\ public = 0 /\ draft = 1
      BY <1>1, <2>4, <2>6, PhaseNumbers DEF IsPhases
    <3>2. new[n] <= mid[n] /\ mid[n] <= ph[n] /\ mid[n] \in {ph[n], public} /\ new[n] \in {mid[n], draft}
      BY <2>4, <2>5
    <3>3. new[n] # ph[n] => n \in Held(Server)
      BY <1>3, <2>3, <2>4, <2>5
    <3>4. CASE mid[n] # ph[n]
      <4>1. n \in Ancestors(graph, P)
        BY <2>4, <3>4
      <4> QED BY <2>3, <3>1, <3>2, <3>3, <4>1
    <3>5. CASE mid[n] = ph[n]
      BY <3>1, <3>2, <3>3, <3>5
    <3> QED BY <3>4, <3>5
  <2>8. \A n \in Ancestors(graph, S) : new[n] <= draft
    BY <1>4, <2>5
  <2> HIDE DEF g
  <2> QED BY <1>7, <2>6, <2>7, <2>8 DEF g, new
<1> QED BY <1>6, <1>7

\* What a bundle of c leaves on the server: all that c serves, the missing
\* changesets at most draft, and nothing public that was not, unless the
\* server publishes.
LEMMA AppliedIs ==
    ASSUME IInv, NEW c \in Client, op[c].common \subseteq Held(c) \cap Served(Server)
    PROVE  LET H == Held(Server) \cup Missing(c)
               new == Applied(c)
           IN  /\ H \subseteq Nodes(graph) /\ DownClosed(graph, H)
               /\ Served(c) \subseteq H /\ Missing(c) \subseteq Served(c)
               /\ new \in [H -> allphases]
               /\ \A n \in H : \A p \in graph[n] : new[p] <= new[n]
               /\ \A n \in Held(Server) : /\ new[n] <= phase[Server][n]
                                          /\ phase[Server][n] = secret => new[n] = secret
               /\ \A n \in Missing(c) : new[n] <= draft
               /\ \A n \in H : new[n] = public =>
                     publishing \/ (n \in Held(Server) /\ phase[Server][n] = public)
<1> DEFINE H == Held(Server) \cup Missing(c)
           g == Restricted(graph, H)
           inherited == Inherited(g, phase[Server])
           new == Applied(c)
<1>1. Server \in Repo /\ c \in Repo /\ c # Server /\ IsGraph(graph)
  BY ServerAssumption DEF Repo, IInv, Closed
<1>2. /\ Held(Server) \subseteq Nodes(graph) /\ DownClosed(graph, Held(Server))
      /\ Held(c) \subseteq Nodes(graph) /\ Served(c) \subseteq Held(c) /\ DownClosed(graph, Served(c))
      /\ Served(Server) \subseteq Held(Server)
      /\ \A n \in Held(Server) : phase[Server][n] \in {public, draft, secret}
  BY <1>1, HeldIs
<1>3. Missing(c) \subseteq Served(c) /\ Served(c) \subseteq H /\ H \subseteq Nodes(graph)
  BY <1>2 DEF Missing
<1>4. DownClosed(graph, H)
  BY <1>2, <1>3 DEF DownClosed
<1>5. /\ Nodes(g) = H /\ IsGraph(g) /\ \A n \in H : g[n] = graph[n]
      /\ \A T \in SUBSET H : Ancestors(g, T) = Ancestors(graph, T)
  BY <1>1, <1>3, <1>4, RestrictedGraph
<1>6. Ancestors(graph, Missing(c)) \subseteq Served(c)
  BY <1>1, <1>2, <1>3, AncestorsLeast
<1>7. \A n \in Held(Server) \cap Served(c) : phase[Server][n] \in {public, draft}
  <2> TAKE n \in Held(Server) \cap Served(c)
  <2>1. n \in Served(Server)
    BY <1>1, <1>2, BothServe
  <2> QED BY <1>2, <2>1, PhaseNumbers DEF Served
<1>8. /\ IsPhases(g, inherited) /\ Ordered(g, inherited)
      /\ \A n \in Held(Server) : inherited[n] = phase[Server][n]
      /\ \A n \in Missing(c) \ Held(Server) : inherited[n] \in {public, draft}
  <2>1. phase[Server] \in [Held(Server) -> allphases]
    BY <1>1 DEF IInv, TypeOK
  <2>2. \A n \in Held(Server) : \A p \in g[n] : phase[Server][p] <= phase[Server][n]
    BY <1>1, <1>5 DEF IInv, Whole
  <2>3. DownClosed(g, Held(Server)) /\ Held(Server) \subseteq Nodes(g)
    BY <1>2, <1>5 DEF DownClosed
  <2>4. /\ IsPhases(g, inherited) /\ Ordered(g, inherited)
        /\ \A n \in Held(Server) : inherited[n] = phase[Server][n]
        /\ \A n \in Nodes(g) \ Held(Server) :
               \/ inherited[n] = public
               \/ \E a \in Ancestors(g, {n}) \cap Held(Server) : inherited[n] = phase[Server][a]
    <3> HIDE DEF g
    <3> QED BY <1>5, <2>1, <2>2, <2>3, InheritedIs
  <2>5. ASSUME NEW n \in Missing(c) \ Held(Server) PROVE inherited[n] \in {public, draft}
    <3>1. Ancestors(g, {n}) = Ancestors(graph, {n}) /\ Ancestors(graph, {n}) \subseteq Served(c)
      BY <1>1, <1>2, <1>3, <1>5, AncestorsLeast
    <3> HIDE DEF inherited, g, H
    <3>2. n \in Nodes(g) \ Held(Server)
      BY <1>5, <2>5 DEF H
    <3> QED BY <1>7, <2>4, <3>1, <3>2
  <2> QED BY <2>4, <2>5
<1> HIDE DEF inherited
<1>9. \A n \in Missing(c) : inherited[n] \in {public, draft}
  <2> TAKE n \in Missing(c)
  <2>1. CASE n \in Held(Server)
    BY <1>3, <1>7, <1>8, <2>1
  <2> QED BY <1>8, <2>1
<1>10. public \in allphases /\ draft \in allphases /\ Missing(c) \subseteq H
  BY PhaseNumbers
<1>11. \A n \in Held(Server) : phase[Server][n] = secret => n \notin Ancestors(graph, Missing(c))
  BY <1>2, <1>6, <1>7, PhaseNumbers
<1>12. \A n \in H : inherited[n] \in {0, 1, 2}
  BY <1>5, <1>8, PhaseNumbers DEF IsPhases
<1>13. CASE publishing
  <2>1. new = Advanced(g, inherited, public, Missing(c))
    BY <1>13 DEF Applied, inherited
  <2>2. /\ IsPhases(g, new)
        /\ \A n \in H : /\ new[n] <= inherited[n] /\ new[n] \in {inherited[n], public}
                        /\ n \notin Ancestors(graph, Missing(c)) => new[n] = inherited[n]
                        /\ n \in Ancestors(graph, Missing(c)) => new[n] <= public
        /\ Ordered(g, new)
    <3> HIDE DEF g, new, H
    <3> QED BY <1>5, <1>8, <1>10, <2>1, AdvancedIs
  <2> HIDE DEF new
  <2>3. new \in [H -> allphases] /\ \A n \in H : \A p \in graph[n] : new[p] <= new[n]
    BY <1>5, <2>2 DEF IsPhases, Ordered
  <2>4. \A n \in Held(Server) : /\ new[n] <= phase[Server][n]
                                /\ phase[Server][n] = secret => new[n] = secret
    BY <1>8, <1>11, <2>2
  <2>5. \A n \in Missing(c) : new[n] <= draft
    BY <1>9, <1>10, <2>2, PhaseNumbers
  <2> HIDE DEF g
  <2> QED BY <1>3, <1>4, <1>13, <2>3, <2>4, <2>5 DEF new
<1>14. CASE ~publishing
  <2> DEFINE mid == Advanced(g, inherited, draft, Missing(c))
             added == Missing(c) \ Held(Server)
  <2>1. new = Retracted(g, mid, draft, added)
    BY <1>14 DEF Applied, inherited
  <2>2. /\ IsPhases(g, mid)
        /\ \A n \in H : /\ mid[n] <= inherited[n] /\ mid[n] \in {inherited[n], draft}
                        /\ n \notin Ancestors(graph, Missing(c)) => mid[n] = inherited[n]
                        /\ n \in Ancestors(graph, Missing(c)) => mid[n] <= draft
        /\ Ordered(g, mid)
    <3> HIDE DEF g, H
    <3> QED BY <1>5, <1>8, <1>10, AdvancedIs
  <2> HIDE DEF mid
  <2>3. Descendants(g, added) \subseteq added
    <3>1. UpClosed(g, added)
      <4> SUFFICES ASSUME NEW n \in H, NEW p \in graph[n], p \in added PROVE n \in added
        BY <1>5 DEF UpClosed
      <4>1. n \notin Held(Server)
        BY <1>2 DEF DownClosed
      <4> QED BY <4>1
    <3> HIDE DEF g
    <3> QED BY <1>5, <3>1, DescendantsLeast
  <2>4. /\ IsPhases(g, new)
        /\ \A n \in H : /\ mid[n] <= new[n] /\ new[n] \in {mid[n], draft}
                        /\ n \notin Descendants(g, added) => new[n] = mid[n]
                        /\ n \in Descendants(g, added) => draft <= new[n]
        /\ Ordered(g, new)
    <3> HIDE DEF g, new, H, added
    <3> QED BY <1>5, <1>10, <2>1, <2>2, RetractedIs
  <2> HIDE DEF new
  <2>5. new \in [H -> allphases] /\ \A n \in H : \A p \in graph[n] : new[p] <= new[n]
    BY <1>5, <2>4 DEF IsPhases, Ordered
  <2>6. \A n \in Held(Server) : new[n] = mid[n]
    BY <2>3, <2>4
  <2>7. \A n \in added : draft <= new[n]
    <3>1. added \subseteq Descendants(g, added)
      <4> HIDE DEF g
      <4> QED BY <1>5, DescendantsClosed
    <3> QED BY <2>4, <3>1
  <2>8. \A n \in Held(Server) : /\ new[n] <= phase[Server][n]
                                /\ phase[Server][n] = secret => new[n] = secret
                                /\ new[n] = public => phase[Server][n] = public
    BY <1>8, <1>11, <2>2, <2>6, PhaseNumbers
  <2>9. \A n \in Missing(c) : new[n] <= draft
    <3> TAKE n \in Missing(c)
    <3>1. n \in Ancestors(graph, Missing(c)) /\ n \in H
      BY <1>1, <1>3, AncestorsClosed
    <3>2. mid[n] <= draft
      BY <2>2, <3>1
    <3> QED BY <2>4, <3>1, <3>2, PhaseNumbers
  <2>10. \A n \in H \ Held(Server) : new[n] # public
    BY <2>7, PhaseNumbers
  <2> HIDE DEF g
  <2> QED BY <1>3, <1>4, <2>5, <2>8, <2>9, <2>10 DEF new
<1> QED BY <1>13, <1>14

-----------------------------------------------------------------------------
(* What one repository may do without harm                                 *)

\* Repository r comes to hold H with phases new: what it held is kept and
\* moves down at most, what arrives is served elsewhere or has just been
\* made, and is public only if released or on a publishing server.
Moves(r, H, new) ==
    /\ phase' = [phase EXCEPT ![r] = new]
    /\ publishing' = publishing
    /\ IsGraph(graph') /\ Nodes(graph) \subseteq Nodes(graph') /\ Nodes(graph') \subseteq 1..MaxNode
    /\ \A n \in Nodes(graph) : graph'[n] = graph[n]
    /\ released \subseteq released' /\ released' \subseteq Nodes(graph') /\ DownClosed(graph', released')
    /\ Held(r) \subseteq H /\ H \subseteq Nodes(graph') /\ new \in [H -> allphases]
    /\ \A n \in H : graph'[n] \subseteq H /\ \A p \in graph'[n] : new[p] <= new[n]
    /\ \A n \in Held(r) : new[n] <= phase[r][n]
    /\ \A n \in H \ Held(r) : n \in Nodes(graph) =>
           new[n] # secret /\ \E q \in Repo \ {r} : n \in Served(q)
    /\ \A n \in H : new[n] = public =>
           n \in released' \/ (publishing /\ (r # Server => n \in Held(Server)))

LEMMA MovesSafe ==
    ASSUME IInv, NEW r \in Repo, NEW H, NEW new, Moves(r, H, new)
    PROVE  /\ Closed' /\ Whole' /\ NothingEscapes'
           /\ DOMAIN phase' = Repo
           /\ \A q \in Repo : /\ Held(q)' \subseteq Nodes(graph)' /\ phase'[q] \in [Held(q)' -> allphases]
                              /\ Held(q) \subseteq Held(q)'
                              /\ \A n \in Held(q) : phase'[q][n] <= phase[q][n]
                              /\ Served(q) \subseteq Served(q)'
                              /\ q # r => phase'[q] = phase[q]
           /\ Held(r)' = H /\ phase'[r] = new
<1>1. DOMAIN phase = Repo /\ released \subseteq Nodes(graph)
  BY DEF IInv, TypeOK
<1>2. \A q \in Repo : /\ Held(q) \subseteq Nodes(graph) /\ phase[q] \in [Held(q) -> allphases]
                      /\ \A n \in Held(q) : phase[q][n] \in {public, draft, secret}
  BY HeldIs DEF IInv, TypeOK
<1>3. /\ DOMAIN phase' = Repo /\ phase'[r] = new
      /\ \A q \in Repo : q # r => phase'[q] = phase[q]
  BY <1>1 DEF Moves
<1>4. Held(r)' = H /\ \A q \in Repo : q # r => Held(q)' = Held(q)
  <2>1. DOMAIN new = H
    BY DEF Moves
  <2> QED BY <1>3, <2>1 DEF Held
<1>5. \A n \in H : new[n] \in {public, draft, secret}
  BY PhaseNumbers DEF Moves
<1>6. \A q \in Repo : /\ Held(q)' \subseteq Nodes(graph') /\ phase'[q] \in [Held(q)' -> allphases]
                      /\ Held(q) \subseteq Held(q)'
                      /\ \A n \in Held(q) : phase'[q][n] <= phase[q][n]
  <2> TAKE q \in Repo
  <2>1. CASE q = r
    BY <1>3, <1>4, <2>1 DEF Moves
  <2>2. CASE q # r
    <3>1. \A n \in Held(q) : phase[q][n] <= phase[q][n]
      BY <1>2, PhaseNumbers
    <3> QED BY <1>2, <1>3, <1>4, <2>2, <3>1 DEF Moves
  <2> QED BY <2>1, <2>2
<1>7. \A q \in Repo : Served(q) \subseteq Served(q)'
  <2> SUFFICES ASSUME NEW q \in Repo, NEW n \in Served(q) PROVE n \in Served(q)'
    OBVIOUS
  <2>1. n \in Held(q) /\ n \in Held(q)' /\ phase[q][n] < 2 /\ phase'[q][n] <= phase[q][n]
    BY <1>6, PhaseNumbers DEF Served
  <2>2. phase[q][n] \in {0, 1, 2} /\ phase'[q][n] \in {0, 1, 2}
    BY <1>2, <1>6, <2>1, PhaseNumbers
  <2>3. phase'[q][n] < 2
    BY <2>1, <2>2
  <2> QED BY <2>1, <2>3, PhaseNumbers DEF Served
<1>8. Closed'
  BY DEF Moves, Closed
<1>9. ASSUME NEW q \in Repo, NEW n \in Held(q)'
      PROVE  graph'[n] \subseteq Held(q)' /\ \A p \in graph'[n] : phase'[q][p] <= phase'[q][n]
  <2>1. CASE q = r
    BY <1>3, <1>4, <1>9, <2>1 DEF Moves
  <2>2. CASE q # r
    <3>1. n \in Held(q) /\ phase'[q] = phase[q] /\ Held(q)' = Held(q)
      BY <1>3, <1>4, <1>9, <2>2
    <3>2. graph'[n] = graph[n]
      BY <1>2, <3>1 DEF Moves
    <3> QED BY <3>1, <3>2 DEF IInv, Whole
  <2> QED BY <2>1, <2>2
<1>10. Whole'
  BY <1>9 DEF Whole
<1>11. ASSUME NEW q \in Repo, NEW n \in Held(q)', phase'[q][n] = secret, NEW p \in Repo \ {q}, n \in Held(p)'
       PROVE  FALSE
  <2>1. CASE n \in Held(q) /\ n \in Held(p)
    <3>1. phase[q][n] \in {0, 1, 2} /\ 2 <= phase[q][n]
      BY <1>2, <1>6, <1>11, <2>1, PhaseNumbers
    <3>2. phase[q][n] = secret
      BY <3>1, PhaseNumbers
    <3> QED BY <1>11, <2>1, <3>2 DEF IInv, NothingEscapes
  <2>2. CASE n \notin Held(q)
    <3>1. q = r /\ n \in H \ Held(r) /\ new[n] = secret
      BY <1>3, <1>4, <1>11, <2>2
    <3>2. n \in Held(p)
      BY <1>4, <1>11, <3>1
    <3> QED BY <1>2, <3>1, <3>2 DEF Moves
  <2>3. CASE n \in Held(q) /\ n \notin Held(p)
    <3>1. p = r /\ n \in H \ Held(r) /\ q # r
      BY <1>4, <1>11, <2>3
    <3>2. PICK s \in Repo \ {r} : n \in Served(s)
      BY <1>2, <2>3, <3>1 DEF Moves
    <3>3. n \in Held(s) /\ phase[s][n] < secret /\ phase[q][n] = secret
      BY <1>3, <1>11, <3>1, <3>2 DEF Served
    <3>4. s # q
      BY <3>3, PhaseNumbers
    <3> QED BY <2>3, <3>3, <3>4 DEF IInv, NothingEscapes
  <2> QED BY <2>1, <2>2, <2>3
<1>12. ASSUME NEW q \in Repo, NEW n \in Held(q)', phase'[q][n] = public
       PROVE  n \in released' \/ (publishing' /\ n \in Held(Server)')
  <2>1. publishing' = publishing /\ released \subseteq released' /\ Held(Server) \subseteq Held(Server)'
    BY <1>6 DEF Moves, Repo
  <2>2. CASE q = r
    <3>1. n \in H /\ new[n] = public
      BY <1>3, <1>4, <1>12, <2>2
    <3>2. CASE r = Server
      BY <1>4, <2>1, <3>1, <3>2 DEF Moves
    <3>3. CASE r # Server
      BY <2>1, <3>1, <3>3 DEF Moves
    <3> QED BY <3>2, <3>3
  <2>3. CASE q # r
    <3>1. n \in Held(q) /\ phase[q][n] = public
      BY <1>3, <1>4, <1>12, <2>3
    <3> QED BY <2>1, <3>1 DEF IInv, NothingEscapes
  <2> QED BY <2>2, <2>3
<1>13. NothingEscapes'
  BY <1>11, <1>12 DEF NothingEscapes
<1> QED BY <1>3, <1>4, <1>6, <1>7, <1>8, <1>10, <1>13

\* What the operation of another client carries remains true.
LEMMA CarriedKept ==
    ASSUME IInv, NEW r \in Repo, NEW H, NEW new, Moves(r, H, new),
           NEW c \in Client, c # r, op'[c] = op[c], Carried(c)
    PROVE  Carried(c)'
<1>1. Server \in Repo /\ c \in Repo
  BY DEF Repo
<1>2. /\ Served(Server) \subseteq Served(Server)' /\ Held(Server) \subseteq Held(Server)'
      /\ phase'[c] = phase[c] /\ publishing' = publishing
  <2>1. \A q \in Repo : /\ Held(q) \subseteq Held(q)' /\ Served(q) \subseteq Served(q)'
                        /\ q # r => phase'[q] = phase[q]
    BY MovesSafe
  <2> QED BY <1>1, <2>1 DEF Moves
<1>3. Held(c)' = Held(c) /\ Served(c)' = Served(c)
  BY <1>2 DEF Held, Served
<1> QED BY <1>2, <1>3 DEF Carried

LEMMA StepSafe ==
    ASSUME IInv, NEW r \in Repo, NEW H, NEW new, Moves(r, H, new),
           op' \in [Client -> Operation \cup {Idle}],
           \A c \in Client : \/ op'[c] = Idle
                             \/ op'[c] = op[c] /\ c # r
                             \/ Carried(c)'
    PROVE  IInv' /\ Later
<1>1. /\ Closed' /\ Whole' /\ NothingEscapes' /\ DOMAIN phase' = Repo
      /\ \A q \in Repo : Held(q)' \subseteq Nodes(graph)' /\ phase'[q] \in [Held(q)' -> allphases]
  BY MovesSafe
<1>2. TypeOK'
  <2>1. publishing' \in BOOLEAN
    BY DEF Moves, IInv, TypeOK
  <2>2. Nodes(graph)' \subseteq 1..MaxNode /\ released' \subseteq Nodes(graph)'
    BY DEF Moves, Nodes
  <2> QED BY <1>1, <2>1, <2>2 DEF TypeOK
<1>3. ASSUME NEW c \in Client, Busy(c)' PROVE Carried(c)'
  <2>1. op'[c] # Idle
    BY <1>3 DEF Busy, Idle
  <2>2. CASE op'[c] = op[c] /\ c # r
    <3>1. Carried(c)
      BY <2>1, <2>2 DEF IInv, Busy
    <3> QED BY <2>2, <3>1, CarriedKept
  <2> QED BY <2>1, <2>2
<1>4. Later
  <2>1. \A q \in Repo : /\ Held(q) \subseteq Held(q)' /\ Served(q) \subseteq Served(q)'
                        /\ \A n \in Held(q) : phase'[q][n] <= phase[q][n]
    BY MovesSafe
  <2> QED BY <2>1 DEF Later, Moves
<1> QED BY <1>1, <1>2, <1>3, <1>4 DEF IInv

\* When repositories stay as they are
LEMMA SameLater ==
    ASSUME IInv, UNCHANGED <<graph, phase, publishing>>
    PROVE  Later
<1>1. \A r \in Repo : Held(r)' = Held(r) /\ Served(r)' = Served(r)
  BY DEF Held, Served
<1>2. ASSUME NEW r \in Repo, NEW n \in Held(r) PROVE phase'[r][n] <= phase[r][n]
  <2>1. phase[r][n] \in {0, 1, 2}
    BY HeldIs, PhaseNumbers
  <2> QED BY <2>1
<1> QED BY <1>1, <1>2 DEF Later, Nodes

\* A step of c that changes nothing but its operation.
LEMMA OnlyOp ==
    ASSUME IInv, NEW c \in Client, Unchanged, NEW o \in Operation \cup {Idle}, Update(c, o),
           o # Idle => Carried(c)'
    PROVE  IInv' /\ Later
<1>1. /\ op \in [Client -> Operation \cup {Idle}] /\ op' = [op EXCEPT ![c] = o]
      /\ UNCHANGED <<graph, phase, publishing, released>>
  BY DEF IInv, TypeOK, Update, Unchanged
<1>2. /\ op' \in [Client -> Operation \cup {Idle}] /\ op'[c] = o
      /\ \A d \in Client \ {c} : op'[d] = op[d]
  BY <1>1
<1>3. TypeOK' /\ Closed' /\ Whole' /\ NothingEscapes'
  BY <1>1, <1>2 DEF IInv, TypeOK, Closed, Whole, NothingEscapes, Held, Nodes, IsGraph, DownClosed
<1>4. ASSUME NEW d \in Client, Busy(d)' PROVE Carried(d)'
  <2>1. CASE d = c
    BY <1>2, <1>4, <2>1 DEF Busy, Idle
  <2>2. CASE d # c
    <3>1. op'[d] = op[d] /\ Carried(d)
      BY <1>2, <1>4, <2>2 DEF IInv, Busy, Idle
    <3> QED BY <1>1, <3>1 DEF Carried, Held, Served
  <2> QED BY <2>1, <2>2
<1>5. Later
  BY <1>1, SameLater
<1> QED BY <1>3, <1>4, <1>5 DEF IInv

-----------------------------------------------------------------------------
(* Init and the steps that only learn something                            *)

LEMMA InitSafe == Init => IInv
<1> SUFFICES ASSUME Init PROVE IInv
  OBVIOUS
<1>1. /\ publishing \in BOOLEAN /\ op = [c \in Client |-> Idle]
      /\ phase = [r \in Repo |-> [n \in Nodes(graph) |-> IF publishing THEN public ELSE draft]]
      /\ released = IF publishing THEN Nodes(graph) ELSE {}
  BY DEF Init
<1>2. /\ Nodes(graph) \subseteq {1} /\ \A n \in Nodes(graph) : graph[n] = {}
  <2>1. CASE graph = NoChangesets
    BY <2>1 DEF NoChangesets, Nodes
  <2>2. CASE graph = Added(NoChangesets, 1, {})
    <3>1. Nodes(NoChangesets) = {}
      BY DEF NoChangesets, Nodes
    <3>2. graph = [m \in {1} |-> {}]
      BY <2>2, <3>1 DEF Added
    <3> QED BY <3>2 DEF Nodes
  <2> QED BY <2>1, <2>2 DEF Init
<1>3. \A r \in Repo : /\ Held(r) = Nodes(graph)
                      /\ phase[r] = [n \in Nodes(graph) |-> IF publishing THEN public ELSE draft]
  BY <1>1 DEF Held
<1>4. Closed
  BY <1>1, <1>2 DEF Closed, IsGraph, DownClosed
<1>5. TypeOK
  BY <1>1, <1>2, <1>3, BoundAssumption, PhaseNumbers DEF TypeOK
<1>6. Whole
  BY <1>2, <1>3 DEF Whole
<1>7. NothingEscapes
  BY <1>1, <1>3, PhaseNumbers DEF NothingEscapes
<1>8. \A c \in Client : ~Busy(c)
  BY <1>1 DEF Busy
<1> QED BY <1>4, <1>5, <1>6, <1>7, <1>8 DEF IInv

\* What an operation is, and what is known of it
LEMMA OperationIs ==
    ASSUME IInv, NEW c \in Client, op[c].at # "idle"
    PROVE  /\ op[c] \in Operation /\ Busy(c) /\ Carried(c)
           /\ c \in Repo /\ Server \in Repo /\ c # Server
<1>1. op[c] \in Operation \cup {Idle}
  BY DEF IInv, TypeOK
<1>2. op[c] # Idle
  BY DEF Idle
<1> QED BY <1>1, <1>2, ServerAssumption DEF Busy, IInv, Repo

\* Sets of changesets fit into an operation.
LEMMA Fits ==
    ASSUME IInv, NEW S, S \subseteq Nodes(graph)
    PROVE  S \in SUBSET (1..MaxNode)
BY DEF IInv, TypeOK

LEMMA StartSafe ==
    ASSUME IInv, NEW c \in Client, NEW push \in BOOLEAN, NEW force \in BOOLEAN,
           Start(c, push, force)
    PROVE  IInv' /\ Later
<1> DEFINE o == [at |-> "common", push |-> push, force |-> force,
                 remoteheads |-> ServedHeads(Server), common |-> {},
                 outdated |-> {}, cgresult |-> FALSE]
<1>1. Unchanged /\ Update(c, o)
  BY DEF Start
<1>2. ServedHeads(Server) \subseteq Served(Server) /\ Served(Server) \subseteq Nodes(graph)
  BY HeldIs DEF ServedHeads, HeadsOf, Repo
<1>3. o \in Operation
  BY <1>2, Fits DEF Operation
<1>4. op'[c] = o
  BY <1>1 DEF Update, IInv, TypeOK
<1>5. Carried(c)'
  BY <1>1, <1>2, <1>4 DEF Carried, Unchanged, Held, Served
<1> QED BY <1>1, <1>3, <1>5, OnlyOp

\* Discovery: what is common is here and is served there.
LEMMA CommonIs ==
    ASSUME IInv, NEW c \in Client, op[c].at = "common"
    PROVE  Common(c) \subseteq Held(c) \cap Served(Server)
<1>1. /\ c \in Repo /\ Server \in Repo /\ op[c].remoteheads \subseteq Served(Server) /\ IsGraph(graph)
  BY OperationIs DEF Carried, IInv, Closed
<1>2. CASE op[c].remoteheads \subseteq Held(c)
  <2>1. /\ DownClosed(graph, Held(c)) /\ DownClosed(graph, Served(Server))
        /\ Held(c) \subseteq Nodes(graph)
    BY <1>1, HeldIs
  <2> QED BY <1>1, <1>2, <2>1, AncestorsLeast DEF Common
<1>3. CASE ~(op[c].remoteheads \subseteq Held(c))
  BY <1>3 DEF Common
<1> QED BY <1>2, <1>3

LEMMA FindCommonSafe ==
    ASSUME IInv, NEW c \in Client, FindCommon(c)
    PROVE  IInv' /\ Later
<1> DEFINE o == [op[c] EXCEPT !.common = Common(c),
                              !.at = IF op[c].push THEN "phases" ELSE "pull"]
<1>1. op[c].at = "common" /\ Unchanged
  BY DEF FindCommon
<1>2. /\ op[c] \in Operation /\ Carried(c) /\ c \in Repo
  BY <1>1, OperationIs
<1>3. CASE Update(c, Idle)
  BY <1>1, <1>3, OnlyOp
<1>4. CASE Update(c, o)
  <2>1. Common(c) \subseteq Held(c) \cap Served(Server) /\ Held(c) \subseteq Nodes(graph)
    BY <1>1, <1>2, CommonIs, HeldIs
  <2>2. o \in Operation
    <3>1. Common(c) \in SUBSET (1..MaxNode)
      BY <2>1, Fits
    <3> QED BY <1>2, <3>1 DEF Operation
  <2>3. op'[c] = o
    BY <1>4 DEF Update, IInv, TypeOK
  <2>4. /\ o.remoteheads = op[c].remoteheads /\ o.common = Common(c)
        /\ o.outdated = op[c].outdated /\ o.at \in {"phases", "pull"}
    BY <1>2 DEF Operation
  <2>5. Carried(c)'
    BY <1>1, <1>2, <2>1, <2>3, <2>4 DEF Carried, Unchanged, Held, Served
  <2> QED BY <1>1, <1>4, <2>2, <2>5, OnlyOp
<1> QED BY <1>3, <1>4 DEF FindCommon, Stop

\* What is found to be outdated is public here, or to be published, and is
\* among the ancestors of the heads that were asked for.
LEMMA OutdatedIs ==
    ASSUME IInv, NEW c \in Client, NEW D, NEW S, S \subseteq Held(c)
    PROVE  /\ Outdated(c, D, S) \subseteq Ancestors(graph, S)
           /\ \A n \in Outdated(c, D, S) : n \in Held(c) /\ (publishing \/ phase[c][n] = public)
<1>1. c \in Repo /\ IsGraph(graph)
  BY DEF Repo, IInv, Closed
<1>2. /\ Ancestors(Log(c), S) = Ancestors(graph, S)
      /\ DownClosed(graph, Held(c)) /\ Held(c) \subseteq Nodes(graph)
  BY <1>1, HeldIs
<1>3. Ancestors(graph, S) \subseteq Held(c)
  BY <1>1, <1>2, AncestorsLeast
<1>4. ASSUME NEW n \in Outdated(c, D, S)
      PROVE  n \in Ancestors(Log(c), S) /\ (publishing \/ phase[c][n] = public)
  BY DEF Outdated, HeadsOf, Between
<1> QED BY <1>2, <1>3, <1>4

LEMMA FindOutdatedSafe ==
    ASSUME IInv, NEW c \in Client, FindOutdated(c)
    PROVE  IInv' /\ Later
<1> DEFINE droots == DraftRoots(Server) \cap Held(c)
           fdroots == RootsOf(graph, Missing(c) \cup Descendants(Log(c), droots))
           X == Outdated(c, droots, CommonHeads(c))
           Y == Outdated(c, fdroots, ServedHeads(c))
           out == IF Missing(c) = {} THEN X ELSE Y
           to == IF Missing(c) = {} THEN (IF c \in Bundle2 THEN "apply" ELSE "sync") ELSE "check"
           o == [op[c] EXCEPT !.outdated = out, !.at = to]
<1>1. op[c].at = "phases" /\ Unchanged /\ Update(c, o)
  BY DEF FindOutdated
<1>2. /\ op[c] \in Operation /\ Carried(c) /\ c \in Repo /\ Server \in Repo /\ c # Server
  BY <1>1, OperationIs
<1>3. /\ Held(c) \subseteq Nodes(graph) /\ Served(c) \subseteq Held(c) /\ IsGraph(graph)
      /\ DownClosed(graph, Held(c)) /\ DownClosed(graph, Served(c))
      /\ DownClosed(graph, Held(Server)) /\ Served(Server) \subseteq Held(Server)
  BY <1>2, HeldIs DEF IInv, Closed
<1>4. /\ X \subseteq Held(Server) \cap Held(c)
      /\ \A n \in X : n \in Held(c) /\ (publishing \/ phase[c][n] = public)
  <2>1. CommonHeads(c) \subseteq Held(c) \cap Held(Server) /\ CommonHeads(c) \subseteq Nodes(graph)
    BY <1>2, <1>3 DEF CommonHeads, HeadsOf, Carried
  <2>2. Ancestors(graph, CommonHeads(c)) \subseteq Held(c) \cap Held(Server)
    BY <1>3, <2>1, AncestorsLeast
  <2> HIDE DEF droots
  <2> QED BY <2>1, <2>2, OutdatedIs
<1>5. /\ Y \subseteq Served(c)
      /\ \A n \in Y : n \in Held(c) /\ (publishing \/ phase[c][n] = public)
  <2>1. ServedHeads(c) \subseteq Served(c) /\ ServedHeads(c) \subseteq Nodes(graph)
        /\ ServedHeads(c) \subseteq Held(c)
    BY <1>3 DEF ServedHeads, HeadsOf
  <2>2. Ancestors(graph, ServedHeads(c)) \subseteq Served(c)
    BY <1>3, <2>1, AncestorsLeast
  <2> HIDE DEF fdroots
  <2> QED BY <2>1, <2>2, OutdatedIs
<1>6. X \subseteq Served(c)
  BY <1>2, <1>4, BothServe
<1> HIDE DEF X, Y
<1>7. /\ to \in {"apply", "sync", "check"}
      /\ to \in {"check", "apply", "unbundle"} => out \subseteq Served(c)
      /\ to \in {"sync", "keys"} => out \subseteq Held(Server)
      /\ \A n \in out : n \in Held(c) /\ (publishing \/ phase[c][n] = public)
      /\ out \subseteq Nodes(graph)
      /\ to \in {"sync", "keys"} => Missing(c) = {}
  BY <1>3, <1>4, <1>5, <1>6
<1> HIDE DEF to, out
<1>8. o \in Operation
  <2>1. out \in SUBSET (1..MaxNode)
    BY <1>7, Fits
  <2> QED BY <1>2, <1>7, <2>1 DEF Operation
<1>9. /\ op'[c] = o /\ o.remoteheads = op[c].remoteheads /\ o.common = op[c].common
      /\ o.outdated = out /\ o.at = to /\ o.cgresult = op[c].cgresult
  BY <1>1, <1>2 DEF Update, IInv, TypeOK, Operation
<1> HIDE DEF o
<1>10. to \in {"sync", "keys"} => Served(c) \subseteq Held(Server)
  BY <1>2, <1>3, <1>7 DEF Missing, Carried
<1>11. /\ UNCHANGED <<graph, phase, publishing, released>>
       /\ \A r \in Repo : Held(r)' = Held(r) /\ Served(r)' = Served(r)
  BY <1>1 DEF Unchanged, Held, Served
<1>12. Carried(c)'
  BY <1>2, <1>7, <1>9, <1>10, <1>11 DEF Carried
<1> QED BY <1>1, <1>8, <1>12, OnlyOp

\* The steps that only move to another one, or stop
LEMMA GotoSafe ==
    ASSUME IInv, NEW c \in Client, Unchanged,
           \/ Stop(c)
           \/ op[c].at = "check" /\ Goto(c, "apply")
           \/ op[c].at = "apply" /\ Goto(c, "unbundle")
    PROVE  IInv' /\ Later
<1>1. CASE Stop(c)
  BY <1>1, OnlyOp DEF Stop
<1>2. ASSUME NEW to \in {"apply", "unbundle"}, op[c].at \in {"check", "apply"}, Goto(c, to)
      PROVE  IInv' /\ Later
  <2> DEFINE o == [op[c] EXCEPT !.at = to]
  <2>1. op[c] \in Operation /\ Carried(c) /\ Update(c, o)
    BY <1>2, OperationIs DEF Goto
  <2>2. o \in Operation
    BY <1>2, <2>1 DEF Operation
  <2>3. /\ op'[c] = o /\ o.remoteheads = op[c].remoteheads /\ o.common = op[c].common
        /\ o.outdated = op[c].outdated /\ o.at = to /\ o.cgresult = op[c].cgresult
    BY <2>1 DEF Update, IInv, TypeOK, Operation
  <2> HIDE DEF o
  <2>4. Carried(c)'
    BY <1>2, <2>1, <2>3 DEF Carried, Unchanged, Held, Served
  <2> QED BY <2>1, <2>2, <2>4, OnlyOp
<1> QED BY <1>1, <1>2

LEMMA WaitingSafe ==
    ASSUME IInv, NEW c \in Client, CheckHeads(c) \/ CheckRace(c) \/ Die(c)
    PROVE  IInv' /\ Later
BY GotoSafe DEF CheckHeads, CheckRace, Die

-----------------------------------------------------------------------------
(* The steps that change a repository                                      *)

\* When no changeset is made and nothing released
LEMMA MovesHere ==
    ASSUME IInv, NEW r \in Repo, NEW H, NEW new \in [H -> allphases],
           UNCHANGED <<graph, publishing, released>>, phase' = [phase EXCEPT ![r] = new],
           Held(r) \subseteq H, H \subseteq Nodes(graph), DownClosed(graph, H),
           \A n \in H : \A p \in graph[n] : new[p] <= new[n],
           \A n \in Held(r) : new[n] <= phase[r][n],
           \A n \in H \ Held(r) : new[n] # secret /\ \E q \in Repo \ {r} : n \in Served(q),
           \A n \in H : new[n] = public =>
               \/ n \in released
               \/ \E q \in Repo : n \in Held(q) /\ phase[q][n] = public
               \/ publishing /\ (r # Server => n \in Held(Server))
    PROVE  Moves(r, H, new)
<1>1. IsGraph(graph') /\ Nodes(graph') = Nodes(graph) /\ Nodes(graph) \subseteq 1..MaxNode
  BY DEF IInv, Closed, TypeOK
<1>2. released \subseteq released' /\ released' \subseteq Nodes(graph') /\ DownClosed(graph', released')
  BY <1>1 DEF IInv, Closed, TypeOK
<1>3. \A n \in H : graph'[n] \subseteq H
  BY DEF DownClosed
<1>4. \A n \in H : new[n] = public => n \in released' \/ (publishing /\ (r # Server => n \in Held(Server)))
  BY DEF IInv, NothingEscapes
<1> QED BY <1>1, <1>2, <1>3, <1>4 DEF Moves

LEMMA CommitSafe ==
    ASSUME IInv, NEW r \in Repo, NEW P \in ParentSets(Log(r)), NEW t \in {draft, secret},
           Commit(r, P, t)
    PROVE  IInv' /\ Later
<1> DEFINE n == NextNode(graph)
           g == Added(Log(r), n, P)
           inherited == Inherited(g, phase[r])
           new == Retracted(g, inherited, t, {n})
           H == Held(r) \cup {n}
<1>1. /\ Unlocked(r) /\ n <= MaxNode /\ graph' = Added(graph, n, P)
      /\ phase' = [phase EXCEPT ![r] = new] /\ UNCHANGED <<publishing, op, released>>
  BY DEF Commit
<1>2. /\ IsGraph(graph) /\ Nodes(graph) \subseteq 1..MaxNode /\ MaxNode \in Nat
      /\ released \subseteq Nodes(graph) /\ DownClosed(graph, released)
  BY BoundAssumption DEF IInv, Closed, TypeOK
<1>3. n \in Nat \ {0} /\ n \notin Nodes(graph) /\ \A m \in Nodes(graph) : m < n
  BY <1>2, NextIsNew
<1>4. /\ Held(r) \subseteq Nodes(graph) /\ DownClosed(graph, Held(r))
      /\ Nodes(Log(r)) = Held(r) /\ IsGraph(Log(r)) /\ \A m \in Held(r) : Log(r)[m] = graph[m]
      /\ phase[r] \in [Held(r) -> allphases]
  BY HeldIs DEF IInv, TypeOK
<1>5. P \subseteq Held(r) /\ P \subseteq Nodes(graph)
  BY <1>4 DEF ParentSets
<1> HIDE DEF n
<1>6. /\ Nodes(graph') = Nodes(graph) \cup {n} /\ graph'[n] = P
      /\ \A m \in Nodes(graph) : graph'[m] = graph[m]
      /\ IsGraph(graph')
  BY <1>1, <1>2, <1>3, <1>5, AddedGraph
<1>7. /\ Nodes(g) = H /\ n \notin Held(r) /\ g[n] = P
      /\ \A m \in Held(r) : g[m] = graph[m]
      /\ IsGraph(g) /\ DownClosed(g, Held(r))
  BY <1>3, <1>4, <1>5, AddedGraph
<1> HIDE DEF g
<1>8. /\ IsPhases(g, inherited) /\ Ordered(g, inherited)
      /\ \A m \in Held(r) : inherited[m] = phase[r][m]
  <2>1. \A m \in Held(r) : \A p \in g[m] : phase[r][p] <= phase[r][m]
    BY <1>7 DEF IInv, Whole
  <2>2. Held(r) \subseteq Nodes(g)
    BY <1>7
  <2> QED BY <1>4, <1>7, <2>1, <2>2, InheritedIs
<1> HIDE DEF inherited
<1>9. /\ IsPhases(g, new) /\ Ordered(g, new)
      /\ \A m \in Nodes(g) : /\ m \notin Descendants(g, {n}) => new[m] = inherited[m]
                             /\ m \in Descendants(g, {n}) => t <= new[m]
  <2>1. t \in allphases
    BY PhaseNumbers
  <2> QED BY <1>7, <1>8, <2>1, RetractedIs
<1> HIDE DEF new
<1>10. Descendants(g, {n}) = {n}
  <2>1. UpClosed(g, {n})
    <3> SUFFICES ASSUME NEW m \in Nodes(g), n \in g[m] PROVE FALSE
      BY DEF UpClosed
    <3>1. n \notin P
      BY <1>3, <1>5
    <3>2. m \in Held(r)
      BY <1>7, <3>1
    <3> QED BY <1>7, <3>2 DEF DownClosed
  <2>2. Descendants(g, {n}) \subseteq {n}
    BY <1>7, <2>1, DescendantsLeast
  <2>3. n \in Descendants(g, {n})
    BY <1>7, DescendantsClosed
  <2> QED BY <2>2, <2>3
<1>11. /\ new \in [H -> allphases] /\ draft <= new[n]
       /\ \A m \in Held(r) : new[m] = phase[r][m]
  <2>1. n \in H /\ new[n] \in allphases /\ t <= new[n]
    BY <1>7, <1>9, <1>10 DEF IsPhases
  <2>2. draft <= new[n]
    BY <2>1, PhaseNumbers
  <2>3. \A m \in Held(r) : m \in Nodes(g) /\ m \notin Descendants(g, {n})
    BY <1>7, <1>10
  <2> QED BY <1>7, <1>8, <1>9, <2>2, <2>3 DEF IsPhases
<1>12. \A m \in H : graph'[m] \subseteq H /\ \A p \in graph'[m] : new[p] <= new[m]
  <2> SUFFICES ASSUME NEW m \in H
               PROVE  graph'[m] \subseteq H /\ \A p \in graph'[m] : new[p] <= new[m]
    OBVIOUS
  <2>1. graph'[m] = g[m]
    BY <1>4, <1>6, <1>7
  <2>2. g[m] \subseteq H
    BY <1>7 DEF IsGraph
  <2> QED BY <1>7, <1>9, <2>1, <2>2 DEF Ordered
<1>13. Moves(r, H, new)
  <2>1. Nodes(graph') \subseteq 1..MaxNode
    BY <1>1, <1>2, <1>3, <1>6
  <2>2. DownClosed(graph', released')
    BY <1>1, <1>2, <1>6 DEF DownClosed
  <2>3. \A m \in Held(r) : new[m] <= phase[r][m]
    BY <1>4, <1>11, PhaseNumbers
  <2>4. \A m \in H : new[m] = public => m \in released' \/ (publishing /\ (r # Server => m \in Held(Server)))
    BY <1>1, <1>11, PhaseNumbers DEF IInv, NothingEscapes
  <2>5. \A m \in H \ Held(r) : m \notin Nodes(graph)
    BY <1>3
  <2> QED BY <1>1, <1>2, <1>4, <1>6, <1>11, <1>12, <2>1, <2>2, <2>3, <2>4, <2>5 DEF Moves
<1>14. \A c \in Client : op'[c] = Idle \/ (op'[c] = op[c] /\ c # r)
  BY <1>1 DEF Unlocked, Busy
<1>15. op' \in [Client -> Operation \cup {Idle}]
  BY <1>1 DEF IInv, TypeOK
<1> HIDE DEF H
<1> QED BY <1>13, <1>14, <1>15, StepSafe

LEMMA LowerPhaseSafe ==
    ASSUME IInv, NEW r \in Repo, NEW n \in Held(r), NEW t \in {public, draft},
           LowerPhase(r, n, t)
    PROVE  IInv' /\ Later
<1> DEFINE new == Advanced(Log(r), phase[r], t, {n})
           A == Ancestors(graph, {n})
           H == Held(r)
<1>1. /\ Unlocked(r) /\ phase' = [phase EXCEPT ![r] = new]
      /\ released' = released \cup (IF t = public THEN A ELSE {})
      /\ UNCHANGED <<graph, publishing, op>>
  BY DEF LowerPhase
<1>2. /\ Held(r) \subseteq Nodes(graph) /\ DownClosed(graph, Held(r))
      /\ Nodes(Log(r)) = Held(r) /\ IsGraph(Log(r)) /\ \A m \in Held(r) : Log(r)[m] = graph[m]
      /\ Ancestors(Log(r), {n}) = Ancestors(graph, {n})
      /\ IsPhases(Log(r), phase[r]) /\ Ordered(Log(r), phase[r])
  BY HeldIs
<1>3. /\ IsPhases(Log(r), new) /\ Ordered(Log(r), new)
      /\ \A m \in Held(r) : /\ new[m] <= phase[r][m] /\ new[m] \in {phase[r][m], t}
                            /\ m \notin A => new[m] = phase[r][m]
  <2>1. t \in allphases /\ {n} \subseteq Nodes(Log(r))
    BY <1>2, PhaseNumbers
  <2>2. /\ IsPhases(Log(r), new)
        /\ \A m \in Nodes(Log(r)) : /\ new[m] <= phase[r][m] /\ new[m] \in {phase[r][m], t}
                                    /\ m \notin Ancestors(Log(r), {n}) => new[m] = phase[r][m]
        /\ Ordered(Log(r), new)
    BY <1>2, <2>1, AdvancedIs
  <2> HIDE DEF new
  <2> QED BY <1>2, <2>2
<1> HIDE DEF new
<1>4. /\ IsGraph(graph) /\ Nodes(graph) \subseteq 1..MaxNode
      /\ released \subseteq Nodes(graph) /\ DownClosed(graph, released)
  BY DEF IInv, Closed, TypeOK
<1>5. A \subseteq Nodes(graph) /\ DownClosed(graph, A)
  BY <1>2, <1>4, AncestorsClosed
<1>6. released' \subseteq Nodes(graph) /\ DownClosed(graph, released') /\ released \subseteq released'
  BY <1>1, <1>4, <1>5 DEF DownClosed
<1>7. \A m \in Held(r) : new[m] = public => m \in released' \/ (publishing /\ (r # Server => m \in Held(Server)))
  <2> SUFFICES ASSUME NEW m \in Held(r), new[m] = public
               PROVE  m \in released' \/ (publishing /\ m \in Held(Server))
    OBVIOUS
  <2>1. CASE phase[r][m] = public
    BY <1>6, <2>1 DEF IInv, NothingEscapes
  <2>2. CASE phase[r][m] # public
    <3>1. m \in A /\ t = public
      BY <1>3, <2>2
    <3> QED BY <1>1, <3>1
  <2> QED BY <2>1, <2>2
<1>8. Moves(r, H, new)
  <2>1. new \in [H -> allphases] /\ \A m \in H : \A p \in graph[m] : new[p] <= new[m]
    BY <1>2, <1>3 DEF IsPhases, Ordered
  <2>2. \A m \in H : graph[m] \subseteq H
    BY <1>2 DEF DownClosed
  <2> QED BY <1>1, <1>2, <1>3, <1>4, <1>6, <1>7, <2>1, <2>2 DEF Moves
<1>9. \A c \in Client : op'[c] = Idle \/ (op'[c] = op[c] /\ c # r)
  BY <1>1 DEF Unlocked, Busy
<1>10. op' \in [Client -> Operation \cup {Idle}]
  BY <1>1 DEF IInv, TypeOK
<1> QED BY <1>8, <1>9, <1>10, StepSafe

\* Making changesets of H public, in H and only of H
LEMMA PublishedIs ==
    ASSUME IInv, NEW H, H \subseteq Nodes(graph), DownClosed(graph, H), NEW S, S \subseteq H,
           NEW ph \in [H -> allphases], \A n \in H : \A p \in graph[n] : ph[p] <= ph[n]
    PROVE  LET new == Advanced(Restricted(graph, H), ph, public, S)
           IN  /\ new \in [H -> allphases]
               /\ \A n \in H : \A p \in graph[n] : new[p] <= new[n]
               /\ \A n \in H : /\ new[n] <= ph[n]
                               /\ n \notin Ancestors(graph, S) => new[n] = ph[n]
               /\ \A n \in Ancestors(graph, S) : n \in H /\ new[n] = public
<1> DEFINE g == Restricted(graph, H)
           new == Advanced(g, ph, public, S)
<1>1. /\ Nodes(g) = H /\ IsGraph(g) /\ \A n \in H : g[n] = graph[n]
      /\ \A T \in SUBSET H : Ancestors(g, T) = Ancestors(graph, T)
  BY RestrictedGraph DEF IInv, Closed
<1>2. IsPhases(g, ph) /\ Ordered(g, ph) /\ public \in allphases
  BY <1>1, PhaseNumbers DEF IsPhases, Ordered
<1>3. /\ IsPhases(g, new) /\ Ordered(g, new)
      /\ \A n \in H : /\ new[n] <= ph[n]
                      /\ n \notin Ancestors(graph, S) => new[n] = ph[n]
                      /\ n \in Ancestors(graph, S) => new[n] <= public
  <2> HIDE DEF g
  <2> QED BY <1>1, <1>2, AdvancedIs
<1> HIDE DEF new
<1>4. new \in [H -> allphases] /\ \A n \in H : \A p \in graph[n] : new[p] <= new[n]
  BY <1>1, <1>3 DEF IsPhases, Ordered
<1>5. ASSUME NEW n \in Ancestors(graph, S) PROVE n \in H /\ new[n] = public
  <2>1. n \in H
    BY AncestorsLeast DEF IInv, Closed
  <2>2. new[n] \in {0, 1, 2} /\ new[n] <= 0
    BY <1>3, <1>4, <2>1, PhaseNumbers
  <2> QED BY <2>1, <2>2, PhaseNumbers
<1> QED BY <1>3, <1>4, <1>5 DEF new, g

\* What arrives with a bundle is served by the client that sends it.
LEMMA AppliedMoves ==
    ASSUME IInv, NEW c \in Client, op[c].common \subseteq Held(c) \cap Served(Server),
           NEW new \in [Held(Server) \cup Missing(c) -> allphases],
           \A n \in Held(Server) \cup Missing(c) :
               /\ \A p \in graph[n] : new[p] <= new[n]
               /\ new[n] <= Applied(c)[n]
               /\ new[n] = public =>
                      publishing \/ n \in released \/ \E q \in Repo : n \in Held(q) /\ phase[q][n] = public,
           phase' = [phase EXCEPT ![Server] = new], UNCHANGED <<graph, publishing, released>>
    PROVE  Moves(Server, Held(Server) \cup Missing(c), new)
<1> DEFINE H == Held(Server) \cup Missing(c)
           ph == Applied(c)
<1>1. Server \in Repo /\ c \in Repo /\ c # Server
  BY ServerAssumption DEF Repo
<1>2. /\ H \subseteq Nodes(graph) /\ DownClosed(graph, H) /\ Missing(c) \subseteq Served(c)
      /\ ph \in [H -> allphases]
      /\ \A n \in Held(Server) : ph[n] <= phase[Server][n]
      /\ \A n \in Missing(c) : ph[n] <= draft
  BY AppliedIs
<1>3. phase[Server] \in [Held(Server) -> allphases]
  BY <1>1 DEF IInv, TypeOK
<1> HIDE DEF ph
<1>4. ASSUME NEW n \in H
      PROVE new[n] \in {0, 1, 2} /\ ph[n] \in {0, 1, 2} /\ new[n] <= ph[n]
  BY <1>2, PhaseNumbers DEF ph
<1>5. ASSUME NEW n \in Held(Server) PROVE new[n] <= phase[Server][n]
  <2>1. phase[Server][n] \in {0, 1, 2} /\ n \in H /\ ph[n] <= phase[Server][n]
    BY <1>2, <1>3, PhaseNumbers
  <2>2. new[n] \in {0, 1, 2} /\ ph[n] \in {0, 1, 2} /\ new[n] <= ph[n]
    BY <1>4, <2>1
  <2> QED BY <2>1, <2>2
<1>6. ASSUME NEW n \in H \ Held(Server)
      PROVE  new[n] # secret /\ \E q \in Repo \ {Server} : n \in Served(q)
  <2>1. n \in H /\ n \in Served(c) /\ ph[n] <= 1
    BY <1>2, PhaseNumbers
  <2>2. new[n] \in {0, 1, 2} /\ ph[n] \in {0, 1, 2} /\ new[n] <= ph[n]
    BY <1>4, <2>1
  <2>3. new[n] # 2
    BY <2>1, <2>2
  <2> QED BY <1>1, <2>1, <2>3, PhaseNumbers
<1> QED BY <1>1, <1>2, <1>5, <1>6, MovesHere

LEMMA ApplyBundle1Safe ==
    ASSUME IInv, NEW c \in Client, ApplyBundle1(c)
    PROVE  IInv' /\ Later
<1> DEFINE H == Held(Server) \cup Missing(c)
           new == Applied(c)
           o == [op[c] EXCEPT !.at = "sync", !.cgresult = TRUE]
<1>1. /\ op[c].at = "unbundle" /\ phase' = [phase EXCEPT ![Server] = new]
      /\ op' = [op EXCEPT ![c] = o] /\ UNCHANGED <<graph, publishing, released>>
  BY DEF ApplyBundle1, Update
<1>2. /\ op[c] \in Operation /\ Carried(c) /\ Server \in Repo /\ c \in Repo /\ c # Server
  BY <1>1, OperationIs
<1>3. op[c].common \subseteq Held(c) \cap Served(Server)
  BY <1>2 DEF Carried
<1>4. /\ Served(c) \subseteq H /\ new \in [H -> allphases]
      /\ \A n \in H : \A p \in graph[n] : new[p] <= new[n]
      /\ \A n \in H : new[n] = public => publishing \/ (n \in Held(Server) /\ phase[Server][n] = public)
  BY <1>3, AppliedIs
<1>5. \A n \in H : new[n] <= new[n]
  BY <1>4, PhaseNumbers
<1>6. Moves(Server, H, new)
  BY <1>1, <1>2, <1>3, <1>4, <1>5, AppliedMoves
<1> HIDE DEF new, H
<1>7. /\ Held(Server)' = H /\ Served(Server) \subseteq Served(Server)'
      /\ phase'[c] = phase[c]
  <2>1. Held(Server)' = H /\ \A q \in Repo : Served(q) \subseteq Served(q)' /\ (q # Server => phase'[q] = phase[q])
    BY <1>2, <1>6, MovesSafe
  <2> QED BY <1>2, <2>1
<1>8. o \in Operation
  BY <1>2 DEF Operation
<1>9. /\ op'[c] = o /\ o.remoteheads = op[c].remoteheads /\ o.common = op[c].common
      /\ o.outdated = op[c].outdated /\ o.at = "sync"
      /\ op' \in [Client -> Operation \cup {Idle}] /\ \A d \in Client \ {c} : op'[d] = op[d]
  BY <1>1, <1>2, <1>8 DEF IInv, TypeOK, Operation
<1> HIDE DEF o
<1>10. Held(c)' = Held(c) /\ Served(c)' = Served(c)
  BY <1>7 DEF Held, Served
<1>11. Carried(c)'
  BY <1>1, <1>2, <1>4, <1>7, <1>9, <1>10 DEF Carried
<1>12. \A d \in Client : d # Server
  BY ServerAssumption
<1> QED BY <1>2, <1>6, <1>9, <1>11, <1>12, StepSafe

\* The whole of a bundle2: its changesets, then its phases.
LEMMA ApplyBundle2Is ==
    ASSUME IInv, NEW c \in Client, op[c].at = "apply",
           phase' = [phase EXCEPT ![Server] = PushedKeys(c, Applied(c))],
           UNCHANGED <<graph, publishing, released>>
    PROVE  LET H == Held(Server) \cup Missing(c)
               new == PushedKeys(c, Applied(c))
           IN  /\ Moves(Server, H, new) /\ Served(c) \subseteq H
               /\ \A n \in H : new[n] <= Applied(c)[n]
               /\ \A n \in H : n \notin Ancestors(graph, op[c].outdated) => new[n] = Applied(c)[n]
               /\ \A n \in Ancestors(graph, op[c].outdated) : n \in H /\ new[n] = public
<1> DEFINE H == Held(Server) \cup Missing(c)
           ph == Applied(c)
           S == op[c].outdated
           new == PushedKeys(c, ph)
<1>1. /\ op[c] \in Operation /\ Carried(c) /\ Server \in Repo /\ c \in Repo /\ c # Server
  BY OperationIs
<1>2. op[c].common \subseteq Held(c) \cap Served(Server) /\ S \subseteq Served(c)
  BY <1>1 DEF Carried
<1>3. /\ H \subseteq Nodes(graph) /\ DownClosed(graph, H) /\ Served(c) \subseteq H
      /\ ph \in [H -> allphases]
      /\ \A n \in H : \A p \in graph[n] : ph[p] <= ph[n]
      /\ \A n \in H : ph[n] = public => publishing \/ (n \in Held(Server) /\ phase[Server][n] = public)
  BY <1>2, AppliedIs
<1>4. new = Advanced(Restricted(graph, H), ph, public, S) /\ S \subseteq H
  <2>1. DOMAIN ph = H
    BY <1>3
  <2> QED BY <1>2, <1>3, <2>1 DEF PushedKeys
<1>5. /\ new \in [H -> allphases]
      /\ \A n \in H : \A p \in graph[n] : new[p] <= new[n]
      /\ \A n \in H : /\ new[n] <= ph[n]
                      /\ n \notin Ancestors(graph, S) => new[n] = ph[n]
      /\ \A n \in Ancestors(graph, S) : n \in H /\ new[n] = public
  <2> HIDE DEF H, new, ph, S
  <2> QED BY <1>3, <1>4, PublishedIs
<1> HIDE DEF new
<1>6. ASSUME NEW n \in Ancestors(graph, S)
      PROVE  publishing \/ n \in released
  <2>1. S \subseteq Nodes(graph) /\ IsGraph(graph) /\ DownClosed(graph, released)
    BY <1>3, <1>4 DEF IInv, Closed
  <2>2. CASE ~publishing
    <3>1. \A m \in S : m \in Held(c) /\ phase[c][m] = public
      BY <1>1, <2>2 DEF Carried
    <3>2. S \subseteq released
      BY <1>1, <2>2, <3>1 DEF IInv, NothingEscapes
    <3> QED BY <2>1, <3>2, AncestorsLeast
  <2> QED BY <2>2
<1>7. \A n \in H : new[n] = public =>
          publishing \/ n \in released \/ \E q \in Repo : n \in Held(q) /\ phase[q][n] = public
  BY <1>1, <1>3, <1>5, <1>6
<1>8. Moves(Server, H, new)
  <2>1. phase' = [phase EXCEPT ![Server] = new]
    BY DEF new
  <2>2. \A n \in H : /\ \A p \in graph[n] : new[p] <= new[n]
                     /\ new[n] <= Applied(c)[n]
    BY <1>5
  <2> HIDE DEF ph
  <2> QED BY <1>2, <1>5, <1>7, <2>1, <2>2, AppliedMoves
<1> QED BY <1>3, <1>5, <1>8 DEF new

LEMMA ApplyBundle2Safe ==
    ASSUME IInv, NEW c \in Client, ApplyBundle2(c)
    PROVE  IInv' /\ Later
<1> DEFINE H == Held(Server) \cup Missing(c)
           new == PushedKeys(c, Applied(c))
           o == [op[c] EXCEPT !.at = "sync", !.cgresult = Missing(c) # {}]
<1>1. op[c].at = "apply"
  BY DEF ApplyBundle2
<1>2. CASE Stop(c) /\ Unchanged
  BY <1>2, GotoSafe
<1>3. CASE phase' = [phase EXCEPT ![Server] = new] /\ Update(c, o) /\ UNCHANGED <<graph, publishing, released>>
  <2>1. /\ op[c] \in Operation /\ Carried(c) /\ Server \in Repo /\ c \in Repo /\ c # Server
    BY <1>1, OperationIs
  <2>2. Moves(Server, H, new) /\ Served(c) \subseteq H
    BY <1>1, <1>3, ApplyBundle2Is
  <2> HIDE DEF new, H
  <2>3. /\ Held(Server)' = H /\ Served(Server) \subseteq Served(Server)'
        /\ phase'[c] = phase[c]
    <3>1. Held(Server)' = H /\ \A q \in Repo : Served(q) \subseteq Served(q)' /\ (q # Server => phase'[q] = phase[q])
      BY <2>1, <2>2, MovesSafe
    <3> QED BY <2>1, <3>1
  <2>4. o \in Operation
    BY <2>1 DEF Operation
  <2>5. /\ op'[c] = o /\ o.remoteheads = op[c].remoteheads /\ o.common = op[c].common
        /\ o.outdated = op[c].outdated /\ o.at = "sync"
        /\ op' \in [Client -> Operation \cup {Idle}] /\ \A d \in Client \ {c} : op'[d] = op[d]
    BY <1>3, <2>1, <2>4 DEF IInv, TypeOK, Operation, Update
  <2> HIDE DEF o
  <2>6. Held(c)' = Held(c) /\ Served(c)' = Served(c)
    BY <2>3 DEF Held, Served
  <2>7. Carried(c)'
    BY <1>1, <1>3, <2>1, <2>2, <2>3, <2>5, <2>6 DEF Carried
  <2>8. \A d \in Client : d # Server
    BY ServerAssumption
  <2> QED BY <2>1, <2>2, <2>5, <2>7, <2>8, StepSafe
<1> QED BY <1>2, <1>3 DEF ApplyBundle2

\* What was pushed is at the server and here.
LEMMA PushedIs ==
    ASSUME IInv, NEW c \in Client, op[c].at \in {"sync", "keys"}
    PROVE  Pushed(c) \subseteq Held(c) /\ Pushed(c) \subseteq Served(Server)
<1>1. /\ op[c] \in Operation /\ Carried(c) /\ Server \in Repo /\ c \in Repo /\ c # Server
  BY OperationIs
<1>2. CASE op[c].cgresult
  <2>1. Pushed(c) \subseteq Served(c) /\ Served(c) \subseteq Held(c)
    BY <1>1, <1>2, HeldIs DEF Pushed, ServedHeads, HeadsOf
  <2>2. Served(c) \subseteq Held(Server)
    BY <1>1, <1>2 DEF Carried
  <2> QED BY <1>1, <2>1, <2>2, BothServe
<1>3. CASE ~op[c].cgresult
  <2>1. Pushed(c) \subseteq op[c].common
    BY <1>3 DEF Pushed, CommonHeads, HeadsOf
  <2> QED BY <1>1, <2>1 DEF Carried
<1> QED BY <1>2, <1>3

\* The phases of the server arrive at c.
LEMMA SyncIs ==
    ASSUME IInv, NEW c \in Client, SyncPhases(c)
    PROVE  LET new == Synchronized(Log(c), phase[c], Pushed(c))
           IN  /\ phase' = [phase EXCEPT ![c] = new] /\ Moves(c, Held(c), new)
               /\ \A n \in Held(c) : /\ new[n] <= phase[c][n] /\ new[n] \in {public, draft, secret}
                                     /\ new[n] # phase[c][n] => n \in Held(Server)
                                     /\ new[n] = public /\ phase[c][n] # public =>
                                            publishing \/ phase[Server][n] = public
               /\ Served(c)' = Served(c)
<1> DEFINE H == Held(c)
           new == Synchronized(Log(c), phase[c], Pushed(c))
<1>1. /\ op[c].at = "sync" /\ phase' = [phase EXCEPT ![c] = new]
      /\ UNCHANGED <<graph, publishing, released>>
  BY DEF SyncPhases
<1>2. /\ op[c] \in Operation /\ Carried(c) /\ Server \in Repo /\ c \in Repo /\ c # Server
  BY <1>1, OperationIs
<1>3. /\ H \subseteq Nodes(graph) /\ DownClosed(graph, H) /\ phase[c] \in [H -> allphases]
      /\ \A n \in H : \A p \in graph[n] : phase[c][p] <= phase[c][n]
  BY <1>2, HeldIs DEF IInv, TypeOK, Whole
<1>4. Pushed(c) \subseteq H /\ Pushed(c) \subseteq Served(Server)
  BY <1>1, PushedIs
<1>5. /\ new \in [H -> allphases]
      /\ \A n \in H : \A p \in graph[n] : new[p] <= new[n]
      /\ \A n \in H : /\ new[n] <= phase[c][n]
                      /\ new[n] # phase[c][n] => n \in Held(Server)
                      /\ new[n] = public /\ phase[c][n] # public =>
                             publishing \/ phase[Server][n] = public
  BY <1>3, <1>4, SynchronizedIs DEF Log
<1> HIDE DEF new
<1>6. \A n \in H : new[n] = public =>
          \/ n \in released
          \/ \E q \in Repo : n \in Held(q) /\ phase[q][n] = public
          \/ publishing /\ (c # Server => n \in Held(Server))
  <2> SUFFICES ASSUME NEW n \in H, new[n] = public, phase[c][n] # public
               PROVE  \/ \E q \in Repo : n \in Held(q) /\ phase[q][n] = public
                      \/ publishing /\ n \in Held(Server)
    BY <1>2
  <2> QED BY <1>2, <1>5
<1>7. Moves(c, H, new)
  BY <1>1, <1>2, <1>3, <1>5, <1>6, MovesHere
<1>8. Held(c)' = H /\ phase'[c] = new
  BY <1>2, <1>7, MovesSafe
<1>9. \A n \in H : new[n] \in {public, draft, secret} /\ phase[c][n] \in {public, draft, secret}
  BY <1>3, <1>5, PhaseNumbers
<1>10. ASSUME NEW n \in H PROVE new[n] < secret <=> phase[c][n] < secret
  <2>1. CASE new[n] = phase[c][n]
    BY <2>1
  <2>2. CASE new[n] # phase[c][n]
    <3>1. n \in Served(c)
      BY <1>2, <1>5, <2>2, BothServe
    <3>2. phase[c][n] < secret /\ new[n] <= phase[c][n]
      BY <1>5, <3>1 DEF Served
    <3> QED BY <1>9, <3>2, PhaseNumbers
  <2> QED BY <2>1, <2>2
<1>11. Served(c)' = Served(c)
  BY <1>8, <1>10 DEF Served
<1> QED BY <1>1, <1>5, <1>7, <1>9, <1>11 DEF new

LEMMA SyncPhasesSafe ==
    ASSUME IInv, NEW c \in Client, SyncPhases(c)
    PROVE  IInv' /\ Later
<1> DEFINE new == Synchronized(Log(c), phase[c], Pushed(c))
           outdated == op[c].outdated \ PublicHeads(Log(c), Pushed(c))
           o == [op[c] EXCEPT !.at = "keys", !.outdated = outdated]
<1>1. /\ Update(c, Idle) \/ Update(c, o)
      /\ UNCHANGED <<graph, publishing, released>>
  BY DEF SyncPhases, Stop
<1>2. op[c].at = "sync"
  BY DEF SyncPhases
<1>3. /\ op[c] \in Operation /\ Carried(c) /\ Server \in Repo /\ c \in Repo /\ c # Server
  BY <1>2, OperationIs
<1>4. /\ Moves(c, Held(c), new) /\ Served(c)' = Served(c)
      /\ \A n \in Held(c) : new[n] <= phase[c][n] /\ new[n] \in {public, draft, secret}
  BY SyncIs
<1> HIDE DEF new
<1>5. /\ Held(c)' = Held(c) /\ phase'[c] = new
      /\ phase'[Server] = phase[Server]
  <2>1. Held(c)' = Held(c) /\ phase'[c] = new /\ \A q \in Repo : q # c => phase'[q] = phase[q]
    BY <1>3, <1>4, MovesSafe
  <2> QED BY <1>3, <2>1
<1>6. Held(Server)' = Held(Server) /\ Served(Server)' = Served(Server)
  BY <1>5 DEF Held, Served
<1>7. o \in Operation
  BY <1>3 DEF Operation
<1>8. Update(c, o) =>
      /\ op'[c] = o /\ o.remoteheads = op[c].remoteheads /\ o.common = op[c].common
      /\ o.outdated = outdated /\ o.at = "keys" /\ o.cgresult = op[c].cgresult
  BY <1>3 DEF IInv, TypeOK, Operation, Update
<1>9. \A n \in outdated : n \in Held(c) /\ (publishing \/ new[n] = public)
  <2> TAKE n \in outdated
  <2>1. n \in Held(c) /\ (publishing \/ phase[c][n] = public)
    BY <1>3 DEF Carried
  <2>2. new[n] <= phase[c][n] /\ new[n] \in {public, draft, secret}
    BY <1>4, <2>1
  <2> QED BY <2>1, <2>2, PhaseNumbers
<1>10. outdated \subseteq op[c].outdated
  OBVIOUS
<1> HIDE DEF o, outdated
<1>11. Update(c, o) => Carried(c)'
  BY <1>1, <1>2, <1>3, <1>4, <1>5, <1>6, <1>8, <1>9, <1>10 DEF Carried
<1>12. /\ op' \in [Client -> Operation \cup {Idle}]
       /\ op'[c] = Idle \/ Update(c, o)
       /\ \A d \in Client \ {c} : op'[d] = op[d]
  <2>1. op \in [Client -> Operation \cup {Idle}]
    BY DEF IInv, TypeOK
  <2> QED BY <1>1, <1>7, <2>1 DEF Update
<1> QED BY <1>3, <1>4, <1>11, <1>12, StepSafe

LEMMA PushKeySafe ==
    ASSUME IInv, NEW c \in Client, NEW n, PushKey(c, n)
    PROVE  IInv' /\ Later
<1> DEFINE H == Held(Server)
           ph == phase[Server]
           new == IF ph[n] > draft THEN ph ELSE Advanced(Log(Server), ph, public, {n})
           rest == op[c].outdated \ {n}
           o == [op[c] EXCEPT !.outdated = rest]
<1>1. /\ op[c].at = "keys" /\ n \in op[c].outdated
      /\ phase' = [phase EXCEPT ![Server] = new] /\ UNCHANGED <<graph, publishing, released>>
  BY DEF PushKey
<1>2. Update(c, Idle) \/ Update(c, o)
  BY DEF PushKey, Stop, Update
<1>3. /\ op[c] \in Operation /\ Carried(c) /\ Server \in Repo /\ c \in Repo /\ c # Server
  BY <1>1, OperationIs
<1>4. /\ H \subseteq Nodes(graph) /\ DownClosed(graph, H) /\ ph \in [H -> allphases]
      /\ \A m \in H : \A p \in graph[m] : ph[p] <= ph[m]
  BY <1>3, HeldIs DEF IInv, TypeOK, Whole
<1>5. n \in H /\ n \in Held(c) /\ (publishing \/ phase[c][n] = public)
  BY <1>1, <1>3 DEF Carried
<1>6. /\ new \in [H -> allphases]
      /\ \A m \in H : \A p \in graph[m] : new[p] <= new[m]
      /\ \A m \in H : /\ new[m] <= ph[m]
                      /\ m \notin Ancestors(graph, {n}) => new[m] = ph[m]
  <2>1. CASE ph[n] > draft
    <3>1. \A m \in H : ph[m] <= ph[m]
      BY <1>4, PhaseNumbers
    <3> QED BY <1>4, <2>1, <3>1
  <2>2. CASE ~(ph[n] > draft)
    <3> DEFINE S == {n}
               g == Restricted(graph, H)
    <3>1. new = Advanced(g, ph, public, S) /\ S \subseteq H
      BY <1>5, <2>2 DEF Log
    <3>2. LET u == Advanced(g, ph, public, S)
          IN  /\ u \in [H -> allphases]
              /\ \A m \in H : \A p \in graph[m] : u[p] <= u[m]
              /\ \A m \in H : /\ u[m] <= ph[m]
                              /\ m \notin Ancestors(graph, S) => u[m] = ph[m]
      <4> HIDE DEF H, ph, S
      <4> QED BY <1>4, <3>1, PublishedIs
    <3> HIDE DEF new, H, ph, g
    <3> QED BY <3>1, <3>2
  <2> QED BY <2>1, <2>2
<1> HIDE DEF new
<1>7. ASSUME NEW m \in Ancestors(graph, {n})
      PROVE  publishing \/ m \in released
  <2>1. n \in Nodes(graph) /\ IsGraph(graph) /\ DownClosed(graph, released)
    BY <1>4, <1>5 DEF IInv, Closed
  <2>2. CASE ~publishing
    <3>1. {n} \subseteq released /\ {n} \subseteq Nodes(graph)
      BY <1>3, <1>5, <2>1, <2>2 DEF IInv, NothingEscapes
    <3> QED BY <2>1, <3>1, AncestorsLeast
  <2> QED BY <2>2
<1>8. \A m \in H : new[m] = public =>
          \/ m \in released
          \/ \E q \in Repo : m \in Held(q) /\ phase[q][m] = public
          \/ publishing /\ (Server # Server => m \in Held(Server))
  BY <1>3, <1>6, <1>7
<1>9. Moves(Server, H, new)
  BY <1>1, <1>3, <1>4, <1>6, <1>8, MovesHere
<1>10. /\ Held(Server)' = H /\ Served(Server) \subseteq Served(Server)'
       /\ phase'[c] = phase[c]
  <2>1. Held(Server)' = H /\ \A q \in Repo : Served(q) \subseteq Served(q)' /\ (q # Server => phase'[q] = phase[q])
    BY <1>3, <1>9, MovesSafe
  <2> QED BY <1>3, <2>1
<1>11. o \in Operation
  BY <1>3 DEF Operation
<1>12. Update(c, o) =>
      /\ op'[c] = o /\ o.remoteheads = op[c].remoteheads /\ o.common = op[c].common
      /\ o.outdated = rest /\ o.at = "keys" /\ o.cgresult = op[c].cgresult
  BY <1>1, <1>3 DEF IInv, TypeOK, Operation, Update
<1>13. Held(c)' = Held(c) /\ Served(c)' = Served(c)
  BY <1>10 DEF Held, Served
<1>14. rest \subseteq op[c].outdated
  OBVIOUS
<1> HIDE DEF o, rest, H
<1>15. Update(c, o) => Carried(c)'
  BY <1>1, <1>3, <1>10, <1>12, <1>13, <1>14 DEF Carried, H
<1>16. /\ op' \in [Client -> Operation \cup {Idle}]
       /\ op'[c] = Idle \/ Update(c, o)
       /\ \A d \in Client \ {c} : op'[d] = op[d] /\ d # Server
  <2>1. op \in [Client -> Operation \cup {Idle}]
    BY DEF IInv, TypeOK
  <2> QED BY <1>2, <1>11, <2>1, ServerAssumption DEF Update
<1> QED BY <1>3, <1>9, <1>15, <1>16, StepSafe

\* What is pulled: it arrives as draft, then the phases of the server apply.
LEMMA PullSafe ==
    ASSUME IInv, NEW c \in Client, Pull(c)
    PROVE  IInv' /\ Later
<1> DEFINE H == Held(c) \cup Incoming(c)
           g == Restricted(graph, H)
           inherited == Inherited(g, phase[c])
           added == Retracted(g, inherited, draft, Incoming(c))
           S == CommonHeads(c) \cup op[c].remoteheads
           new == Synchronized(g, added, S)
<1>1. /\ op[c].at = "pull" /\ phase' = [phase EXCEPT ![c] = new] /\ Update(c, Idle)
      /\ UNCHANGED <<graph, publishing, released>>
  BY DEF Pull, Stop
<1>2. /\ op[c] \in Operation /\ Carried(c) /\ Server \in Repo /\ c \in Repo /\ c # Server
      /\ IsGraph(graph)
  BY <1>1, OperationIs DEF IInv, Closed
<1>3. /\ Held(c) \subseteq Nodes(graph) /\ DownClosed(graph, Held(c)) /\ phase[c] \in [Held(c) -> allphases]
      /\ \A n \in Held(c) : \A p \in graph[n] : phase[c][p] <= phase[c][n]
      /\ Served(Server) \subseteq Held(Server) /\ Held(Server) \subseteq Nodes(graph)
      /\ DownClosed(graph, Served(Server))
  BY <1>2, HeldIs DEF IInv, TypeOK, Whole
<1>4. op[c].remoteheads \subseteq Served(Server) /\ op[c].common \subseteq Held(c) \cap Served(Server)
  BY <1>2 DEF Carried
<1>5. /\ Ancestors(graph, op[c].remoteheads) \subseteq Served(Server)
      /\ op[c].remoteheads \subseteq Ancestors(graph, op[c].remoteheads)
      /\ DownClosed(graph, Ancestors(graph, op[c].remoteheads))
  BY <1>2, <1>3, <1>4, AncestorsLeast, AncestorsClosed
<1>6. H \subseteq Nodes(graph) /\ Incoming(c) \subseteq Served(Server) /\ Incoming(c) \cap Held(c) = {}
  BY <1>3, <1>5 DEF Incoming
<1>7. DownClosed(graph, H)
  <2>1. H = Held(c) \cup Ancestors(graph, op[c].remoteheads)
    BY DEF Incoming
  <2> QED BY <1>3, <1>5, <2>1 DEF DownClosed
<1>8. S \subseteq H /\ S \subseteq Served(Server)
  <2>1. CommonHeads(c) \subseteq op[c].common
    BY DEF CommonHeads, HeadsOf
  <2> QED BY <1>4, <1>5, <2>1 DEF Incoming
<1>9. /\ Nodes(g) = H /\ IsGraph(g) /\ \A n \in H : g[n] = graph[n]
      /\ \A T \in SUBSET H : Ancestors(g, T) = Ancestors(graph, T)
  BY <1>2, <1>6, <1>7, RestrictedGraph
<1>10. /\ IsPhases(g, inherited) /\ Ordered(g, inherited)
       /\ \A n \in Held(c) : inherited[n] = phase[c][n]
       /\ \A n \in Incoming(c) : inherited[n] \in {public, draft}
  <2>1. \A n \in Held(c) : \A p \in g[n] : phase[c][p] <= phase[c][n]
    BY <1>3, <1>9
  <2>2. DownClosed(g, Held(c)) /\ Held(c) \subseteq Nodes(g)
    BY <1>3, <1>9 DEF DownClosed
  <2>3. /\ IsPhases(g, inherited) /\ Ordered(g, inherited)
        /\ \A n \in Held(c) : inherited[n] = phase[c][n]
        /\ \A n \in Nodes(g) \ Held(c) :
               \/ inherited[n] = public
               \/ \E a \in Ancestors(g, {n}) \cap Held(c) : inherited[n] = phase[c][a]
    <3> HIDE DEF g
    <3> QED BY <1>3, <1>9, <2>1, <2>2, InheritedIs
  <2>4. ASSUME NEW n \in Incoming(c) PROVE inherited[n] \in {public, draft}
    <3>1. Ancestors(g, {n}) = Ancestors(graph, {n}) /\ Ancestors(graph, {n}) \subseteq Served(Server)
      <4>1. {n} \in SUBSET H /\ {n} \subseteq Nodes(graph) /\ {n} \subseteq Served(Server)
        BY <1>6, <2>4
      <4>2. Ancestors(graph, {n}) \subseteq Served(Server)
        BY <1>2, <1>3, <4>1, AncestorsLeast
      <4> HIDE DEF g, H
      <4> QED BY <1>9, <4>1, <4>2
    <3>2. ASSUME NEW a \in Served(Server) \cap Held(c) PROVE phase[c][a] \in {public, draft}
      <4>1. a \in Served(c)
        BY <1>2, <1>3, <3>2, BothServe
      <4>2. phase[c][a] \in {0, 1, 2} /\ phase[c][a] < secret
        BY <1>3, <3>2, <4>1, PhaseNumbers DEF Served
      <4> QED BY <4>2, PhaseNumbers
    <3> HIDE DEF inherited, g, H
    <3>3. n \in Nodes(g) \ Held(c)
      BY <1>6, <1>9, <2>4 DEF H
    <3> QED BY <2>3, <3>1, <3>2, <3>3
  <2> QED BY <2>3, <2>4
<1> HIDE DEF inherited
<1>11. Descendants(g, Incoming(c)) = Incoming(c)
  <2>1. UpClosed(g, Incoming(c))
    <3> SUFFICES ASSUME NEW n \in H, NEW p \in graph[n], p \in Incoming(c) PROVE n \in Incoming(c)
      BY <1>9 DEF UpClosed
    <3>1. n \notin Held(c)
      BY <1>3, <1>6 DEF DownClosed
    <3> QED BY <3>1
  <2> HIDE DEF g
  <2>2. Descendants(g, Incoming(c)) \subseteq Incoming(c)
    BY <1>9, <2>1, DescendantsLeast
  <2>3. Incoming(c) \subseteq Descendants(g, Incoming(c))
    BY <1>9, DescendantsClosed
  <2> QED BY <2>2, <2>3
<1>12. /\ IsPhases(g, added) /\ Ordered(g, added)
       /\ \A n \in H : /\ added[n] \in {inherited[n], draft}
                       /\ n \notin Incoming(c) => added[n] = inherited[n]
                       /\ n \in Incoming(c) => draft <= added[n]
  <2>1. draft \in allphases
    BY PhaseNumbers
  <2> HIDE DEF g, H
  <2> QED BY <1>9, <1>10, <1>11, <2>1, RetractedIs
<1> HIDE DEF added
<1>13. /\ added \in [H -> allphases] /\ \A n \in H : \A p \in graph[n] : added[p] <= added[n]
       /\ \A n \in Held(c) : added[n] = phase[c][n]
       /\ \A n \in Incoming(c) : added[n] = draft
  <2>1. \A n \in Incoming(c) : added[n] = draft
    BY <1>10, <1>12, PhaseNumbers
  <2>2. \A n \in Held(c) : added[n] = phase[c][n]
    BY <1>6, <1>10, <1>12
  <2> QED BY <1>9, <1>12, <2>1, <2>2 DEF IsPhases, Ordered
<1>14. /\ new \in [H -> allphases]
       /\ \A n \in H : \A p \in graph[n] : new[p] <= new[n]
       /\ \A n \in H : /\ new[n] <= added[n]
                       /\ new[n] # added[n] => n \in Held(Server)
                       /\ new[n] = public /\ added[n] # public =>
                              publishing \/ phase[Server][n] = public
  <2>1. new = Synchronized(Restricted(graph, H), added, S)
    OBVIOUS
  <2> HIDE DEF new, g, H, S
  <2> QED BY <1>6, <1>7, <1>8, <1>13, <2>1, SynchronizedIs
<1> HIDE DEF new, g, S
<1>15. \A n \in Held(c) : new[n] <= phase[c][n]
  BY <1>13, <1>14
<1>16. \A n \in H \ Held(c) : new[n] # secret /\ \E q \in Repo \ {c} : n \in Served(q)
  <2> SUFFICES ASSUME NEW n \in Incoming(c) PROVE new[n] # secret /\ \E q \in Repo \ {c} : n \in Served(q)
    OBVIOUS
  <2>1. new[n] <= draft /\ n \in Served(Server)
    BY <1>6, <1>13, <1>14
  <2> QED BY <1>2, <2>1, PhaseNumbers
<1>17. \A n \in H : new[n] = public =>
          \/ n \in released
          \/ \E q \in Repo : n \in Held(q) /\ phase[q][n] = public
          \/ publishing /\ (c # Server => n \in Held(Server))
  <2> SUFFICES ASSUME NEW n \in H, new[n] = public
               PROVE  \/ \E q \in Repo : n \in Held(q) /\ phase[q][n] = public
                      \/ publishing /\ n \in Held(Server)
    OBVIOUS
  <2>1. CASE added[n] = public
    BY <1>2, <1>13, <2>1, PhaseNumbers
  <2>2. CASE added[n] # public
    BY <1>2, <1>14, <2>2
  <2> QED BY <2>1, <2>2
<1>18. Moves(c, H, new)
  <2> HIDE DEF H
  <2>1. Held(c) \subseteq H
    BY DEF H
  <2> QED BY <1>1, <1>2, <1>6, <1>7, <1>14, <1>15, <1>16, <1>17, <2>1, MovesHere
<1>19. /\ op' \in [Client -> Operation \cup {Idle}] /\ op'[c] = Idle
       /\ \A d \in Client \ {c} : op'[d] = op[d]
  BY <1>1 DEF Update, IInv, TypeOK
<1> HIDE DEF H
<1> QED BY <1>2, <1>18, <1>19, StepSafe

-----------------------------------------------------------------------------
(* The invariant                                                           *)

LEMMA NextSafe ==
    ASSUME IInv, [Next]_vars
    PROVE  IInv' /\ Later
<1>1. CASE UNCHANGED vars
  BY <1>1, SameLater DEF vars, IInv, TypeOK, Closed, Whole, NothingEscapes, Carried, Busy, Idle,
              Held, Served, Nodes, IsGraph, DownClosed
<1>2. ASSUME NEW r \in Repo, NEW P \in ParentSets(Log(r)), NEW t \in {draft, secret}, Commit(r, P, t)
      PROVE  IInv' /\ Later
  BY <1>2, CommitSafe
<1>3. ASSUME NEW r \in Repo, NEW n \in Held(r), NEW t \in {public, draft}, LowerPhase(r, n, t)
      PROVE  IInv' /\ Later
  BY <1>3, LowerPhaseSafe
<1>4. ASSUME NEW c \in Client, NEW push \in BOOLEAN, NEW force \in BOOLEAN, Start(c, push, force)
      PROVE  IInv' /\ Later
  BY <1>4, StartSafe
<1>5. ASSUME NEW c \in Client, Exchanging(c)
      PROVE  IInv' /\ Later
  <2>1. CASE FindCommon(c)
    BY <2>1, FindCommonSafe
  <2>2. CASE FindOutdated(c)
    BY <2>2, FindOutdatedSafe
  <2>3. CASE CheckHeads(c) \/ CheckRace(c)
    BY <2>3, WaitingSafe
  <2>4. CASE ApplyBundle2(c)
    BY <2>4, ApplyBundle2Safe
  <2>5. CASE ApplyBundle1(c)
    BY <2>5, ApplyBundle1Safe
  <2>6. CASE SyncPhases(c)
    BY <2>6, SyncPhasesSafe
  <2>7. CASE Pull(c)
    BY <2>7, PullSafe
  <2>8. ASSUME NEW n \in Held(c), PushKey(c, n) PROVE IInv' /\ Later
    BY <2>8, PushKeySafe
  <2> QED BY <1>5, <2>1, <2>2, <2>3, <2>4, <2>5, <2>6, <2>7, <2>8 DEF Exchanging
<1>6. ASSUME NEW c \in Client, Die(c)
      PROVE  IInv' /\ Later
  BY <1>6, WaitingSafe
<1>7. Forcing \subseteq Client
  BY BoundAssumption
<1> QED BY <1>1, <1>2, <1>3, <1>4, <1>5, <1>6, <1>7 DEF Next

THEOREM Invariant == Spec => []IInv
BY InitSafe, NextSafe, PTL DEF Spec

\* The changesets, phases and operations of all repositories are well formed.
THEOREM TypeOKHolds == Spec => []TypeOK
<1>1. IInv => TypeOK
  BY DEF IInv
<1> QED BY <1>1, Invariant, PTL

\* Whatever a bundle was computed from and whatever has happened since, a
\* repository that holds a changeset holds its ancestors, in phases not
\* higher (changegroup.py, phases.py).
THEOREM WholeHolds == Spec => []Whole
<1>1. IInv => Whole
  BY DEF IInv
<1> QED BY <1>1, Invariant, PTL

\* No race of pushes and pulls takes a secret changeset elsewhere, or makes
\* one public that nobody released (exchange.py, phases.py).
THEOREM NothingEscapesHolds == Spec => []NothingEscapes
<1>1. IInv => NothingEscapes
  BY DEF IInv
<1> QED BY <1>1, Invariant, PTL

\* No step of anyone, a client's death included, loses a changeset or raises
\* the phase of one: all that discovery has learned stays true
\* (phases.advanceboundary, and that repositories are only added to).
THEOREM NothingLost == Spec => [][Later]_vars
<1>1. IInv /\ [Next]_vars => [Later]_vars
  BY NextSafe
<1> QED BY <1>1, Invariant, PTL DEF Spec

-----------------------------------------------------------------------------
(* The head check, and the phases that are promised                        *)

\* When the heads of the server are those that were listed, they have been
\* compared with what is pushed.
Compared(c) ==
    /\ c \in Bundle2 => op[c].at # "unbundle"
    /\ (/\ op[c].at = "apply" /\ ~op[c].force /\ Missing(c) # {}
        /\ ServedHeads(Server) = op[c].remoteheads) => ~AddsHeads(c)

\* The heads of what is, or was, pushed
Target(c) ==
    IF op[c].at \in {"sync", "keys"} THEN Pushed(c)
    ELSE IF Missing(c) = {} THEN CommonHeads(c) ELSE ServedHeads(c)

\* What is pushed and is to be public is public at the server, or below
\* a changeset that is still to be made public there.
Promised(c) ==
    /\ op[c].at \in {"check", "unbundle"} \/ (op[c].at = "apply" /\ c \notin Bundle2) =>
           Missing(c) # {}
    /\ op[c].at \in {"check", "apply", "unbundle", "sync", "keys"} =>
           \A n \in Ancestors(graph, Target(c)) : publishing \/ phase[c][n] = public =>
               \/ n \in Held(Server) /\ phase[Server][n] = public
               \/ n \in Ancestors(graph, op[c].outdated)
    /\ op[c].at = "sync" /\ c \in Bundle2 => \A n \in op[c].outdated : phase[Server][n] = public
    /\ op[c].at \in {"common", "phases"} => ~op[c].cgresult

Pushes == \A c \in Client : Compared(c) /\ Promised(c)

\* While others act, c waits.
Waits(c) == op'[c] = op[c] /\ phase'[c] = phase[c]

\* What is public at the server stays there, public.
LEMMA PublicStays ==
    ASSUME IInv, IInv', Later, NEW n \in Held(Server), phase[Server][n] = public
    PROVE  n \in Held(Server)' /\ phase'[Server][n] = public
<1>1. n \in Held(Server)' /\ phase'[Server][n] <= phase[Server][n]
  BY DEF Later, Repo
<1>2. phase'[Server] \in [Held(Server)' -> allphases]
  BY DEF IInv, TypeOK, Repo
<1>3. phase'[Server][n] \in {0, 1, 2} /\ phase'[Server][n] <= 0
  BY <1>1, <1>2, PhaseNumbers
<1> QED BY <1>1, <1>3, PhaseNumbers

\* What c has is the same.
LEMMA WaitsKeeps ==
    ASSUME IInv, IInv', Later, NEW c \in Client, Waits(c)
    PROVE  /\ Held(c)' = Held(c) /\ Served(c)' = Served(c) /\ Missing(c)' = Missing(c)
           /\ \A S \in SUBSET Nodes(graph) :
                  /\ Ancestors(graph', S) = Ancestors(graph, S)
                  /\ HeadsOf(graph', S) = HeadsOf(graph, S)
           /\ \A n \in Held(Server) : phase[Server][n] = public => phase'[Server][n] = public
           /\ Served(c) \subseteq Held(c) /\ Held(c) \subseteq Nodes(graph)
           /\ Served(Server) \subseteq Held(Server) /\ Held(Server) \subseteq Nodes(graph)
<1>1. Held(c)' = Held(c) /\ Served(c)' = Served(c) /\ Missing(c)' = Missing(c)
  BY DEF Waits, Held, Served, Missing
<1>2. \A S \in SUBSET Nodes(graph) :
          /\ Ancestors(graph', S) = Ancestors(graph, S)
          /\ HeadsOf(graph', S) = HeadsOf(graph, S)
  <2>1. IsGraph(graph) /\ IsGraph(graph')
    BY DEF IInv, Closed
  <2> QED BY <2>1, ExtendedGraph DEF Later
<1>3. c \in Repo /\ Server \in Repo
  BY DEF Repo
<1>4. \A n \in Held(Server) : phase[Server][n] = public => phase'[Server][n] = public
  BY PublicStays
<1> QED BY <1>1, <1>2, <1>3, <1>4, HeldIs

\* When the heads of the server are again what they were, so is all it serves.
LEMMA ComparedKept ==
    ASSUME IInv, IInv', Later, NEW c \in Client, Waits(c), Compared(c)
    PROVE  Compared(c)'
<1> SUFFICES ASSUME op[c].at = "apply", ~op[c].force, Missing(c) # {},
                    ServedHeads(Server)' = op[c].remoteheads
             PROVE  ~AddsHeads(c)'
  BY WaitsKeeps DEF Compared, Waits
<1> DEFINE S == Served(Server)
           R == op[c].remoteheads
<1>1. /\ Held(c)' = Held(c) /\ Served(c)' = Served(c) /\ Missing(c)' = Missing(c)
      /\ \A T \in SUBSET Nodes(graph) :
             /\ Ancestors(graph', T) = Ancestors(graph, T)
             /\ HeadsOf(graph', T) = HeadsOf(graph, T)
      /\ Served(c) \subseteq Nodes(graph) /\ S \subseteq Nodes(graph)
  BY WaitsKeeps
<1>2. /\ Carried(c) /\ Server \in Repo /\ c \in Repo /\ IsGraph(graph)
  BY OperationIs DEF IInv, Closed
<1>3. R \subseteq S /\ DownClosed(graph, S) /\ S \subseteq S'
  BY <1>2, HeldIs DEF Carried, Later
<1>4. S' \subseteq S
  <2> SUFFICES ASSUME NEW n \in S' PROVE n \in S
    OBVIOUS
  <2>1. IsGraph(graph') /\ S' \subseteq Nodes(graph') /\ S' \subseteq 0..MaxNode /\ MaxNode \in Nat
    <3>1. Held(Server)' \subseteq Nodes(graph)' /\ Nodes(graph)' \subseteq 1..MaxNode
      BY <1>2 DEF IInv, TypeOK
    <3>2. S' \subseteq Held(Server)'
      BY DEF Served
    <3> QED BY <3>1, <3>2, BoundAssumption DEF IInv, Closed, Nodes
  <2> HIDE DEF S
  <2>2. PICK h \in HeadsOf(graph', S') : n \in Ancestors(graph', {h})
    BY <2>1, HeadAbove
  <2>3. h \in R
    BY <2>2 DEF ServedHeads, S
  <2>4. {h} \in SUBSET Nodes(graph) /\ {h} \subseteq S
    BY <1>1, <1>3, <2>3
  <2>5. n \in Ancestors(graph, {h})
    BY <1>1, <2>2, <2>4
  <2> QED BY <1>2, <1>3, <2>4, <2>5, AncestorsLeast
<1>5. S' = S
  BY <1>3, <1>4
<1>6. ServedHeads(Server)' = ServedHeads(Server)
  <2>1. HeadsOf(graph', S') = HeadsOf(graph, S)
    BY <1>1, <1>5
  <2> QED BY <2>1 DEF ServedHeads
<1>7. ~AddsHeads(c)
  BY <1>6 DEF Compared
<1>8. NewHeads(c)' = NewHeads(c)
  <2> DEFINE heads == ServedHeads(Server)
             candidates == (heads \cap Held(c)) \cup Missing(c)
             above == UNION {graph[n] : n \in Missing(c)}
             covered == Ancestors(graph, above)
  <2>1. Missing(c) \subseteq Nodes(graph)
    BY <1>1 DEF Missing
  <2>2. above' = above /\ above \subseteq Nodes(graph)
    <3>1. \A n \in Missing(c) : graph'[n] = graph[n]
      BY <2>1 DEF Later
    <3> QED BY <1>1, <1>2, <2>1, <3>1 DEF IsGraph
  <2>3. candidates' = candidates /\ candidates \subseteq Nodes(graph)
    BY <1>1, <1>6, <2>1 DEF ServedHeads, HeadsOf
  <2> HIDE DEF above, candidates
  <2>4. covered' = covered
    BY <1>1, <2>2
  <2> HIDE DEF covered
  <2>5. HeadsOf(graph', (candidates \ covered)') = HeadsOf(graph, candidates \ covered)
    BY <1>1, <2>3, <2>4
  <2>6. (heads \ Held(c))' = heads \ Held(c)
    BY <1>1, <1>6
  <2> QED BY <2>5, <2>6 DEF NewHeads, heads, candidates, above, covered
<1> QED BY <1>6, <1>7, <1>8 DEF AddsHeads, Waits

\* The heads that were asked for, or are pushed, are here.
LEMMA TargetIs ==
    ASSUME IInv, NEW c \in Client, op[c].at # "idle"
    PROVE  /\ CommonHeads(c) \subseteq Held(c) \cap Held(Server) /\ ServedHeads(c) \subseteq Served(c)
           /\ Target(c) \subseteq Held(c) /\ op[c].outdated \subseteq Held(c)
           /\ Held(c) \subseteq Nodes(graph) /\ Served(c) \subseteq Held(c)
<1>1. /\ Carried(c) /\ Server \in Repo /\ c \in Repo
  BY OperationIs
<1>2. /\ Held(c) \subseteq Nodes(graph) /\ Served(c) \subseteq Held(c) /\ Served(Server) \subseteq Held(Server)
  BY <1>1, HeldIs
<1>3. CommonHeads(c) \subseteq Held(c) \cap Held(Server) /\ ServedHeads(c) \subseteq Served(c)
  BY <1>1, <1>2 DEF CommonHeads, ServedHeads, HeadsOf, Carried
<1>4. Target(c) \subseteq Held(c)
  BY <1>2, <1>3 DEF Target, Pushed
<1> QED BY <1>1, <1>2, <1>3, <1>4 DEF Carried

LEMMA PromisedKept ==
    ASSUME IInv, IInv', Later, NEW c \in Client, Waits(c), Promised(c)
    PROVE  Promised(c)'
<1>1. /\ Held(c)' = Held(c) /\ Served(c)' = Served(c) /\ Missing(c)' = Missing(c)
      /\ \A T \in SUBSET Nodes(graph) :
             /\ Ancestors(graph', T) = Ancestors(graph, T)
             /\ HeadsOf(graph', T) = HeadsOf(graph, T)
      /\ \A n \in Held(Server) : phase[Server][n] = public => phase'[Server][n] = public
  BY WaitsKeeps
<1>2. op'[c] = op[c] /\ phase'[c] = phase[c] /\ publishing' = publishing
  BY DEF Waits, Later
<1>3. Held(Server) \subseteq Held(Server)'
  BY DEF Later, Repo
<1>4. op[c].at \in {"check", "unbundle"} \/ (op[c].at = "apply" /\ c \notin Bundle2) =>
          Missing(c) # {}
  BY DEF Promised
<1>5. CASE op[c].at \in {"check", "apply", "unbundle", "sync", "keys"}
  <2>1. /\ Target(c) \in SUBSET Nodes(graph) /\ op[c].outdated \in SUBSET Nodes(graph)
        /\ Served(c) \in SUBSET Nodes(graph) /\ op[c].common \in SUBSET Nodes(graph)
        /\ op[c].outdated \subseteq Held(c) /\ Carried(c)
    BY <1>5, TargetIs, OperationIs DEF Carried
  <2>2. CommonHeads(c)' = CommonHeads(c) /\ ServedHeads(c)' = ServedHeads(c)
    BY <1>1, <1>2, <2>1 DEF CommonHeads, ServedHeads
  <2>3. Target(c)' = Target(c)
    BY <1>1, <1>2, <2>2 DEF Target, Pushed
  <2>4. Ancestors(graph, Target(c))' = Ancestors(graph, Target(c))
    BY <1>1, <2>1, <2>3
  <2>5. Ancestors(graph', op[c].outdated) = Ancestors(graph, op[c].outdated)
    BY <1>1, <2>1
  <2>6. \A n \in Ancestors(graph, Target(c)) : publishing \/ phase[c][n] = public =>
            \/ n \in Held(Server) /\ phase[Server][n] = public
            \/ n \in Ancestors(graph, op[c].outdated)
    BY <1>5 DEF Promised
  <2>7. \A n \in Ancestors(graph, Target(c))' : publishing' \/ phase'[c][n] = public =>
            \/ n \in Held(Server)' /\ phase'[Server][n] = public
            \/ n \in Ancestors(graph', op'[c].outdated)
    BY <1>1, <1>2, <1>3, <2>4, <2>5, <2>6
  <2>8. op[c].at = "sync" /\ c \in Bundle2 => \A n \in op[c].outdated : phase'[Server][n] = public
    <3>1. op[c].at = "sync" => op[c].outdated \subseteq Held(Server)
      BY <2>1 DEF Carried
    <3> QED BY <1>1, <3>1 DEF Promised
  <2> QED BY <1>1, <1>2, <1>4, <2>7, <2>8 DEF Promised
<1>6. CASE op[c].at \notin {"check", "apply", "unbundle", "sync", "keys"}
  BY <1>2, <1>6 DEF Promised
<1> QED BY <1>5, <1>6

\* What the server has as a draft is above a draft root of its that is here.
LEMMA DraftBelow ==
    ASSUME IInv, NEW c \in Client, NEW n \in Held(c) \cap Held(Server), phase[Server][n] # public
    PROVE  n \in Descendants(Log(c), DraftRoots(Server) \cap Held(c))
<1> DEFINE D == {m \in Held(Server) : phase[Server][m] = draft}
           droots == DraftRoots(Server) \cap Held(c)
<1>1. c \in Repo /\ Server \in Repo /\ c # Server /\ IsGraph(graph)
  BY ServerAssumption DEF Repo, IInv, Closed
<1>2. /\ Held(c) \subseteq Nodes(graph) /\ DownClosed(graph, Held(c))
      /\ Nodes(Log(c)) = Held(c) /\ IsGraph(Log(c))
      /\ \A S \in SUBSET Held(c) : Ancestors(Log(c), S) = Ancestors(graph, S)
      /\ phase[Server][n] \in {public, draft, secret}
  BY <1>1, HeldIs
<1>3. n \in D
  <2>1. n \in Served(Server)
    BY <1>1, BothServe
  <2> QED BY <1>2, <2>1, PhaseNumbers DEF Served
<1>4. PICK r \in Ancestors(graph, {n}) : r \in RootsOf(graph, D)
  BY <1>1, <1>2, <1>3, RootBelow
<1>5. {n} \in SUBSET Held(c) /\ {n} \subseteq Nodes(graph)
  BY <1>2
<1>6. r \in droots /\ r \in Ancestors(Log(c), {n})
  <2>1. Ancestors(graph, {n}) \subseteq Held(c)
    BY <1>1, <1>2, <1>5, AncestorsLeast
  <2>2. r \in DraftRoots(Server)
    BY <1>4 DEF DraftRoots
  <2> QED BY <1>2, <1>4, <1>5, <2>1, <2>2
<1> HIDE DEF droots
<1> QED BY <1>2, <1>5, <1>6, Related DEF droots

\* What is above D and is to be public is below a head that is outdated.
LEMMA OutdatedCovers ==
    ASSUME IInv, NEW c \in Client, NEW D, NEW S, S \subseteq Held(c),
           NEW n \in Ancestors(graph, S), n \in Descendants(Log(c), D),
           publishing \/ phase[c][n] = public
    PROVE  n \in Ancestors(graph, Outdated(c, D, S))
<1> DEFINE X == {m \in Between(Log(c), D, S) : publishing \/ phase[c][m] = public}
<1>1. c \in Repo /\ IsGraph(graph)
  BY DEF Repo, IInv, Closed
<1>2. /\ Ancestors(Log(c), S) = Ancestors(graph, S)
      /\ Nodes(Log(c)) = Held(c) /\ IsGraph(Log(c)) /\ Held(c) \subseteq Nodes(graph)
  BY <1>1, HeldIs
<1>3. n \in X
  BY <1>2 DEF Between
<1>4. X \subseteq Nodes(graph)
  <2>1. Ancestors(Log(c), S) \subseteq Held(c)
    BY <1>2, AncestorsClosed
  <2> QED BY <1>2, <2>1 DEF Between
<1>5. X \subseteq 0..MaxNode /\ MaxNode \in Nat
  <2>1. Nodes(graph) \subseteq 1..MaxNode
    BY DEF IInv, TypeOK
  <2> HIDE DEF X
  <2> QED BY <1>4, <2>1, BoundAssumption
<1>6. Outdated(c, D, S) = HeadsOf(graph, X)
  BY DEF Outdated
<1> HIDE DEF X
<1>7. PICK h \in HeadsOf(graph, X) : n \in Ancestors(graph, {h})
  BY <1>1, <1>3, <1>4, <1>5, HeadAbove
<1>8. HeadsOf(graph, X) \subseteq Nodes(graph)
  BY <1>4 DEF HeadsOf
<1>9. {h} \subseteq Ancestors(graph, HeadsOf(graph, X))
  BY <1>1, <1>7, <1>8, AncestorsClosed
<1>10. Ancestors(graph, {h}) \subseteq Ancestors(graph, HeadsOf(graph, X))
  BY <1>1, <1>8, <1>9, AncestorsMonotone
<1> QED BY <1>6, <1>7, <1>10

LEMMA FindOutdatedPromises ==
    ASSUME IInv, NEW c \in Client, FindOutdated(c), Promised(c)
    PROVE  Compared(c)' /\ Promised(c)'
<1> DEFINE droots == DraftRoots(Server) \cap Held(c)
           E == Missing(c) \cup Descendants(Log(c), droots)
           fdroots == RootsOf(graph, E)
           X == Outdated(c, droots, CommonHeads(c))
           Y == Outdated(c, fdroots, ServedHeads(c))
           out == IF Missing(c) = {} THEN X ELSE Y
           to == IF Missing(c) = {} THEN (IF c \in Bundle2 THEN "apply" ELSE "sync") ELSE "check"
           o == [op[c] EXCEPT !.outdated = out, !.at = to]
           heads == IF Missing(c) = {} THEN CommonHeads(c) ELSE ServedHeads(c)
<1>1. op[c].at = "phases" /\ UNCHANGED <<graph, phase, publishing, released>> /\ Update(c, o)
  BY DEF FindOutdated, Unchanged
<1>2. /\ op[c] \in Operation /\ Carried(c) /\ c \in Repo /\ Server \in Repo /\ c # Server
      /\ IsGraph(graph)
  BY <1>1, OperationIs DEF IInv, Closed
<1>3. /\ Held(c) \subseteq Nodes(graph) /\ Served(c) \subseteq Held(c)
      /\ DownClosed(graph, Held(c)) /\ DownClosed(graph, Served(c)) /\ DownClosed(graph, Held(Server))
      /\ Nodes(Log(c)) = Held(c) /\ IsGraph(Log(c))
      /\ \A S \in SUBSET Held(c) : Ancestors(Log(c), S) = Ancestors(graph, S)
      /\ CommonHeads(c) \subseteq Held(c) \cap Held(Server) /\ ServedHeads(c) \subseteq Served(c)
      /\ op[c].common \subseteq Held(Server)
  <2>1. op[c].common \subseteq Served(Server) /\ Served(Server) \subseteq Held(Server)
    BY <1>2, HeldIs DEF Carried
  <2>2. CommonHeads(c) \subseteq Held(c) \cap Held(Server) /\ ServedHeads(c) \subseteq Served(c)
    BY <1>1, TargetIs
  <2> QED BY <1>2, <2>1, <2>2, HeldIs
<1>4. ASSUME NEW n \in Ancestors(graph, heads), publishing \/ phase[c][n] = public
      PROVE  \/ n \in Held(Server) /\ phase[Server][n] = public
             \/ n \in Ancestors(graph, out)
  <2> SUFFICES ASSUME n \notin Held(Server) \/ phase[Server][n] # public
               PROVE  n \in Ancestors(graph, out)
    OBVIOUS
  <2>1. CASE Missing(c) = {}
    <3>1. n \in Held(c) \cap Held(Server)
      <4>1. Ancestors(graph, CommonHeads(c)) \subseteq Held(c) \cap Held(Server)
        BY <1>2, <1>3, AncestorsLeast
      <4> QED BY <1>4, <2>1, <4>1
    <3>2. n \in Descendants(Log(c), droots)
      BY <3>1, DraftBelow
    <3>3. n \in Ancestors(graph, CommonHeads(c)) /\ CommonHeads(c) \subseteq Held(c)
      BY <1>3, <1>4, <2>1
    <3>4. n \in Ancestors(graph, X)
      <4> HIDE DEF droots
      <4> QED BY <1>4, <3>2, <3>3, OutdatedCovers
    <3> QED BY <2>1, <3>4
  <2>2. CASE Missing(c) # {}
    <3>1. n \in Ancestors(graph, ServedHeads(c)) /\ ServedHeads(c) \subseteq Held(c)
      BY <1>3, <1>4, <2>2
    <3>2. n \in Served(c) /\ n \in Held(c)
      <4>1. Ancestors(graph, ServedHeads(c)) \subseteq Served(c)
        BY <1>2, <1>3, AncestorsLeast
      <4> QED BY <1>3, <3>1, <4>1
    <3>3. n \in E
      <4>1. CASE n \in Missing(c)
        BY <4>1
      <4>2. CASE n \notin Missing(c)
        <5>1. n \in Held(c) \cap Held(Server)
          BY <1>3, <3>2, <4>2 DEF Missing
        <5> QED BY <5>1, DraftBelow
      <4> QED BY <4>1, <4>2
    <3> HIDE DEF E
    <3>4. PICK r \in Ancestors(graph, {n}) : r \in fdroots
      BY <1>2, <1>3, <3>2, <3>3, RootBelow
    <3>5. {n} \in SUBSET Held(c)
      BY <3>2
    <3>6. n \in Descendants(Log(c), fdroots)
      <4> HIDE DEF fdroots
      <4>1. Ancestors(Log(c), {n}) \cap fdroots # {}
        BY <1>3, <3>4, <3>5
      <4> QED BY <1>3, <3>2, <4>1, Related
    <3>7. n \in Ancestors(graph, Y)
      <4> HIDE DEF fdroots
      <4> QED BY <1>4, <3>1, <3>6, OutdatedCovers
    <3> HIDE DEF X, Y
    <3> QED BY <2>2, <3>7
  <2> QED BY <2>1, <2>2
<1> HIDE DEF X, Y
<1>5. to \in {"apply", "sync", "check"} /\ (to \in {"apply", "sync"} <=> Missing(c) = {})
      /\ (to = "apply" => c \in Bundle2) /\ (to = "sync" => c \notin Bundle2)
  OBVIOUS
<1> HIDE DEF to, out
<1>6. /\ op'[c] = o /\ o.common = op[c].common /\ o.outdated = out /\ o.at = to
      /\ o.cgresult = op[c].cgresult /\ ~op[c].cgresult
  BY <1>1, <1>2 DEF Update, IInv, TypeOK, Operation, Promised
<1> HIDE DEF o
<1>7. /\ Held(Server)' = Held(Server) /\ Missing(c)' = Missing(c)
      /\ CommonHeads(c)' = CommonHeads(c) /\ ServedHeads(c)' = ServedHeads(c)
  BY <1>1, <1>6 DEF Held, Served, Missing, CommonHeads, ServedHeads
<1>8. Target(c)' = heads
  BY <1>5, <1>6, <1>7 DEF Target, Pushed
<1> HIDE DEF heads
<1>9. Compared(c)'
  BY <1>5, <1>6, <1>7 DEF Compared
<1>10. Promised(c)'
  BY <1>1, <1>4, <1>5, <1>6, <1>7, <1>8 DEF Promised
<1> QED BY <1>9, <1>10

\* Steps of c after which nothing is promised
LEMMA NothingPromised ==
    ASSUME NEW c \in Client, op'[c] = Idle \/ op'[c].at \in {"pull"}
    PROVE  Compared(c)' /\ Promised(c)'
BY DEF Compared, Promised, Idle

LEMMA AskingPromises ==
    ASSUME IInv, NEW c \in Client, Promised(c),
           (\E push \in BOOLEAN, force \in BOOLEAN : Start(c, push, force)) \/ FindCommon(c)
    PROVE  Compared(c)' /\ Promised(c)'
<1>1. op \in [Client -> Operation \cup {Idle}]
  BY DEF IInv, TypeOK
<1>2. ASSUME NEW push \in BOOLEAN, NEW force \in BOOLEAN, Start(c, push, force)
      PROVE  Compared(c)' /\ Promised(c)'
  <2>1. op'[c].at = "common" /\ op'[c].cgresult = FALSE
    BY <1>1, <1>2 DEF Start, Update
  <2> QED BY <2>1 DEF Compared, Promised
<1>3. CASE FindCommon(c)
  <2> DEFINE o == [op[c] EXCEPT !.common = Common(c),
                                !.at = IF op[c].push THEN "phases" ELSE "pull"]
  <2>1. op[c].at = "common" /\ op[c] \in Operation
    BY <1>3, OperationIs DEF FindCommon
  <2>2. CASE Update(c, Idle)
    BY <1>1, <2>2, NothingPromised DEF Update
  <2>3. CASE Update(c, o)
    <3>1. op'[c].at \in {"phases", "pull"} /\ op'[c].cgresult = op[c].cgresult /\ ~op[c].cgresult
      BY <1>1, <2>1, <2>3 DEF Update, Operation, Promised
    <3> QED BY <3>1 DEF Compared, Promised
  <2> QED BY <1>3, <2>2, <2>3 DEF FindCommon, Stop
<1> QED BY <1>2, <1>3

\* The heads are compared: with those listed, if the check comes to that.
LEMMA CheckHeadsPromises ==
    ASSUME IInv, NEW c \in Client, Compared(c), Promised(c), CheckHeads(c) \/ CheckRace(c)
    PROVE  Compared(c)' /\ Promised(c)'
<1>1. op \in [Client -> Operation \cup {Idle}]
  BY DEF IInv, TypeOK
<1>2. CASE Stop(c)
  BY <1>1, <1>2, NothingPromised DEF Stop, Update
<1>3. ASSUME NEW to \in {"apply", "unbundle"}, op[c].at \in {"check", "apply"}, Goto(c, to), Unchanged,
             to = "unbundle" => c \notin Bundle2,
             to = "apply" => op[c].at = "check" /\ (op[c].force \/ ~AddsHeads(c)),
             to = "unbundle" => op[c].at = "apply"
      PROVE  Compared(c)' /\ Promised(c)'
  <2> DEFINE o == [op[c] EXCEPT !.at = to]
  <2>1. op[c] \in Operation
    BY <1>3, OperationIs
  <2>2. /\ op'[c] = o /\ o.remoteheads = op[c].remoteheads /\ o.common = op[c].common
        /\ o.outdated = op[c].outdated /\ o.at = to /\ o.cgresult = op[c].cgresult
        /\ o.force = op[c].force
    BY <1>1, <1>3, <2>1 DEF Goto, Update, Operation
  <2> HIDE DEF o
  <2>3. UNCHANGED <<graph, phase, publishing, released>>
    BY <1>3 DEF Unchanged
  <2>4. /\ Held(Server)' = Held(Server) /\ Held(c)' = Held(c) /\ Missing(c)' = Missing(c)
        /\ CommonHeads(c)' = CommonHeads(c) /\ ServedHeads(c)' = ServedHeads(c)
        /\ ServedHeads(Server)' = ServedHeads(Server)
    BY <2>2, <2>3 DEF Held, Served, Missing, CommonHeads, ServedHeads
  <2>5. AddsHeads(c)' = AddsHeads(c)
    BY <2>2, <2>3, <2>4 DEF AddsHeads, NewHeads
  <2>6. Target(c)' = Target(c)
    BY <1>3, <2>2, <2>4 DEF Target
  <2>7. Missing(c) # {}
    BY <1>3 DEF Promised
  <2>8. Compared(c)'
    BY <1>3, <2>2, <2>5 DEF Compared
  <2>9. Promised(c)'
    BY <1>3, <2>2, <2>3, <2>4, <2>6, <2>7 DEF Promised
  <2> QED BY <2>8, <2>9
<1> QED BY <1>2, <1>3 DEF CheckHeads, CheckRace

LEMMA AppliedPromises ==
    ASSUME IInv, IInv', Later, NEW c \in Client, op[c].at \in {"apply", "unbundle"}, Promised(c),
           UNCHANGED <<graph, publishing, phase[c]>>,
           op'[c] = [op[c] EXCEPT !.at = "sync", !.cgresult = Missing(c) # {}],
           c \in Bundle2 => \A n \in op[c].outdated : phase'[Server][n] = public
    PROVE  Compared(c)' /\ Promised(c)'
<1> DEFINE o == [op[c] EXCEPT !.at = "sync", !.cgresult = Missing(c) # {}]
<1>1. op[c] \in Operation
  BY OperationIs
<1>2. /\ op'[c] = o /\ o.common = op[c].common /\ o.outdated = op[c].outdated
      /\ o.at = "sync" /\ o.cgresult = (Missing(c) # {})
  BY <1>1 DEF Operation
<1> HIDE DEF o
<1>3. CommonHeads(c)' = CommonHeads(c) /\ ServedHeads(c)' = ServedHeads(c)
  BY <1>2 DEF Held, Served, CommonHeads, ServedHeads
<1>4. Target(c)' = Target(c)
  BY <1>2, <1>3 DEF Target, Pushed
<1>6. \A n \in Held(Server) : phase[Server][n] = public =>
          n \in Held(Server)' /\ phase'[Server][n] = public
  BY PublicStays
<1>7. Compared(c)'
  BY <1>2 DEF Compared
<1>8. \A n \in Ancestors(graph, Target(c)) : publishing \/ phase[c][n] = public =>
          \/ n \in Held(Server) /\ phase[Server][n] = public
          \/ n \in Ancestors(graph, op[c].outdated)
  BY DEF Promised
<1>9. Promised(c)'
  BY <1>2, <1>4, <1>6, <1>8 DEF Promised
<1> QED BY <1>7, <1>9

LEMMA ApplyPromises ==
    ASSUME IInv, NEW c \in Client, Compared(c), Promised(c), ApplyBundle1(c) \/ ApplyBundle2(c)
    PROVE  Compared(c)' /\ Promised(c)'
<1>1. op \in [Client -> Operation \cup {Idle}]
  BY DEF IInv, TypeOK
<1>2. IInv' /\ Later
  BY ApplyBundle1Safe, ApplyBundle2Safe
<1>3. DOMAIN phase = Repo /\ c # Server /\ c \in Repo /\ Server \in Repo
  BY ServerAssumption DEF Repo, IInv, TypeOK
<1>4. CASE ApplyBundle1(c)
  <2>1. /\ op[c].at = "unbundle" /\ Missing(c) # {} /\ c \notin Bundle2
        /\ UNCHANGED <<graph, publishing, phase[c]>>
        /\ op'[c] = [op[c] EXCEPT !.at = "sync", !.cgresult = TRUE]
    BY <1>1, <1>3, <1>4 DEF ApplyBundle1, Update, Compared, Promised
  <2>2. (Missing(c) # {}) = TRUE
    BY <2>1
  <2>3. op'[c] = [op[c] EXCEPT !.at = "sync", !.cgresult = Missing(c) # {}]
    BY <2>1, <2>2
  <2> QED BY <1>2, <2>1, <2>3, AppliedPromises
<1>5. CASE ApplyBundle2(c) /\ Stop(c)
  BY <1>1, <1>5, NothingPromised DEF Stop, Update
<1>6. CASE ApplyBundle2(c) /\ ~Stop(c)
  <2>1. /\ op[c].at = "apply"
        /\ phase' = [phase EXCEPT ![Server] = PushedKeys(c, Applied(c))]
        /\ UNCHANGED <<graph, publishing, released>>
        /\ Update(c, [op[c] EXCEPT !.at = "sync", !.cgresult = Missing(c) # {}])
    BY <1>6 DEF ApplyBundle2
  <2>2. /\ UNCHANGED <<graph, publishing, phase[c]>>
        /\ op'[c] = [op[c] EXCEPT !.at = "sync", !.cgresult = Missing(c) # {}]
        /\ phase'[Server] = PushedKeys(c, Applied(c))
    BY <1>1, <1>3, <2>1 DEF Update
  <2>3. \A n \in Ancestors(graph, op[c].outdated) : PushedKeys(c, Applied(c))[n] = public
    BY <2>1, ApplyBundle2Is
  <2>4. op[c].outdated \subseteq Ancestors(graph, op[c].outdated)
    <3>1. op[c].outdated \subseteq Nodes(graph) /\ IsGraph(graph)
      BY <2>1, TargetIs DEF IInv, Closed
    <3> QED BY <3>1, AncestorsClosed
  <2>5. \A n \in op[c].outdated : phase'[Server][n] = public
    BY <2>2, <2>3, <2>4
  <2> QED BY <1>2, <2>1, <2>2, <2>5, AppliedPromises
<1> QED BY <1>4, <1>5, <1>6

\* What is below a changeset that is public at the server, or below one of
\* those still to be made public.
LEMMA BelowOne ==
    ASSUME IInv, NEW S, S \subseteq Nodes(graph), NEW T, NEW n \in Ancestors(graph, S),
           \A m \in S \ T : m \in Held(Server) /\ phase[Server][m] = public
    PROVE  \/ n \in Held(Server) /\ phase[Server][n] = public
           \/ n \in Ancestors(graph, S \cap T)
<1>1. IsGraph(graph)
  BY DEF IInv, Closed
<1>2. PICK m \in S : n \in Ancestors(graph, {m})
  BY <1>1, AncestorOfOne
<1>3. CASE m \in T
  <2>1. {m} \subseteq Ancestors(graph, S \cap T) /\ S \cap T \subseteq Nodes(graph)
    BY <1>1, <1>3, AncestorsClosed
  <2>2. Ancestors(graph, {m}) \subseteq Ancestors(graph, S \cap T)
    BY <1>1, <2>1, AncestorsMonotone
  <2> QED BY <1>2, <2>2
<1>4. CASE m \notin T
  <2> DEFINE M == {m}
  <2>1. \A x \in M : x \in Held(Server) /\ phase[Server][x] = public
    BY <1>4
  <2>2. n \in Ancestors(graph, M)
    BY <1>2
  <2> HIDE DEF M
  <2> QED BY <2>1, <2>2, PublicClosed
<1> QED BY <1>3, <1>4

\* What is pushed is here and served there, its ancestors too.
LEMMA PushedBelow ==
    ASSUME IInv, NEW c \in Client, op[c].at \in {"sync", "keys"},
           NEW n \in Ancestors(graph, Pushed(c))
    PROVE  /\ n \in Held(c) /\ n \in Held(Server)
           /\ phase[Server][n] \in {public, draft} /\ phase[c][n] \in {public, draft}
<1>1. c \in Repo /\ Server \in Repo /\ c # Server /\ IsGraph(graph)
  BY OperationIs DEF IInv, Closed
<1>2. /\ DownClosed(graph, Held(c)) /\ DownClosed(graph, Served(Server))
      /\ Held(c) \subseteq Nodes(graph) /\ Served(Server) \subseteq Held(Server)
  BY <1>1, HeldIs
<1>3. Pushed(c) \subseteq Held(c) /\ Pushed(c) \subseteq Served(Server)
  BY PushedIs
<1>4. n \in Held(c) /\ n \in Held(Server)
  BY <1>1, <1>2, <1>3, AncestorsLeast
<1>5. n \in Served(c) /\ n \in Served(Server)
  BY <1>1, <1>4, BothServe
<1>6. phase[Server][n] \in {public, draft, secret} /\ phase[c][n] \in {public, draft, secret}
  BY <1>1, <1>4, HeldIs
<1> QED BY <1>4, <1>5, <1>6, PhaseNumbers DEF Served

\* The phases of the server arrive: what is now public here is public there,
\* or below what is left to be made public.
LEMMA SyncLeaves ==
    ASSUME IInv, NEW c \in Client, SyncPhases(c), Promised(c),
           NEW n \in Ancestors(graph, Pushed(c)), publishing \/ phase'[c][n] = public
    PROVE  \/ n \in Held(Server) /\ phase[Server][n] = public
           \/ n \in Ancestors(graph, op[c].outdated \ PublicHeads(Log(c), Pushed(c)))
<1> DEFINE P == PublicHeads(Log(c), Pushed(c))
           S == op[c].outdated
           new == Synchronized(Log(c), phase[c], Pushed(c))
<1>1. op[c].at = "sync"
  BY DEF SyncPhases
<1>2. /\ c \in Repo /\ Held(c) \subseteq Nodes(graph) /\ DownClosed(graph, Held(c))
      /\ Pushed(c) \subseteq Held(c) /\ Pushed(c) \subseteq Served(Server)
      /\ S \subseteq Nodes(graph) /\ n \in Held(c) /\ n \in Held(Server)
  BY <1>1, PushedIs, PushedBelow, OperationIs, HeldIs, TargetIs
<1>3. phase'[c] = new
  <2>1. Moves(c, Held(c), new)
    BY SyncIs
  <2> QED BY <1>2, <2>1, MovesSafe
<1>4. /\ new[n] # phase[c][n] => n \in Held(Server)
      /\ new[n] = public /\ phase[c][n] # public => publishing \/ phase[Server][n] = public
  BY <1>2, SyncIs
<1>5. CASE publishing \/ phase[c][n] = public
  <2>1. \/ n \in Held(Server) /\ phase[Server][n] = public
        \/ n \in Ancestors(graph, S)
    BY <1>1, <1>5 DEF Promised, Target
  <2>2. CASE n \in Ancestors(graph, S)
    <3>1. \A x \in P : x \in Held(Server) /\ phase[Server][x] = public
      BY <1>2, PublicThere DEF Log
    <3> DEFINE T == S \ P
    <3>2. \A m \in S \ T : m \in Held(Server) /\ phase[Server][m] = public
      BY <3>1
    <3>3. S \cap T = S \ P
      OBVIOUS
    <3> HIDE DEF T, P, S
    <3>4. \/ n \in Held(Server) /\ phase[Server][n] = public
          \/ n \in Ancestors(graph, S \ P)
      BY <1>2, <2>2, <3>2, <3>3, BelowOne
    <3> QED BY <3>4 DEF P, S
  <2> QED BY <2>1, <2>2
<1>6. CASE ~(publishing \/ phase[c][n] = public)
  <2> HIDE DEF new
  <2> QED BY <1>2, <1>3, <1>4, <1>6
<1> QED BY <1>5, <1>6

LEMMA SyncPromises ==
    ASSUME IInv, NEW c \in Client, SyncPhases(c), Promised(c)
    PROVE  Compared(c)' /\ Promised(c)'
<1> DEFINE rest == op[c].outdated \ PublicHeads(Log(c), Pushed(c))
           o == [op[c] EXCEPT !.at = "keys", !.outdated = rest]
<1>1. /\ op[c].at = "sync" /\ op \in [Client -> Operation \cup {Idle}]
      /\ UNCHANGED <<graph, publishing, released>>
  BY DEF SyncPhases, IInv, TypeOK
<1>2. Update(c, Idle) \/ Update(c, o)
  BY DEF SyncPhases, Stop
<1>3. CASE Update(c, Idle)
  BY <1>1, <1>3, NothingPromised DEF Update
<1>4. CASE Update(c, o)
  <2>1. op[c] \in Operation /\ c \in Repo /\ Server \in Repo /\ c # Server
    BY <1>1, OperationIs
  <2>2. /\ op'[c] = o /\ o.common = op[c].common /\ o.outdated = rest /\ o.at = "keys"
        /\ o.cgresult = op[c].cgresult
    BY <1>1, <1>4, <2>1 DEF Update, Operation
  <2> HIDE DEF o
  <2>3. phase'[Server] = phase[Server] /\ Held(Server)' = Held(Server)
    <3>1. \A q \in Repo : q # c => phase'[q] = phase[q]
      BY <2>1, SyncIs, MovesSafe
    <3> QED BY <2>1, <3>1 DEF Held
  <2>4. Served(c)' = Served(c)
    BY SyncIs
  <2>5. CommonHeads(c)' = CommonHeads(c) /\ ServedHeads(c)' = ServedHeads(c)
    BY <1>1, <2>2, <2>4 DEF CommonHeads, ServedHeads
  <2>6. Target(c)' = Pushed(c)
    BY <2>2, <2>5 DEF Target, Pushed
  <2>7. \A n \in Ancestors(graph, Pushed(c)) : publishing \/ phase'[c][n] = public =>
            \/ n \in Held(Server) /\ phase[Server][n] = public
            \/ n \in Ancestors(graph, rest)
    BY SyncLeaves
  <2> HIDE DEF rest
  <2>8. Compared(c)'
    BY <2>2 DEF Compared
  <2>9. Promised(c)'
    BY <1>1, <2>2, <2>3, <2>6, <2>7 DEF Promised
  <2> QED BY <2>8, <2>9
<1> QED BY <1>2, <1>3, <1>4

\* One of the phases is made public at the server.
LEMMA PushKeyLeaves ==
    ASSUME IInv, NEW c \in Client, NEW k, PushKey(c, k), Promised(c),
           NEW n \in Ancestors(graph, Pushed(c)), publishing \/ phase[c][n] = public
    PROVE  \/ n \in Held(Server)' /\ phase'[Server][n] = public
           \/ n \in Ancestors(graph, op[c].outdated \ {k})
<1> DEFINE S == op[c].outdated
           H == Held(Server)
           ph == phase[Server]
           K == {k}
<1>1. /\ op[c].at = "keys" /\ k \in S
      /\ phase' = [phase EXCEPT ![Server] =
                       IF @[k] > draft THEN @ ELSE Advanced(Log(Server), @, public, K)]
  BY DEF PushKey
<1>2. IInv' /\ Later
  BY PushKeySafe
<1>3. /\ Carried(c) /\ c \in Repo /\ Server \in Repo /\ c # Server /\ IsGraph(graph)
      /\ DOMAIN phase = Repo /\ S \subseteq Nodes(graph)
  BY <1>1, OperationIs, TargetIs DEF IInv, Closed, TypeOK
<1>4. k \in H /\ k \in Held(c)
  BY <1>1, <1>3 DEF Carried
<1>5. /\ H \subseteq Nodes(graph) /\ DownClosed(graph, H) /\ ph \in [H -> allphases]
      /\ \A m \in H : \A p \in graph[m] : ph[p] <= ph[m]
      /\ ph[k] \in {public, draft, secret}
  BY <1>3, <1>4, HeldIs DEF IInv, TypeOK, Whole
<1>6. ~(ph[k] > draft)
  <2>1. k \in Served(Server)
    BY <1>3, <1>4, BothServe
  <2> QED BY <1>5, <2>1, PhaseNumbers DEF Served
<1>7. phase'[Server] = Advanced(Restricted(graph, H), ph, public, K)
  BY <1>1, <1>3, <1>6 DEF Log
<1>8. \A m \in Ancestors(graph, K) : m \in H /\ phase'[Server][m] = public
  <2>1. K \subseteq H
    BY <1>4
  <2>2. \A m \in Ancestors(graph, K) : m \in H /\ Advanced(Restricted(graph, H), ph, public, K)[m] = public
    <3> HIDE DEF H, ph, K
    <3> QED BY <1>5, <2>1, PublishedIs
  <2> QED BY <1>7, <2>2
<1>9. \A m \in H : phase[Server][m] = public => m \in Held(Server)' /\ phase'[Server][m] = public
  BY <1>2, PublicStays
<1>10. H \subseteq Held(Server)'
  BY <1>2, <1>3 DEF Later
<1>11. \/ n \in H /\ phase[Server][n] = public
       \/ n \in Ancestors(graph, S)
  BY <1>1 DEF Promised, Target
<1>12. CASE n \in Ancestors(graph, S)
  <2>1. PICK m \in S : n \in Ancestors(graph, {m})
    BY <1>3, <1>12, AncestorOfOne
  <2>2. CASE m = k
    BY <1>8, <1>10, <2>1, <2>2
  <2>3. CASE m # k
    <3>1. {m} \subseteq Ancestors(graph, S \ K) /\ S \ K \subseteq Nodes(graph)
      BY <1>3, <2>1, <2>3, AncestorsClosed
    <3>2. Ancestors(graph, {m}) \subseteq Ancestors(graph, S \ K)
      BY <1>3, <3>1, AncestorsMonotone
    <3> QED BY <2>1, <3>2
  <2> QED BY <2>2, <2>3
<1> QED BY <1>9, <1>11, <1>12

LEMMA PushKeyPromises ==
    ASSUME IInv, NEW c \in Client, NEW k, PushKey(c, k), Promised(c)
    PROVE  Compared(c)' /\ Promised(c)'
<1> DEFINE rest == op[c].outdated \ {k}
           o == [op[c] EXCEPT !.outdated = rest]
<1>1. /\ op[c].at = "keys" /\ op \in [Client -> Operation \cup {Idle}]
      /\ UNCHANGED <<graph, publishing, released>>
      /\ phase' = [phase EXCEPT ![Server] =
                       IF @[k] > draft THEN @ ELSE Advanced(Log(Server), @, public, {k})]
  BY DEF PushKey, IInv, TypeOK
<1>2. Update(c, Idle) \/ Update(c, o)
  BY DEF PushKey, Stop, Update
<1>3. CASE Update(c, Idle)
  BY <1>1, <1>3, NothingPromised DEF Update
<1>4. CASE Update(c, o)
  <2>1. op[c] \in Operation /\ c \in Repo /\ Server \in Repo /\ c # Server
    BY <1>1, OperationIs
  <2>2. /\ op'[c] = o /\ o.common = op[c].common /\ o.outdated = rest /\ o.at = "keys"
        /\ o.cgresult = op[c].cgresult
    BY <1>1, <1>4, <2>1 DEF Update, Operation
  <2> HIDE DEF o
  <2>3. phase'[c] = phase[c]
    <3>1. DOMAIN phase = Repo
      BY DEF IInv, TypeOK
    <3> QED BY <1>1, <2>1, <3>1
  <2>4. CommonHeads(c)' = CommonHeads(c) /\ ServedHeads(c)' = ServedHeads(c)
    BY <1>1, <2>2, <2>3 DEF CommonHeads, ServedHeads, Served, Held
  <2>5. Target(c)' = Pushed(c)
    BY <2>2, <2>4 DEF Target, Pushed
  <2>6. \A n \in Ancestors(graph, Pushed(c)) : publishing \/ phase[c][n] = public =>
            \/ n \in Held(Server)' /\ phase'[Server][n] = public
            \/ n \in Ancestors(graph, rest)
    BY PushKeyLeaves
  <2> HIDE DEF rest
  <2>7. Compared(c)'
    BY <2>2 DEF Compared
  <2>8. Promised(c)'
    BY <1>1, <2>2, <2>3, <2>5, <2>6 DEF Promised
  <2> QED BY <2>7, <2>8
<1> QED BY <1>2, <1>3, <1>4

\* A step of c, by any action
LEMMA OwnStep ==
    ASSUME IInv, NEW c \in Client, Compared(c), Promised(c),
           \/ \E push \in BOOLEAN, force \in BOOLEAN : Start(c, push, force)
           \/ Exchanging(c) \/ Die(c)
    PROVE  Compared(c)' /\ Promised(c)'
<1>1. op \in [Client -> Operation \cup {Idle}]
  BY DEF IInv, TypeOK
<1>2. CASE Die(c) \/ Pull(c)
  BY <1>1, <1>2, NothingPromised DEF Die, Pull, Stop, Update
<1>3. CASE (\E push \in BOOLEAN, force \in BOOLEAN : Start(c, push, force)) \/ FindCommon(c)
  BY <1>3, AskingPromises
<1>4. CASE FindOutdated(c)
  BY <1>4, FindOutdatedPromises
<1>5. CASE CheckHeads(c) \/ CheckRace(c)
  BY <1>5, CheckHeadsPromises
<1>6. CASE ApplyBundle1(c) \/ ApplyBundle2(c)
  BY <1>6, ApplyPromises
<1>7. CASE SyncPhases(c)
  BY <1>7, SyncPromises
<1>8. ASSUME NEW n \in Held(c), PushKey(c, n) PROVE Compared(c)' /\ Promised(c)'
  BY <1>8, PushKeyPromises
<1> QED BY <1>2, <1>3, <1>4, <1>5, <1>6, <1>7, <1>8 DEF Exchanging

\* The other clients wait in the meantime.
LEMMA OthersWait ==
    ASSUME IInv, NEW c \in Client, NEW d \in Client, d # c,
           \/ \E push \in BOOLEAN, force \in BOOLEAN : Start(c, push, force)
           \/ Exchanging(c) \/ Die(c)
    PROVE  Waits(d)
<1>1. DOMAIN op = Client /\ DOMAIN phase = Repo /\ d \in Repo /\ d # Server
  BY ServerAssumption DEF IInv, TypeOK, Repo
<1>2. op'[d] = op[d]
  BY <1>1 DEF Start, Exchanging, Die, FindCommon, FindOutdated, CheckHeads, CheckRace,
              ApplyBundle1, ApplyBundle2, SyncPhases, Pull, PushKey, Goto, Stop, Update
<1>3. phase'[d] = phase[d]
  BY <1>1 DEF Start, Exchanging, Die, FindCommon, FindOutdated, CheckHeads, CheckRace,
              ApplyBundle1, ApplyBundle2, SyncPhases, Pull, PushKey, Unchanged
<1> QED BY <1>2, <1>3 DEF Waits

LEMMA PushesStep ==
    ASSUME IInv, Pushes, [Next]_vars
    PROVE  Pushes'
<1>1. IInv' /\ Later /\ DOMAIN phase = Repo
  BY NextSafe DEF IInv, TypeOK
<1>2. ASSUME NEW d \in Client, Waits(d) PROVE Compared(d)' /\ Promised(d)'
  BY <1>1, <1>2, ComparedKept, PromisedKept DEF Pushes
<1>3. CASE UNCHANGED vars
  BY <1>2, <1>3 DEF vars, Waits, Pushes
<1>4. ASSUME NEW r \in Repo, UNCHANGED op, NEW new, phase' = [phase EXCEPT ![r] = new], Unlocked(r)
      PROVE  Pushes'
  <2> SUFFICES ASSUME NEW d \in Client PROVE Compared(d)' /\ Promised(d)'
    BY DEF Pushes
  <2>1. CASE d = r
    <3>1. op'[d] = Idle
      BY <1>4, <2>1 DEF Unlocked, Busy
    <3> QED BY <3>1, NothingPromised
  <2>2. CASE d # r
    <3>1. Waits(d)
      BY <1>1, <1>4, <2>2 DEF Waits, Repo
    <3> QED BY <1>2, <3>1
  <2> QED BY <2>1, <2>2
<1>5. ASSUME NEW c \in Client,
             \/ \E push \in BOOLEAN, force \in BOOLEAN : Start(c, push, force)
             \/ Exchanging(c) \/ Die(c)
      PROVE  Pushes'
  <2> SUFFICES ASSUME NEW d \in Client PROVE Compared(d)' /\ Promised(d)'
    BY DEF Pushes
  <2>1. CASE d = c
    BY <1>5, <2>1, OwnStep DEF Pushes
  <2>2. CASE d # c
    <3>1. Waits(d)
      BY <1>5, <2>2, OthersWait
    <3> QED BY <1>2, <3>1
  <2> QED BY <2>1, <2>2
<1>6. ASSUME NEW r \in Repo, NEW P \in ParentSets(Log(r)), NEW t \in {draft, secret}, Commit(r, P, t)
      PROVE  Pushes'
  BY <1>4, <1>6 DEF Commit
<1>7. ASSUME NEW r \in Repo, NEW n \in Held(r), NEW t \in {public, draft}, LowerPhase(r, n, t)
      PROVE  Pushes'
  BY <1>4, <1>7 DEF LowerPhase
<1>8. Forcing \subseteq Client
  BY BoundAssumption
<1> QED BY <1>3, <1>5, <1>6, <1>7, <1>8 DEF Next

LEMMA PushesInit == Init => Pushes
<1> SUFFICES ASSUME Init, NEW c \in Client PROVE Compared(c) /\ Promised(c)
  BY DEF Pushes
<1>1. op[c].at = "idle"
  BY DEF Init, Idle
<1> QED BY <1>1 DEF Compared, Promised

LEMMA PushesInvariant == Spec => []Pushes
BY PushesInit, PushesStep, Invariant, PTL DEF Spec

-----------------------------------------------------------------------------
(* No new heads                                                            *)

\* After a bundle of c, the server serves what it served and what was missing.
LEMMA ServedAfter ==
    ASSUME IInv, NEW c \in Client, op[c].at = "apply",
           phase' = [phase EXCEPT ![Server] = PushedKeys(c, Applied(c))],
           UNCHANGED <<graph, publishing, released>>
    PROVE  Served(Server)' = Served(Server) \cup Missing(c)
<1> DEFINE H == Held(Server) \cup Missing(c)
           S == op[c].outdated
           ph == Applied(c)
           new == PushedKeys(c, ph)
<1>1. /\ Carried(c) /\ Server \in Repo /\ c \in Repo /\ c # Server /\ IsGraph(graph)
  BY OperationIs DEF IInv, Closed
<1>2. /\ Moves(Server, H, new)
      /\ \A n \in H : new[n] <= ph[n]
      /\ \A n \in H : n \notin Ancestors(graph, S) => new[n] = ph[n]
  BY ApplyBundle2Is
<1>3. /\ ph \in [H -> allphases]
      /\ \A n \in Held(Server) : phase[Server][n] = secret => ph[n] = secret
      /\ \A n \in Missing(c) : ph[n] <= draft
  BY <1>1, AppliedIs DEF Carried
<1> HIDE DEF new, ph
<1>4. /\ Held(Server)' = H /\ phase'[Server] = new /\ Served(Server) \subseteq Served(Server)'
      /\ new \in [H -> allphases]
  <2>1. new \in [H -> allphases]
    BY <1>2 DEF Moves
  <2> HIDE DEF H
  <2>2. /\ Held(Server)' = H /\ phase'[Server] = new
        /\ Served(Server) \subseteq Served(Server)'
    BY <1>1, <1>2, MovesSafe
  <2> QED BY <2>1, <2>2
<1>5. Ancestors(graph, S) \subseteq Served(c) /\ Served(c) \subseteq Held(c)
  <2>1. S \subseteq Served(c)
    BY <1>1 DEF Carried
  <2>2. DownClosed(graph, Served(c)) /\ Served(c) \subseteq Held(c) /\ Held(c) \subseteq Nodes(graph)
    BY <1>1, HeldIs
  <2> QED BY <1>1, <2>1, <2>2, AncestorsLeast
<1>6. ASSUME NEW n \in Missing(c) PROVE n \in Served(Server)'
  <2>1. n \in H /\ new[n] \in {0, 1, 2} /\ ph[n] \in {0, 1, 2} /\ new[n] <= ph[n] /\ ph[n] <= 1
    BY <1>2, <1>3, <1>4, PhaseNumbers
  <2>2. new[n] < 2
    BY <2>1
  <2> QED BY <1>4, <2>1, <2>2, PhaseNumbers DEF Served
<1>7. ASSUME NEW n \in Served(Server)', n \notin Missing(c) PROVE n \in Served(Server)
  <2>1. n \in Held(Server) /\ n \in H /\ new[n] < secret
    BY <1>4, <1>7 DEF Served
  <2>2. CASE n \in Ancestors(graph, S)
    BY <1>1, <1>5, <2>1, <2>2, BothServe
  <2>3. CASE n \notin Ancestors(graph, S)
    <3>1. ph[n] # secret
      BY <1>2, <2>1, <2>3, PhaseNumbers
    <3>2. phase[Server][n] # secret /\ phase[Server][n] \in {public, draft, secret}
      BY <1>1, <1>3, <2>1, <3>1, HeldIs
    <3> QED BY <2>1, <3>2, PhaseNumbers DEF Served
  <2> QED BY <2>2, <2>3
<1> QED BY <1>4, <1>6, <1>7

\* The heads that the server will have are among those that were counted.
LEMMA CountedHeads ==
    ASSUME IInv, NEW c \in Client, op[c].at = "apply"
    PROVE  HeadsOf(graph, Served(Server) \cup Missing(c)) \subseteq NewHeads(c)
<1> DEFINE T == Served(Server) \cup Missing(c)
           heads == ServedHeads(Server)
           candidates == (heads \cap Held(c)) \cup Missing(c)
           above == UNION {graph[n] : n \in Missing(c)}
           covered == Ancestors(graph, above)
<1>1. /\ Carried(c) /\ Server \in Repo /\ c \in Repo /\ IsGraph(graph)
  BY OperationIs DEF IInv, Closed
<1>2. /\ Served(c) \subseteq Held(c) /\ Held(c) \subseteq Nodes(graph)
      /\ Served(Server) \subseteq Nodes(graph)
      /\ DownClosed(graph, Served(c)) /\ DownClosed(graph, Served(Server))
  BY <1>1, HeldIs
<1>3. /\ Missing(c) \subseteq Served(c) /\ \A n \in Served(c) : n \notin Missing(c) => n \in Served(Server)
      /\ Missing(c) \subseteq T
  BY <1>1 DEF Missing, Carried
<1>4. DownClosed(graph, T)
  BY <1>2, <1>3 DEF DownClosed
<1>5. above \subseteq T /\ above \subseteq Nodes(graph)
  <2>1. \A n \in Missing(c) : graph[n] \subseteq T /\ graph[n] \subseteq Nodes(graph)
    BY <1>1, <1>2, <1>3, <1>4 DEF DownClosed, IsGraph
  <2> QED BY <2>1
<1>6. covered \subseteq T
  <2> HIDE DEF above, T
  <2> QED BY <1>1, <1>4, <1>5, AncestorsLeast
<1>7. candidates \subseteq T
  BY DEF ServedHeads, HeadsOf
<1>8. ASSUME NEW h \in HeadsOf(graph, T) PROVE h \in NewHeads(c)
  <2>1. h \in T /\ ~\E k \in T : h \in graph[k]
    BY <1>8 DEF HeadsOf
  <2>2. h \notin covered
    <3> SUFFICES ASSUME h \in covered PROVE FALSE
      OBVIOUS
    <3>1. h \in above \/ \E k \in covered : h \in graph[k]
      <4> HIDE DEF above
      <4> QED BY <1>1, <1>5, AncestorsOf
    <3>2. CASE h \in above
      <4>1. \E n \in Missing(c) : h \in graph[n]
        BY <3>2
      <4> QED BY <1>3, <2>1, <4>1
    <3> HIDE DEF covered, T
    <3> QED BY <1>6, <2>1, <3>1, <3>2
  <2>3. h \in Missing(c) \/ h \in heads
    BY <2>1 DEF ServedHeads, HeadsOf
  <2>4. CASE h \in candidates
    <3>1. ~\E k \in candidates \ covered : h \in graph[k]
      <4> HIDE DEF covered, T, candidates
      <4> QED BY <1>7, <2>1
    <3>2. h \in HeadsOf(graph, candidates \ covered)
      <4> HIDE DEF covered, candidates
      <4> QED BY <2>2, <2>4, <3>1 DEF HeadsOf
    <3> QED BY <3>2 DEF NewHeads
  <2>5. CASE h \notin candidates
    <3>1. h \in heads \ Held(c)
      BY <2>3, <2>5
    <3> QED BY <3>1 DEF NewHeads
  <2> QED BY <2>4, <2>5
<1> QED BY <1>8

LEMMA KeepsHeadsStep ==
    ASSUME IInv, Pushes, NEW c \in Bundle2, Applies(c), ~op[c].force
    PROVE  KeepsHeads
<1> DEFINE T == Served(Server) \cup Missing(c)
<1>1. c \in Client /\ Compared(c) /\ Server \in Repo
  BY BoundAssumption DEF Pushes, Repo
<1>2. ApplyBundle2(c) /\ op[c].at = "apply"
  BY <1>1 DEF Applies, ApplyBundle1, ApplyBundle2, Compared
<1>3. /\ \A S \in SUBSET Nodes(graph) : IsFiniteSet(S) /\ Cardinality(S) \in Nat
      /\ Served(Server) \subseteq Nodes(graph) /\ ServedHeads(Server) \subseteq Nodes(graph)
      /\ NewHeads(c) \subseteq Nodes(graph)
  <2>1. Nodes(graph) \subseteq 1..MaxNode /\ MaxNode \in Nat
    BY BoundAssumption DEF IInv, TypeOK
  <2>2. IsFiniteSet(1..MaxNode)
    BY <2>1, FS_Interval
  <2>3. \A S \in SUBSET Nodes(graph) : IsFiniteSet(S) /\ Cardinality(S) \in Nat
    <3> TAKE S \in SUBSET Nodes(graph)
    <3>1. S \subseteq 1..MaxNode
      BY <2>1
    <3>2. IsFiniteSet(S)
      BY <2>2, <3>1, FS_Subset
    <3> QED BY <3>2, FS_CardinalityType
  <2>4. Served(Server) \subseteq Nodes(graph) /\ Missing(c) \subseteq Nodes(graph)
    <3>1. c \in Repo
      BY <1>1 DEF Repo
    <3> QED BY <1>1, <3>1, HeldIs DEF Missing
  <2>5. ServedHeads(Server) \subseteq Nodes(graph)
    BY <2>4 DEF ServedHeads, HeadsOf
  <2>6. NewHeads(c) \subseteq Nodes(graph)
    BY <2>4, <2>5 DEF NewHeads, HeadsOf
  <2> QED BY <2>3, <2>4, <2>5, <2>6
<1>4. CASE ServedHeads(Server)' = ServedHeads(Server)
  <2>1. Cardinality(ServedHeads(Server)) <= Cardinality(ServedHeads(Server))
    BY <1>3
  <2> QED BY <1>4, <2>1 DEF KeepsHeads
<1>5. CASE Stop(c) /\ Unchanged
  <2>1. ServedHeads(Server)' = ServedHeads(Server)
    BY <1>5 DEF Unchanged, ServedHeads, Served, Held
  <2> QED BY <1>4, <2>1
<1>6. CASE /\ phase' = [phase EXCEPT ![Server] = PushedKeys(c, Applied(c))]
           /\ UNCHANGED <<graph, publishing, released>>
           /\ ~(Missing(c) # {} /\ Raced(c))
  <2>1. ServedHeads(Server)' = HeadsOf(graph, T)
    <3>1. Served(Server)' = T
      BY <1>1, <1>2, <1>6, ServedAfter
    <3> QED BY <1>6, <3>1 DEF ServedHeads
  <2>2. CASE Missing(c) = {}
    <3>1. T = Served(Server)
      BY <2>2
    <3> QED BY <1>4, <2>1, <3>1 DEF ServedHeads
  <2>3. CASE Missing(c) # {} /\ ServedHeads(Server) # {}
    <3>1. ServedHeads(Server) = op[c].remoteheads
      BY <1>6, <2>3 DEF Raced
    <3>2. ~(Cardinality(NewHeads(c)) > Cardinality(ServedHeads(Server)))
      BY <1>1, <1>2, <2>3, <3>1 DEF Compared, AddsHeads
    <3>3. HeadsOf(graph, T) \subseteq NewHeads(c)
      BY <1>1, <1>2, CountedHeads
    <3>4. Cardinality(HeadsOf(graph, T)) <= Cardinality(NewHeads(c))
      BY <1>3, <3>3, FS_Subset
    <3>5. /\ Cardinality(NewHeads(c)) \in Nat /\ Cardinality(ServedHeads(Server)) \in Nat
          /\ Cardinality(HeadsOf(graph, T)) \in Nat
      BY <1>3, <3>3
    <3> HIDE DEF T
    <3>6. Cardinality(HeadsOf(graph, T)) <= Cardinality(ServedHeads(Server))
      BY <3>2, <3>4, <3>5
    <3> QED BY <2>1, <3>6 DEF KeepsHeads
  <2>4. CASE ServedHeads(Server) = {}
    BY <2>4 DEF KeepsHeads
  <2> QED BY <2>2, <2>3, <2>4
<1> QED BY <1>2, <1>5, <1>6 DEF ApplyBundle2

\* A push with bundle2 that is not forced leaves the server with no more heads
\* than it had: what was compared when the heads were checked is what the
\* bundle meets, or the bundle is refused (discovery.checkheads,
\* exchange.check_heads).
THEOREM NoNewHeadsHolds == Spec => NoNewHeads
<1>1. IInv /\ Pushes /\ [Next]_vars =>
          [\A c \in Bundle2 : Applies(c) /\ ~op[c].force => KeepsHeads]_vars
  BY KeepsHeadsStep
<1> QED BY <1>1, Invariant, PushesInvariant, PTL DEF Spec, NoNewHeads

-----------------------------------------------------------------------------
(* Phases that are pushed                                                  *)

\* At the end of a push nothing is left to be made public.
LEMMA SyncEnds ==
    ASSUME IInv, Pushes, NEW c \in Client, SyncPhases(c), op'[c] = Idle,
           NEW n \in Ancestors(graph, Pushed(c))
    PROVE  phase'[Server][n] <= phase'[c][n]
<1> DEFINE rest == op[c].outdated \ PublicHeads(Log(c), Pushed(c))
           o == [op[c] EXCEPT !.at = "keys", !.outdated = rest]
           new == Synchronized(Log(c), phase[c], Pushed(c))
<1>1. /\ op[c].at = "sync" /\ op \in [Client -> Operation \cup {Idle}]
      /\ c \in Repo /\ Server \in Repo /\ c # Server /\ op[c] \in Operation
      /\ Carried(c) /\ Promised(c) /\ IsGraph(graph)
  BY OperationIs DEF SyncPhases, IInv, TypeOK, Closed, Pushes
<1>2. n \in Held(c) /\ phase[Server][n] \in {public, draft}
  BY <1>1, PushedBelow
<1>3. phase'[Server] = phase[Server] /\ phase'[c] = new
  <2>1. Moves(c, Held(c), new)
    BY SyncIs
  <2>2. phase'[c] = new /\ \A q \in Repo : q # c => phase'[q] = phase[q]
    BY <1>1, <2>1, MovesSafe
  <2> QED BY <1>1, <2>2
<1>4. new[n] \in {public, draft, secret}
  BY <1>2, SyncIs
<1>5. rest = {} \/ c \in Bundle2
  <2> SUFFICES ASSUME ~(rest = {} \/ c \in Bundle2) PROVE FALSE
    OBVIOUS
  <2>1. Update(c, o)
    BY DEF SyncPhases
  <2>2. op'[c].at = "keys"
    BY <1>1, <2>1 DEF Update, Operation
  <2> QED BY <2>2 DEF Idle
<1>6. ASSUME publishing \/ phase'[c][n] = public PROVE phase[Server][n] = public
  <2>1. \/ n \in Held(Server) /\ phase[Server][n] = public
        \/ n \in Ancestors(graph, rest)
    BY <1>1, <1>6, SyncLeaves
  <2>2. CASE n \in Ancestors(graph, rest)
    <3>1. rest # {}
      <4> HIDE DEF rest
      <4> QED BY <1>1, <2>2, AncestorsOfNone
    <3>2. \A m \in rest : m \in Held(Server) /\ phase[Server][m] = public
      BY <1>1, <1>5, <3>1 DEF Promised, Carried
    <3> HIDE DEF rest
    <3> QED BY <2>2, <3>2, PublicClosed
  <2> QED BY <2>1, <2>2
<1> HIDE DEF new
<1> QED BY <1>2, <1>3, <1>4, <1>6, PhaseNumbers

LEMMA PushKeyEnds ==
    ASSUME IInv, Pushes, NEW c \in Client, NEW k, PushKey(c, k), op'[c] = Idle,
           NEW n \in Ancestors(graph, Pushed(c))
    PROVE  phase'[Server][n] <= phase'[c][n]
<1> DEFINE rest == op[c].outdated \ {k}
           o == [op[c] EXCEPT !.outdated = rest]
<1>1. /\ op[c].at = "keys" /\ op \in [Client -> Operation \cup {Idle}]
      /\ c \in Repo /\ Server \in Repo /\ c # Server /\ op[c] \in Operation
      /\ Promised(c) /\ IsGraph(graph)
  BY OperationIs DEF PushKey, IInv, TypeOK, Closed, Pushes
<1>2. /\ n \in Held(Server) /\ phase[Server][n] \in {public, draft}
      /\ phase[c][n] \in {public, draft}
  BY <1>1, PushedBelow
<1>3. phase'[c] = phase[c] /\ DOMAIN phase' = Repo
  <2>1. DOMAIN phase = Repo
    BY DEF IInv, TypeOK
  <2> QED BY <1>1, <2>1 DEF PushKey
<1>4. phase'[Server][n] <= phase[Server][n] /\ phase'[Server][n] \in allphases
  <2>1. IInv' /\ Later
    BY PushKeySafe
  <2>2. /\ n \in Held(Server)' /\ phase'[Server][n] <= phase[Server][n]
        /\ phase'[Server] \in [Held(Server)' -> allphases]
    BY <1>1, <1>2, <2>1 DEF Later, IInv, TypeOK
  <2> QED BY <2>2
<1>5. op[c].outdated = {k}
  <2> SUFFICES ASSUME op[c].outdated # {k} PROVE FALSE
    OBVIOUS
  <2>1. Update(c, o)
    BY DEF PushKey, Update
  <2>2. op'[c].at = "keys"
    BY <1>1, <2>1 DEF Update, Operation
  <2> QED BY <2>2 DEF Idle
<1>6. ASSUME phase[c][n] = public PROVE phase'[Server][n] = public
  <2>1. \/ phase'[Server][n] = public
        \/ n \in Ancestors(graph, rest)
    BY <1>1, <1>6, PushKeyLeaves
  <2>2. rest = {}
    BY <1>5
  <2> QED BY <1>1, <2>1, <2>2, AncestorsOfNone
<1> QED BY <1>2, <1>3, <1>4, <1>6, PhaseNumbers

\* When a push is over, nothing that was pushed is public here and a draft on
\* the server, whatever others did between the two listings of the phases and
\* the keys that are pushed one by one (exchange._pushsyncphase).
THEOREM PhasesPushedHolds == Spec => PhasesPushed
<1>1. IInv /\ Pushes /\ [Next]_vars =>
          [\A c \in Client : Finishes(c) =>
              \A n \in Ancestors(graph, Pushed(c)) : phase'[Server][n] <= phase'[c][n]]_vars
  BY SyncEnds, PushKeyEnds DEF Finishes
<1> QED BY <1>1, Invariant, PushesInvariant, PTL DEF Spec, PhasesPushed
=============================================================================
