------------------------------ MODULE Exchange ------------------------------
(***************************************************************************)
(* Clients that push to a server and pull from it (mercurial/exchange.py,  *)
(* discovery.py, changegroup.py, phases.py).  A client holds the lock of   *)
(* its own repository for the whole of a push or pull; the server takes    *)
(* its lock only to apply what is pushed.  Between the questions a client  *)
(* asks (heads, known changesets, phases, branch heads), and before its    *)
(* bundle is applied, others commit on the server and push to it.          *)
(*                                                                         *)
(* There is one named branch.  Pushes and pulls are of everything.  A      *)
(* client may die at any moment; its transaction is rolled back.           *)
(***************************************************************************)
EXTENDS ChangesetGraph

CONSTANTS Client, Server,
          Bundle2,   \* the clients that use bundle2
          Committers, \* bound: where changesets are committed
          Releasers,  \* bound: where phases are lowered by users
          Forcing,    \* bound: the clients that push with --force
          MaxNode     \* bound: changesets

ASSUME ServerAssumption == Server \notin Client
ASSUME BoundAssumption ==
    /\ Bundle2 \subseteq Client /\ Forcing \subseteq Client
    /\ MaxNode \in Nat \ {0}

VARIABLES graph,       \* all changesets and their parents
          phase,       \* the changesets of each repository, with their phases
          publishing,  \* phases.publish of the server
          op,          \* the push or pull operation of each client
          released     \* changesets made public by somebody's decision

vars == <<graph, phase, publishing, op, released>>

Repo == Client \cup {Server}

Held(r) == DOMAIN phase[r]
Log(r) == Restricted(graph, Held(r))

\* The 'served' view of a repository, and its heads.
Served(r) == {n \in Held(r) : phase[r][n] < secret}
ServedHeads(r) == HeadsOf(graph, Served(r))

Idle == [at |-> "idle"]
Busy(c) == op[c] # Idle

Operation ==
    [at : {"common", "phases", "check", "apply", "unbundle", "sync", "keys", "pull"},
     push : BOOLEAN, force : BOOLEAN,
     remoteheads : SUBSET (1..MaxNode),  \* pushoperation.remoteheads
     common : SUBSET (1..MaxNode),       \* outgoing.common
     outdated : SUBSET (1..MaxNode),     \* pushoperation.outdatedphases
     cgresult : BOOLEAN]                 \* changesets were pushed

TypeOK ==
    /\ Nodes(graph) \subseteq 1..MaxNode
    /\ DOMAIN phase = Repo
    /\ \A r \in Repo : Held(r) \subseteq Nodes(graph) /\ phase[r] \in [Held(r) -> allphases]
    /\ publishing \in BOOLEAN
    /\ op \in [Client -> Operation \cup {Idle}]
    /\ released \subseteq Nodes(graph)

\* Repositories that are clones of a server with one changeset or, bound:
\* when the server is publishing, also repositories that are all empty.
Init ==
    /\ publishing \in BOOLEAN
    /\ op = [c \in Client |-> Idle]
    /\ \/ graph = NoChangesets /\ publishing
       \/ graph = Added(NoChangesets, 1, {})
    /\ phase = [r \in Repo |-> [n \in Nodes(graph) |-> IF publishing THEN public ELSE draft]]
    /\ released = IF publishing THEN Nodes(graph) ELSE {}

-----------------------------------------------------------------------------
(* What users do in a repository that no exchange has locked.              *)

Unlocked(r) == r \in Client => ~Busy(r)

Commit(r, P, t) ==
    LET n == NextNode(graph)
        g == Added(Log(r), n, P)
    IN  /\ Unlocked(r) /\ n <= MaxNode /\ r \in Committers
        /\ graph' = Added(graph, n, P)
        /\ phase' = [phase EXCEPT ![r] = Retracted(g, Inherited(g, @), t, {n})]
        /\ UNCHANGED <<publishing, op, released>>

\* hg phase --public or --draft
LowerPhase(r, n, t) ==
    /\ Unlocked(r) /\ phase[r][n] > t /\ r \in Releasers
    /\ phase' = [phase EXCEPT ![r] = Advanced(Log(r), @, t, {n})]
    /\ released' = released \cup (IF t = public THEN Ancestors(graph, {n}) ELSE {})
    /\ UNCHANGED <<graph, publishing, op>>

-----------------------------------------------------------------------------
(* Discovery, the beginning of a push and of a pull.                       *)

Update(c, o) == op' = [op EXCEPT ![c] = o]
Goto(c, step) == Update(c, [op[c] EXCEPT !.at = step])
Stop(c) == Update(c, Idle)
Unchanged == UNCHANGED <<graph, phase, publishing, released>>

Start(c, push, force) ==
    /\ ~Busy(c)
    /\ Update(c, [at |-> "common", push |-> push, force |-> force,
                  remoteheads |-> ServedHeads(Server), common |-> {},
                  outdated |-> {}, cgresult |-> FALSE])
    /\ Unchanged

\* Mutant: nothing in common is reported as the null changeset in common.
Common_null(c) ==
    LET known == Held(c) \cap Served(Server)
    IN  IF known = {} THEN {0} ELSE known

\* findcommonheads: when not all remote heads are known here, the answers of
\* the server to later questions count.
Common(c) ==
    IF op[c].remoteheads \subseteq Held(c)
    THEN Ancestors(graph, op[c].remoteheads)
    ELSE Held(c) \cap Served(Server)

Unrelated(c) == Held(c) # {} /\ op[c].remoteheads # {} /\ Common(c) = {}

FindCommon(c) ==
    /\ op[c].at = "common"
    /\ IF Unrelated(c) /\ ~op[c].force
       THEN Stop(c)
       ELSE Update(c, [op[c] EXCEPT !.common = Common(c),
                                    !.at = IF op[c].push THEN "phases" ELSE "pull"])
    /\ Unchanged

-----------------------------------------------------------------------------
(* Phases of the other side.                                               *)

\* listphases: the draft roots.
DraftRoots(r) == RootsOf(graph, {n \in Held(r) : phase[r][n] = draft})

\* analyzeremotephases, newheads: the heads of what is public remotely, in a
\* repository with changesets g.
PublicHeads(g, subset) ==
    LET droots == DraftRoots(Server) \cap Nodes(g)
        parents == UNION {g[n] : n \in droots}
    IN  HeadsOf(g, (subset \cup parents) \ Between(g, droots, subset))

\* Mutant: changesets are moved without their ancestors.
Synchronized_alone(g, ph, heads) ==
    LET moved == IF publishing THEN heads ELSE PublicHeads(g, heads)
    IN  [n \in DOMAIN ph |-> IF n \in moved THEN public ELSE ph[n]]

\* Phases of c after moving the common heads to what the server has.
Synchronized(g, ph, heads) ==
    IF publishing THEN Advanced(g, ph, public, heads)
    ELSE Advanced(g, Advanced(g, ph, public, PublicHeads(g, heads)), draft, heads)

-----------------------------------------------------------------------------
(* Push.                                                                   *)

\* Mutant: what is missing is computed from all that is here.
Missing_unfiltered(c) == Held(c) \ op[c].common

Missing(c) == Served(c) \ op[c].common
CommonHeads(c) == HeadsOf(graph, op[c].common)

\* Mutant: only what is public here and was public there is left out.
Outdated_drafts(c, droots, heads) ==
    HeadsOf(graph, {n \in Between(Log(c), droots, heads) : phase[c][n] # public})

\* Heads of what is draft there and, unless all is to be published, public here.
Outdated(c, droots, heads) ==
    HeadsOf(graph, {n \in Between(Log(c), droots, heads) : publishing \/ phase[c][n] = public})

FindOutdated(c) ==
    LET droots == DraftRoots(Server) \cap Held(c)
        fdroots == RootsOf(graph, Missing(c) \cup Descendants(Log(c), droots))
    IN  /\ op[c].at = "phases"
        /\ Update(c, [op[c] EXCEPT
                !.outdated = IF Missing(c) = {} THEN Outdated(c, droots, CommonHeads(c))
                             ELSE Outdated(c, fdroots, ServedHeads(c)),
                !.at = IF Missing(c) = {} THEN (IF c \in Bundle2 THEN "apply" ELSE "sync")
                       ELSE "check"])
        /\ Unchanged

\* checkheads: the heads that the branch will have, of those known here and
\* of those that are not, against the heads that it has.
NewHeads(c) ==
    LET heads == ServedHeads(Server)
        candidates == (heads \cap Held(c)) \cup Missing(c)
        covered == Ancestors(graph, UNION {graph[n] : n \in Missing(c)})
    IN  HeadsOf(graph, candidates \ covered) \cup (heads \ Held(c))
AddsHeads(c) ==
    op[c].remoteheads # {} /\ Cardinality(NewHeads(c)) > Cardinality(ServedHeads(Server))

CheckHeads(c) ==
    /\ op[c].at = "check"
    /\ IF ~op[c].force /\ AddsHeads(c) THEN Stop(c) ELSE Goto(c, "apply")
    /\ Unchanged

\* Mutant: heads are counted, not compared.
Raced_counted(c) ==
    ~op[c].force /\ Cardinality(ServedHeads(Server)) # Cardinality(op[c].remoteheads)

\* check:heads, check_heads
Raced(c) == ~op[c].force /\ ServedHeads(Server) # op[c].remoteheads

\* cg1unpacker.apply on the server.
Applied(c) ==
    LET g == Restricted(graph, Held(Server) \cup Missing(c))
        inherited == Inherited(g, phase[Server])
        added == Missing(c) \ Held(Server)
    IN  IF publishing THEN Advanced(g, inherited, public, Missing(c))
        ELSE Retracted(g, Advanced(g, inherited, draft, Missing(c)), draft, added)

\* pushphase, for each of the changesets to make public: fails when one is
\* neither draft nor public.
PushKeysFail(c, ph) == \E n \in op[c].outdated : ph[n] > draft
PushedKeys(c, ph) == Advanced(Restricted(graph, DOMAIN ph), ph, public, op[c].outdated)

\* The parts of a bundle2, in one transaction of the server.
ApplyBundle2(c) ==
    /\ op[c].at = "apply" /\ c \in Bundle2
    /\ IF \/ Missing(c) # {} /\ Raced(c)
          \/ PushKeysFail(c, Applied(c))
       THEN Stop(c) /\ Unchanged
       ELSE /\ phase' = [phase EXCEPT ![Server] = PushedKeys(c, Applied(c))]
            /\ Update(c, [op[c] EXCEPT !.at = "sync", !.cgresult = Missing(c) # {}])
            /\ UNCHANGED <<graph, publishing, released>>

\* Without bundle2 the heads are compared first, and then the server's lock
\* is taken.
CheckRace(c) ==
    /\ op[c].at = "apply" /\ c \notin Bundle2
    /\ IF Raced(c) THEN Stop(c) ELSE Goto(c, "unbundle")
    /\ Unchanged
ApplyBundle1(c) ==
    /\ op[c].at = "unbundle"
    /\ phase' = [phase EXCEPT ![Server] = Applied(c)]
    /\ Update(c, [op[c] EXCEPT !.at = "sync", !.cgresult = TRUE])
    /\ UNCHANGED <<graph, publishing, released>>

\* _pushsyncphase: the phases of the server are listed again and applied here;
\* without bundle2 the outdated ones are then pushed.
Pushed(c) == IF op[c].cgresult THEN ServedHeads(c) ELSE CommonHeads(c)
SyncPhases(c) ==
    LET outdated == op[c].outdated \ PublicHeads(Log(c), Pushed(c))
    IN  /\ op[c].at = "sync"
        /\ phase' = [phase EXCEPT ![c] = Synchronized(Log(c), @, Pushed(c))]
        /\ IF outdated = {} \/ (c \in Bundle2 /\ op[c].cgresult) THEN Stop(c)
           ELSE Update(c, [op[c] EXCEPT !.at = "keys", !.outdated = outdated])
        /\ UNCHANGED <<graph, publishing, released>>
PushKey(c, n) ==
    /\ op[c].at = "keys" /\ n \in op[c].outdated
    /\ phase' = [phase EXCEPT ![Server] = IF @[n] > draft THEN @ ELSE Advanced(Log(Server), @, public, {n})]
    /\ IF op[c].outdated = {n} THEN Stop(c)
       ELSE Update(c, [op[c] EXCEPT !.outdated = @ \ {n}])
    /\ UNCHANGED <<graph, publishing, released>>

-----------------------------------------------------------------------------
(* Pull: what was missing when the heads were listed is added, then the    *)
(* phases of the server are listed and applied, in one transaction.        *)

Incoming(c) == Ancestors(graph, op[c].remoteheads) \ Held(c)

Pull(c) ==
    LET g == Restricted(graph, Held(c) \cup Incoming(c))
        added == Retracted(g, Inherited(g, phase[c]), draft, Incoming(c))
    IN  /\ op[c].at = "pull"
        /\ phase' = [phase EXCEPT ![c] = Synchronized(g, added, CommonHeads(c) \cup op[c].remoteheads)]
        /\ Stop(c)
        /\ UNCHANGED <<graph, publishing, released>>

Die(c) == Busy(c) /\ Stop(c) /\ Unchanged

-----------------------------------------------------------------------------
Exchanging(c) ==
    \/ FindCommon(c) \/ FindOutdated(c) \/ CheckHeads(c)
    \/ ApplyBundle2(c) \/ CheckRace(c) \/ ApplyBundle1(c)
    \/ SyncPhases(c) \/ Pull(c)
    \/ \E n \in Held(c) : PushKey(c, n)

Next ==
    \/ \E r \in Repo : \E P \in ParentSets(Log(r)), t \in {draft, secret} : Commit(r, P, t)
    \/ \E r \in Repo : \E n \in Held(r), t \in {public, draft} : LowerPhase(r, n, t)
    \/ \E c \in Client : Start(c, TRUE, FALSE)
    \/ \E c \in Forcing : Start(c, TRUE, TRUE)
    \/ \E c \in Client : Start(c, FALSE, FALSE)
    \/ \E c \in Client : Exchanging(c)
    \/ \E c \in Client : Die(c)

Spec == Init /\ [][Next]_vars

-----------------------------------------------------------------------------
(* Properties.                                                             *)

\* Whatever a bundle was computed from, a repository that holds a changeset
\* holds its ancestors, none of which is in a higher phase.
Whole ==
    \A r \in Repo : \A n \in Held(r) :
        /\ graph[n] \subseteq Held(r)
        /\ \A p \in graph[n] : phase[r][p] <= phase[r][n]

\* A changeset that is secret somewhere is nowhere else: neither a push, nor
\* what a server gives to a pull, takes it along.  And phases seen by racing
\* pushes and pulls make nothing public that was not released by somebody or
\* published by the server.
NothingEscapes ==
    \A r \in Repo : \A n \in Held(r) :
        /\ phase[r][n] = secret => \A q \in Repo \ {r} : n \notin Held(q)
        /\ phase[r][n] = public => n \in released \/ (publishing /\ n \in Held(Server))

\* A push that is not forced leaves the server with no more heads than it
\* had, whoever has pushed or committed since discovery; the first push to an
\* empty repository excepted (discovery.checkheads, check_heads).
Applies(c) == ApplyBundle2(c) \/ ApplyBundle1(c)
KeepsHeads ==
    ServedHeads(Server) = {}
    \/ Cardinality(ServedHeads(Server)') <= Cardinality(ServedHeads(Server))
NoNewHeads == [][\A c \in Bundle2 : Applies(c) /\ ~op[c].force => KeepsHeads]_vars

\* The same for every client: "this function makes sure the repo is locked
\* during the application and have mechanism to check that no push race
\* occurred" (exchange.unbundle).
NoPushRace == [][\A c \in Client : Applies(c) /\ ~op[c].force => KeepsHeads]_vars

\* When a push is over, what is public here is public on the server, even if
\* others have pushed and moved phases meanwhile.
Finishes(c) == (SyncPhases(c) \/ \E n \in Held(c) : PushKey(c, n)) /\ op'[c] = Idle
PhasesPushed ==
    [][\A c \in Client : Finishes(c) =>
        \A n \in Ancestors(graph, Pushed(c)) : phase'[Server][n] <= phase'[c][n]]_vars

=============================================================================
