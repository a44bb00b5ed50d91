-------------------------- MODULE RepoAgentProofs --------------------------
(***************************************************************************)
(* Proofs about RepoAgent, for any repositories, any number of users,      *)
(* sessions and writes: types, the life of agents in order, and that no    *)
(* state of a repository is recorded without having been shown.            *)
(***************************************************************************)
EXTENDS RepoAgent, FiniteSetTheorems, TLAPS

\* References between agents are counted.
Refs ==
    /\ \A p \in Path : kids[p] # {} => p \in Top /\ Users(p)
    /\ \A s \in Path : Parents(s) > 0 => Users(s) /\ ref[s] >= Parents(s)

\* What the state of an agent says of its monitor, service and commands.
Life ==
    \A p \in Path :
       /\ ref[p] = Gone => srv[p] = "off"
       /\ ref[p] = 0 => srv[p] = "stopping"
       /\ Busy(p) => Users(p)
       /\ running[p] => Busy(p) /\ srv[p] # "off"
       /\ mon[p] => ~Busy(p) /\ ~overlay[p] /\ Users(p)
       /\ changing[p] => Busy(p) \/ (~Quiet /\ gui.path = p)

\* A poll is about an agent in use.
Loop == ~Quiet => gui.path \in Path /\ Users(gui.path)

\* A writer changes the first file, then the second.
Files ==
    \A p \in Path :
       /\ writer[p] = "locked" => disk[p].a < MaxVersion
       /\ disk[p].a = IF writer[p] = "a" THEN disk[p].b + 1 ELSE disk[p].b

\* Nothing that was read is newer than the disk, and what is recorded as the
\* state of the disk was shown.
Views ==
    /\ \A p \in Path : /\ last[p].a <= disk[p].a /\ last[p].b <= disk[p].b
                       /\ p \in cached /\ last[p] = disk[p] => shown[p] = disk[p]
    /\ gui.at \in {"reread", "check"} => seen.a <= disk[gui.path].a
    /\ gui.at = "check" => seen.b <= disk[gui.path].b

Inv == Refs /\ Life /\ Loop /\ Files /\ Views

-----------------------------------------------------------------------------
(* Counting references                                                     *)

LEMMA ParentsFinite ==
    ASSUME NEW s \in Path
    PROVE  IsFiniteSet({p \in Path : s \in kids[p]})
BY PathAssumption, FS_Subset, {p \in Path : s \in kids[p]} \in SUBSET Path

LEMMA ParentsType ==
    ASSUME NEW s \in Path
    PROVE  /\ Parents(s) \in Nat
           /\ \A p \in Path : s \in kids[p] => Parents(s) > 0
<1> DEFINE P == {p \in Path : s \in kids[p]}
<1>1. IsFiniteSet(P)
  BY ParentsFinite
<1>2. Cardinality(P) \in Nat /\ (P # {} => Cardinality(P) > 0)
  BY <1>1, FS_CardinalityType, FS_EmptySet
<1> QED BY <1>1, <1>2 DEF Parents

\* A subrepository gets one more parent (subRepoAgent).
LEMMA ParentsAdd ==
    ASSUME TypeOK, NEW p \in Path, NEW s \in Path, s \notin kids[p],
           kids' = [kids EXCEPT ![p] = @ \cup {s}], NEW q \in Path
    PROVE  Parents(q)' = IF q = s THEN Parents(q) + 1 ELSE Parents(q)
<1> DEFINE P == {x \in Path : q \in kids[x]}
<1>1. IsFiniteSet(P)
  BY ParentsFinite
<1>2. \A x \in Path : q \in kids'[x] <=> q \in kids[x] \/ (x = p /\ q = s)
  BY DEF TypeOK
<1>3. CASE q = s
  <2>1. {x \in Path : q \in kids'[x]} = P \cup {p} /\ p \notin P
    BY <1>2, <1>3
  <2>2. Cardinality(P \cup {p}) = Cardinality(P) + 1
    BY <1>1, <2>1, FS_AddElement
  <2> QED BY <1>3, <2>1, <2>2 DEF Parents
<1>4. CASE q # s
  <2>1. {x \in Path : q \in kids'[x]} = P
    BY <1>2, <1>4
  <2> QED BY <1>4, <2>1 DEF Parents
<1> QED BY <1>3, <1>4

\* All children of one agent are let go (releaseSubRepoAgents).
LEMMA ParentsClear ==
    ASSUME TypeOK, NEW p \in Path, kids' = [kids EXCEPT ![p] = {}], NEW q \in Path
    PROVE  Parents(q)' = IF q \in kids[p] THEN Parents(q) - 1 ELSE Parents(q)
<1> DEFINE P == {x \in Path : q \in kids[x]}
<1>1. IsFiniteSet(P)
  BY ParentsFinite
<1>2. {x \in Path : q \in kids'[x]} = P \ {p}
  BY DEF TypeOK
<1>3. Cardinality(P \ {p}) = IF p \in P THEN Cardinality(P) - 1 ELSE Cardinality(P)
  BY <1>1, FS_RemoveElement
<1>4. p \in P <=> q \in kids[p]
  OBVIOUS
<1> QED BY <1>2, <1>3, <1>4 DEF Parents

\* What is released is in use.
LEMMA ReleasedAreUsed ==
    ASSUME TypeOK, Refs, NEW p \in Path, Users(p)
    PROVE  /\ {p} \cup kids[p] \subseteq Path
           /\ \A q \in {p} \cup kids[p] : Users(q)
           /\ \A q \in kids[p] : q \in Sub
<1>1. kids[p] \subseteq Sub /\ Sub \subseteq Path
  BY DEF TypeOK, Path
<1>2. \A q \in kids[p] : Users(q)
  BY <1>1, ParentsType DEF Refs
<1> QED BY <1>1, <1>2

-----------------------------------------------------------------------------
(* Types                                                                   *)

LEMMA NoteTypes == Gone \notin Int /\ MaxRef \in Nat /\ MaxRef >= 1 /\ MaxQueue \in Nat
                   /\ MaxQueue >= 1 /\ MaxVersion \in Nat /\ Idle \in
            [at : {"idle", "begin", "read", "reread", "check", "end"},
                path : Path \cup {Gone}, resume : BOOLEAN] /\ Zero \in State
BY PathAssumption, BoundAssumption DEF Idle, Zero, State, Version

LEMMA InitTypes == Init => TypeOK
BY NoteTypes DEF Init, TypeOK, Zero, State, Version

\* One more user of an agent, in range
LEMMA OpenTypes ==
    ASSUME TypeOK, NEW p \in Path, OpenAgent(p)
    PROVE  /\ ref' \in [Path -> 0..MaxRef \cup {Gone}] /\ cached' \subseteq Path
           /\ mon' \in [Path -> BOOLEAN]
           /\ last' \in [Path -> State] /\ shown' \in [Path -> State]
<1>1. ref[p] = Gone \/ ref[p] \in 0..MaxRef - 1
  BY DEF OpenAgent
<1>2. (IF ref[p] = Gone THEN 1 ELSE ref[p] + 1) \in 0..MaxRef
  BY <1>1, NoteTypes
<1>3. ref' \in [Path -> 0..MaxRef \cup {Gone}]
  BY <1>2 DEF OpenAgent, TypeOK
<1>4. cached' \subseteq Path /\ mon' \in [Path -> BOOLEAN]
  BY DEF OpenAgent, TypeOK
<1>5. last' \in [Path -> State] /\ shown' \in [Path -> State]
  BY DEF OpenAgent, TypeOK
<1> QED BY <1>3, <1>4, <1>5

\* The queue of a session that has run gets shorter.
LEMMA DequeueTypes ==
    ASSUME TypeOK, Life, NEW p \in Path, running[p], Dequeue(p)
    PROVE  /\ queue' \in [Path -> 0..MaxQueue] /\ running' \in [Path -> BOOLEAN]
           /\ gui' \in [at : {"idle", "begin", "read", "reread", "check", "end"},
                         path : Path \cup {Gone}, resume : BOOLEAN]
<1>1. queue[p] \in 0..MaxQueue /\ queue[p] > 0
  BY DEF TypeOK, Life, Busy
<1>2. queue[p] - 1 \in 0..MaxQueue
  BY <1>1, NoteTypes
<1> QED BY <1>2 DEF Dequeue, TypeOK

LEMMA ManagerTypes ==
    ASSUME TypeOK, Inv, NEW p \in Path,
           Open(p) \/ (\E s \in Path : OpenSub(p, s)) \/ Release(p)
    PROVE  TypeOK'
<1>1. CASE Open(p)
  BY <1>1, OpenTypes DEF TypeOK, Open, repos, cmds, world, loop
<1>2. ASSUME NEW s \in Path, OpenSub(p, s) PROVE TypeOK'
  <2>1. kids' \in [Path -> SUBSET Sub]
    BY <1>2 DEF OpenSub, TypeOK
  <2> QED BY <1>2, <2>1, OpenTypes DEF TypeOK, OpenSub, repos, cmds, world, loop
<1>3. CASE Release(p)
  <2> DEFINE S == IF ref[p] = 1 THEN {p} \cup kids[p] ELSE {p}
  <2>1. ReleaseAll(S) /\ Users(p)
    BY <1>3 DEF Release
  <2>2. \A q \in S : q \in Path /\ Users(q)
    BY <2>1, ReleasedAreUsed DEF Inv
  <2>3. ref' \in [Path -> 0..MaxRef \cup {Gone}]
    <3>1. \A q \in S : ref[q] - 1 \in 0..MaxRef
      BY <2>2, NoteTypes DEF Users
    <3> HIDE DEF S
    <3> QED BY <2>1, <3>1 DEF ReleaseAll, TypeOK
  <2>4. /\ mon' \in [Path -> BOOLEAN] /\ event' \in [Path -> BOOLEAN]
        /\ srv' \in [Path -> {"off", "ready", "stopping", "restarting"}]
    BY <2>1 DEF ReleaseAll, TypeOK
  <2>5. kids' \in [Path -> SUBSET Sub]
    BY <1>3 DEF Release, TypeOK
  <2> QED BY <1>3, <2>3, <2>4, <2>5 DEF TypeOK, Release, repos, world, views, loop
<1> QED BY <1>1, <1>2, <1>3

LEMMA AgentTypes ==
    ASSUME TypeOK, Inv, NEW p \in Path,
           \/ RunCommand(p) \/ RunNextSession(p) \/ CommandFinished(p)
           \/ ServiceFinished(p) \/ ServiceRestarted(p) \/ ConfigChanged(p)
           \/ SetOverlay(p) \/ ClearOverlay(p) \/ Suspend(p) \/ Resume(p)
    PROVE  TypeOK'
<1>1. CASE RunCommand(p)
  <2>1. queue[p] + 1 \in 0..MaxQueue
    BY <1>1, NoteTypes DEF RunCommand, TypeOK
  <2> QED BY <1>1, <2>1 DEF TypeOK, RunCommand, agents, repos, world, views, loop
<1>2. CASE RunNextSession(p)
  <2>1. srv' \in [Path -> {"off", "ready", "stopping", "restarting"}]
    BY <1>2 DEF RunNextSession, TypeOK
  <2> QED BY <1>2, <2>1 DEF TypeOK, RunNextSession, agents, watch, repos, world, views, loop
<1>3. CASE CommandFinished(p)
  BY <1>3, DequeueTypes
     DEF Inv, TypeOK, CommandFinished, agents, watch, repos, world, views
<1>4. CASE ServiceFinished(p)
  <2>1. /\ queue' \in [Path -> 0..MaxQueue] /\ running' \in [Path -> BOOLEAN]
        /\ gui' \in [at : {"idle", "begin", "read", "reread", "check", "end"},
                      path : Path \cup {Gone}, resume : BOOLEAN]
    BY <1>4, DequeueTypes DEF Inv, TypeOK, ServiceFinished
  <2>2. /\ ref' \in [Path -> 0..MaxRef \cup {Gone}]
        /\ srv' \in [Path -> {"off", "ready", "stopping", "restarting"}]
    BY <1>4 DEF TypeOK, ServiceFinished
  <2> QED BY <1>4, <2>1, <2>2 DEF TypeOK, ServiceFinished, watch, repos, world, views
<1>5. CASE ServiceRestarted(p)
  BY <1>5 DEF TypeOK, ServiceRestarted, agents, watch, repos, world, views, loop
<1>6. CASE ConfigChanged(p)
  BY <1>6 DEF TypeOK, ConfigChanged, agents, watch, repos, world, views, loop
<1>7. CASE SetOverlay(p)
  <2>1. Busy(p) \in BOOLEAN
    BY DEF Busy
  <2>2. changing' \in [Path -> BOOLEAN]
    BY <1>7, <2>1, Zenon DEF TypeOK, SetOverlay
  <2> QED BY <1>7, <2>2 DEF TypeOK, SetOverlay, agents, cmds, world, views, loop
<1>8. CASE ClearOverlay(p)
  BY <1>8 DEF TypeOK, ClearOverlay, agents, watch, cmds, world, views
<1>9. CASE Suspend(p)
  BY <1>9 DEF TypeOK, Suspend, agents, repos, cmds, world, views, loop
<1>10. CASE Resume(p)
  BY <1>10 DEF TypeOK, Resume, agents, watch, repos, cmds, world, views
<1> QED BY <1>1, <1>2, <1>3, <1>4, <1>5, <1>6, <1>7, <1>8, <1>9, <1>10

LEMMA PollTypes ==
    ASSUME TypeOK, Inv, Polling \/ \E p \in Path : FsEvent(p)
    PROVE  TypeOK'
<1>1. ASSUME NEW p \in Path, FsEvent(p) PROVE TypeOK'
  BY <1>1 DEF TypeOK, FsEvent, agents, repos, cmds, world, views
<1>2. CASE PollBegin
  BY <1>2 DEF TypeOK, PollBegin, Step, agents, watch, repos, cmds, world, views
<1>3. CASE ReadFirst \/ ReadSecond
  <2>1. gui.path \in Path
    BY <1>3 DEF ReadFirst, ReadSecond, Inv, Loop, Quiet
  <2>2. seen' \in State
    BY <1>3, <2>1 DEF TypeOK, ReadFirst, ReadSecond, State
  <2> QED BY <1>3, <2>2
     DEF TypeOK, ReadFirst, ReadSecond, Step, agents, watch, repos, cmds, world, views
<1>4. CASE PollCheck
  <2>1. last' \in [Path -> State] /\ shown' \in [Path -> State]
    BY <1>4 DEF TypeOK, PollCheck, views
  <2> QED BY <1>4, <2>1 DEF TypeOK, PollCheck, Step, agents, watch, repos, cmds, world
<1>5. CASE PollEnd
  <2>1. changing' \in [Path -> BOOLEAN] /\ mon' \in [Path -> BOOLEAN]
    BY <1>5 DEF TypeOK, PollEnd
  <2> QED BY <1>5, <2>1, NoteTypes DEF TypeOK, PollEnd, agents, cmds, world, views
<1> QED BY <1>1, <1>2, <1>3, <1>4, <1>5 DEF Polling

LEMMA WriterTypes ==
    ASSUME TypeOK, Inv, NEW p \in Path, Writing(p)
    PROVE  TypeOK'
<1>1. /\ disk[p] \in State /\ disk[p].a \in 0..MaxVersion /\ disk[p].b \in 0..MaxVersion
      /\ MaxVersion \in Nat
  BY NoteTypes DEF TypeOK, State, Version
<1>2. ASSUME NEW from \in {"none", "locked", "a", "b"}, NEW to \in {"none", "locked", "a", "b"},
             Write(p, from, to), disk' \in [Path -> State]
      PROVE  TypeOK'
  <2>1. writer' \in [Path -> {"none", "locked", "a", "b"}] /\ event' \in [Path -> BOOLEAN]
    BY <1>2 DEF TypeOK, Write
  <2> QED BY <1>2, <2>1 DEF TypeOK, Write, agents, repos, cmds, views, loop
<1>3. CASE LockRepo(p) \/ UnlockRepo(p)
  BY <1>2, <1>3 DEF LockRepo, UnlockRepo, TypeOK
<1>4. CASE WriteFirst(p)
  <2>1. disk[p].a + 1 \in Version
    BY <1>1, <1>4 DEF WriteFirst, Write, Inv, Files, Version
  <2>2. disk' \in [Path -> State]
    BY <1>1, <1>4, <2>1 DEF WriteFirst, TypeOK, State
  <2> QED BY <1>2, <1>4, <2>2 DEF WriteFirst
<1>5. CASE WriteSecond(p)
  <2>1. disk[p].b + 1 \in Version
    BY <1>1, <1>5 DEF WriteSecond, Write, Inv, Files, Version
  <2>2. disk' \in [Path -> State]
    BY <1>1, <1>5, <2>1 DEF WriteSecond, TypeOK, State
  <2> QED BY <1>2, <1>5, <2>2 DEF WriteSecond
<1> QED BY <1>3, <1>4, <1>5 DEF Writing

LEMMA NextTypes == TypeOK /\ Inv /\ [Next]_vars => TypeOK'
<1> SUFFICES ASSUME TypeOK, Inv, [Next]_vars PROVE TypeOK'
  OBVIOUS
<1>1. CASE UNCHANGED vars
  BY <1>1 DEF TypeOK, vars, agents, watch, repos, cmds, world, views, loop
<1>2. CASE Next
  <2>1. Top \subseteq Path
    BY DEF Path
  <2> QED BY <1>2, <2>1, ManagerTypes, AgentTypes, PollTypes, WriterTypes DEF Next
<1> QED BY <1>1, <1>2

-----------------------------------------------------------------------------
(* References                                                              *)

LEMMA RefsNext ==
    ASSUME TypeOK, Inv, [Next]_vars
    PROVE  Refs'
<1>1. ASSUME UNCHANGED kids,
             \A q \in Path : Users(q) => Users(q)' /\ ref'[q] >= ref[q]
      PROVE  Refs'
  <2>1. \A q \in Path : Parents(q)' = Parents(q)
    BY <1>1 DEF Parents
  <2>2. \A q \in Path : Users(q) => ref[q] \in Int /\ ref'[q] \in Int
    BY <1>1, NoteTypes DEF Users
  <2>3. \A q \in Path : Parents(q) \in Nat
    BY ParentsType
  <2> QED BY <1>1, <2>1, <2>2, <2>3 DEF Inv, Refs
<1>2. ASSUME NEW p \in Path, OpenAgent(p)
      PROVE  /\ \A q \in Path : Users(q) => Users(q)' /\ ref'[q] >= ref[q]
             /\ Users(p)' /\ (Users(p) => ref'[p] = ref[p] + 1)
  BY <1>2, NoteTypes DEF OpenAgent, Users, TypeOK
<1>3. ASSUME NEW p \in Path, Open(p) PROVE Refs'
  BY <1>1, <1>2, <1>3 DEF Open
<1>4. ASSUME NEW p \in Path, NEW s \in Path, OpenSub(p, s) PROVE Refs'
  <2>1. /\ OpenAgent(s) /\ p \in Top /\ s \notin kids[p] /\ Users(p)
        /\ kids' = [kids EXCEPT ![p] = @ \cup {s}]
    BY <1>4 DEF OpenSub
  <2>2. \A q \in Path : Parents(q)' = IF q = s THEN Parents(q) + 1 ELSE Parents(q)
    BY <2>1, ParentsAdd
  <2>3. /\ \A q \in Path : Users(q) => Users(q)' /\ ref'[q] >= ref[q]
        /\ Users(s)' /\ (Users(s) => ref'[s] = ref[s] + 1)
    BY <1>2, <2>1
  <2>4. ASSUME NEW q \in Path, kids'[q] # {} PROVE q \in Top /\ Users(q)'
    BY <2>1, <2>3, <2>4 DEF TypeOK, Inv, Refs
  <2>5. ASSUME NEW q \in Path, Parents(q)' > 0 PROVE Users(q)' /\ ref'[q] >= Parents(q)'
    <3>1. Parents(q) \in Nat
      BY ParentsType
    <3>2. CASE q # s
      BY <2>2, <2>3, <2>5, <3>1, <3>2, NoteTypes DEF Inv, Refs, Users
    <3>3. CASE q = s /\ Parents(q) > 0
      BY <2>2, <2>3, <3>1, <3>3 DEF Inv, Refs, Users
    <3>4. CASE q = s /\ Parents(q) = 0
      BY <2>2, <2>3, <3>4, NoteTypes DEF Users
    <3> QED BY <3>1, <3>2, <3>3, <3>4
  <2> QED BY <2>4, <2>5 DEF Refs
<1>5. ASSUME NEW p \in Path, Release(p) PROVE Refs'
  <2>1. Users(p) /\ ref[p] > Parents(p) /\ ref[p] \in Nat /\ Parents(p) \in Nat
    <3>1. Users(p) /\ ref[p] > Parents(p)
      BY <1>5 DEF Release
    <3> QED BY <3>1, ParentsType, NoteTypes DEF Users
  <2>2. CASE ref[p] # 1
    <3>1. kids' = kids /\ ReleaseAll({p})
      BY <1>5, <2>2 DEF Release
    <3>2. \A q \in Path : ref'[q] = IF q = p THEN ref[p] - 1 ELSE ref[q]
      BY <2>2, <3>1 DEF ReleaseAll, Dying
    <3>3. \A q \in Path : Parents(q)' = Parents(q)
      BY <3>1 DEF Parents
    <3>4. Users(p)' /\ ref'[p] >= Parents(p)
      BY <2>1, <2>2, <3>2, NoteTypes DEF Users
    <3> QED BY <3>1, <3>2, <3>3, <3>4 DEF Inv, Refs, Users
  <2>3. CASE ref[p] = 1
    <3>1. kids' = [kids EXCEPT ![p] = {}] /\ ReleaseAll({p} \cup kids[p]) /\ Parents(p) = 0
      BY <1>5, <2>1, <2>3 DEF Release
    <3>2. \A q \in Path : Parents(q)' = IF q \in kids[p] THEN Parents(q) - 1 ELSE Parents(q)
      BY <3>1, ParentsClear
    <3>3. p \notin kids[p]
      <4>1. ~(Parents(p) > 0)
        BY <3>1
      <4> QED BY <4>1, ParentsType
    <3>4. ASSUME NEW q \in Path, kids'[q] # {} PROVE q \in Top /\ Users(q)'
      <4>1. q # p /\ q \in Top /\ Users(q)
        BY <3>1, <3>4 DEF TypeOK, Inv, Refs
      <4>2. q \notin kids[p]
        BY <2>1, <4>1, ReleasedAreUsed, PathAssumption DEF Inv
      <4>3. ref'[q] = ref[q]
        BY <3>1, <4>1, <4>2 DEF ReleaseAll
      <4> QED BY <4>1, <4>3 DEF Users
    <3>5. ASSUME NEW q \in Path, Parents(q)' > 0 PROVE Users(q)' /\ ref'[q] >= Parents(q)'
      <4>1. Parents(q) \in Nat
        BY ParentsType
      <4>2. CASE q \in kids[p]
        <5>1. Users(q) /\ ref[q] >= Parents(q) /\ Parents(q) >= 2 /\ Parents(q)' = Parents(q) - 1
          BY <3>2, <3>5, <4>1, <4>2 DEF Inv, Refs
        <5>2. ref[q] \in Nat /\ ref[q] >= 2 /\ ref[q] <= MaxRef
          BY <4>1, <5>1, NoteTypes DEF Users
        <5>3. ref'[q] = ref[q] - 1
          BY <3>1, <4>2, <5>2 DEF ReleaseAll, Dying
        <5> QED BY <4>1, <5>1, <5>2, <5>3, NoteTypes DEF Users
      <4>3. CASE q \notin kids[p]
        <5>1. Parents(q)' = Parents(q) /\ q # p
          BY <3>1, <3>2, <3>3, <3>5, <4>3
        <5>2. ref'[q] = ref[q]
          BY <3>1, <4>3, <5>1 DEF ReleaseAll
        <5> QED BY <3>5, <5>1, <5>2 DEF Inv, Refs, Users
      <4> QED BY <4>2, <4>3
    <3> QED BY <3>4, <3>5 DEF Refs
  <2> QED BY <2>2, <2>3
<1>6. ASSUME NEW p \in Path, ServiceFinished(p) PROVE Refs'
  <2>1. UNCHANGED kids /\ \A q \in Path : Users(q) => ref'[q] = ref[q]
    BY <1>6, NoteTypes DEF ServiceFinished, Users, TypeOK
  <2>2. \A q \in Path : Users(q) => Users(q)' /\ ref'[q] >= ref[q]
    BY <2>1, NoteTypes DEF Users
  <2> QED BY <1>1, <2>1, <2>2
<1>7. ASSUME UNCHANGED <<kids, ref>> PROVE Refs'
  <2>1. \A q \in Path : Parents(q)' = Parents(q)
    BY <1>7 DEF Parents
  <2> QED BY <1>7, <2>1 DEF Inv, Refs, Users
<1>8. ASSUME NEW p \in Path,
             \/ RunCommand(p) \/ RunNextSession(p) \/ CommandFinished(p)
             \/ ServiceRestarted(p) \/ ConfigChanged(p)
             \/ SetOverlay(p) \/ ClearOverlay(p) \/ Suspend(p) \/ Resume(p)
             \/ FsEvent(p) \/ Writing(p)
      PROVE  UNCHANGED <<kids, ref>>
  BY <1>8 DEF RunCommand, RunNextSession, CommandFinished, ServiceRestarted, ConfigChanged,
              SetOverlay, ClearOverlay, Suspend, Resume, FsEvent, Writing, LockRepo,
              WriteFirst, WriteSecond, UnlockRepo, Write, agents
<1>9. ASSUME Polling \/ UNCHANGED vars PROVE UNCHANGED <<kids, ref>>
  BY <1>9 DEF Polling, PollBegin, ReadFirst, ReadSecond, PollCheck, PollEnd, agents, vars
<1>10. Top \subseteq Path
  BY DEF Path
<1> QED BY <1>3, <1>4, <1>5, <1>6, <1>7, <1>8, <1>9, <1>10 DEF Next

-----------------------------------------------------------------------------
(* The life of agents                                                      *)

LEMMA OpenLife ==
    ASSUME TypeOK, Inv, NEW p \in Path, Quiet, OpenAgent(p), UNCHANGED <<repos, cmds, loop>>
    PROVE  Life' /\ Loop'
<1>1. /\ ref[p] = Gone \/ ref[p] \in 0..MaxRef - 1
      /\ \A q \in Path : /\ ref'[q] = IF q # p THEN ref[q] ELSE IF ref[p] = Gone THEN 1 ELSE ref[p] + 1
                         /\ mon'[q] = IF q = p /\ ref[p] = Gone
                                      THEN mon[q] \/ (~Busy(q) /\ ~overlay[q]) ELSE mon[q]
  BY DEF OpenAgent, TypeOK
<1>2. Users(p)' /\ ref'[p] # Gone /\ ref'[p] # 0 /\ Gone # 0
  BY <1>1, NoteTypes DEF Users
<1>3. \A q \in Path : q # p => ref'[q] = ref[q] /\ Users(q)' = Users(q) /\ mon'[q] = mon[q]
  BY <1>1 DEF Users
<1>4. UNCHANGED <<overlay, changing, queue, running, srv, gui>>
  BY DEF repos, cmds, loop
<1>5. mon'[p] => ~Busy(p) /\ ~overlay[p]
  BY <1>1 DEF Inv, Life
<1>6. Life'
  BY <1>2, <1>3, <1>4, <1>5 DEF Inv, Life, Busy, Quiet
<1>7. Loop'
  BY <1>4 DEF Loop, Quiet
<1> QED BY <1>6, <1>7

\* Agents that are released while they run nothing are stopped, or gone.
LEMMA ReleaseLife ==
    ASSUME ~BusyRelease, TypeOK, Inv, NEW p \in Path, Release(p)
    PROVE  Life' /\ Loop'
<1> DEFINE S == IF ref[p] = 1 THEN {p} \cup kids[p] ELSE {p}
<1>1. /\ Quiet /\ Users(p) /\ ReleaseAll(S) /\ (\A q \in Dying(S) : ~Busy(q))
      /\ UNCHANGED <<overlay, changing, queue, running, gui>>
  BY DEF Release, repos, loop
<1>2. S \subseteq Path /\ \A q \in S : Users(q)
  BY <1>1, ReleasedAreUsed DEF Inv
<1> HIDE DEF S
<1>0. ASSUME NEW q \in Path
      PROVE  /\ ref'[q] = IF q \notin S THEN ref[q]
                          ELSE IF q \in Dying(S) /\ srv[q] = "off" THEN Gone ELSE ref[q] - 1
             /\ mon'[q] = (mon[q] /\ q \notin Dying(S))
             /\ srv'[q] = IF q \in Dying(S) /\ srv[q] # "off" THEN "stopping" ELSE srv[q]
  BY <1>1 DEF ReleaseAll
<1>3. ASSUME NEW q \in Path \ S
      PROVE  ref'[q] = ref[q] /\ Users(q)' = Users(q) /\ mon'[q] = mon[q] /\ srv'[q] = srv[q]
  <2>1. q \notin S /\ q \notin Dying(S) /\ mon[q] \in BOOLEAN
    BY <1>3 DEF Dying, TypeOK
  <2> QED BY <1>0, <2>1 DEF Users
<1>4. ASSUME NEW q \in S, ref[q] # 1
      PROVE  Users(q)' /\ ref'[q] # 0 /\ ref'[q] # Gone /\ mon'[q] = mon[q] /\ srv'[q] = srv[q]
  <2>1. ref'[q] = ref[q] - 1 /\ mon'[q] = mon[q] /\ srv'[q] = srv[q]
    <3>1. q \in Path /\ q \notin Dying(S) /\ mon[q] \in BOOLEAN
      BY <1>2, <1>4 DEF Dying, TypeOK
    <3> QED BY <1>0, <1>4, <3>1
  <2>2. ref[q] \in Nat /\ ref[q] >= 2 /\ ref[q] <= MaxRef
    BY <1>2, <1>4, NoteTypes DEF Users
  <2> QED BY <2>1, <2>2, NoteTypes DEF Users
<1>5. ASSUME NEW q \in S, ref[q] = 1
      PROVE  /\ ~mon'[q] /\ ~Busy(q)
             /\ IF srv[q] = "off" THEN ref'[q] = Gone /\ srv'[q] = "off"
                ELSE ref'[q] = 0 /\ srv'[q] = "stopping"
  <2>1. q \in Path /\ q \in Dying(S) /\ ref[q] - 1 = 0
    BY <1>2, <1>5 DEF Dying
  <2> QED BY <1>0, <1>1, <1>5, <2>1
<1>6. Gone # 0
  BY NoteTypes
<1>7. ASSUME NEW q \in Path
      PROVE  /\ ref'[q] = Gone => srv'[q] = "off"
             /\ ref'[q] = 0 => srv'[q] = "stopping"
             /\ Busy(q)' => Users(q)'
             /\ running'[q] => Busy(q)' /\ srv'[q] # "off"
             /\ mon'[q] => ~Busy(q)' /\ ~overlay'[q] /\ Users(q)'
             /\ changing'[q] => Busy(q)' \/ (~Quiet' /\ gui'.path = q)
  <2>1. Busy(q)' = Busy(q) /\ running'[q] = running[q] /\ overlay'[q] = overlay[q]
        /\ (changing'[q] => Busy(q))
    BY <1>1 DEF Inv, Life, Busy, Quiet
  <2>2. CASE q \notin S
    BY <1>3, <2>1, <2>2 DEF Inv, Life
  <2>3. CASE q \in S /\ ref[q] # 1
    <3>1. /\ Users(q)' /\ ref'[q] # 0 /\ ref'[q] # Gone /\ mon'[q] = mon[q] /\ srv'[q] = srv[q]
      BY <1>4, <2>3
    <3> QED BY <2>1, <3>1 DEF Inv, Life
  <2>4. CASE q \in S /\ ref[q] = 1
    <3>1. /\ ~mon'[q] /\ ~Busy(q)
          /\ IF srv[q] = "off" THEN ref'[q] = Gone /\ srv'[q] = "off"
             ELSE ref'[q] = 0 /\ srv'[q] = "stopping"
      BY <1>5, <2>4
    <3> QED BY <1>6, <2>1, <3>1 DEF Inv, Life
  <2> QED BY <2>2, <2>3, <2>4
<1>8. Life'
  BY <1>7 DEF Life
<1>9. Loop'
  BY <1>1 DEF Loop, Quiet
<1> QED BY <1>8, <1>9

\* The end of a session, in an agent that stays in use
LEMMA DequeueLife ==
    ASSUME TypeOK, Inv, NEW p \in Path, Quiet, running[p], Dequeue(p),
           UNCHANGED <<mon, overlay, changing>>,
           \A q \in Path : ref'[q] = ref[q] /\ (q # p => srv'[q] = srv[q]),
           ref'[p] # 0
    PROVE  Life' /\ Loop'
<1>1. Users(p) /\ Busy(p) /\ ~mon[p]
  BY DEF Inv, Life
<1>2. queue[p] \in Nat /\ queue[p] > 0 /\ Gone # 0 /\ ref[p] # Gone
  BY <1>1, NoteTypes DEF TypeOK, Busy, Users
<1>3. /\ queue'[p] = queue[p] - 1
      /\ \A q \in Path : /\ q # p => queue'[q] = queue[q]
                         /\ running'[q] = IF q = p THEN FALSE ELSE running[q]
      /\ gui' = IF queue[p] = 1 THEN [at |-> "begin", path |-> p, resume |-> TRUE] ELSE gui
  BY <1>1 DEF Dequeue, TypeOK
<1>4. \A q \in Path : /\ Users(q)' = Users(q)
                     /\ (q # p => Busy(q)' = Busy(q))
  BY <1>3 DEF Users, Busy
<1>5. Busy(p)' \/ (~Quiet' /\ gui'.path = p)
  <2>1. CASE queue[p] = 1
    BY <1>3, <2>1 DEF Quiet
  <2>2. CASE queue[p] # 1
    <3>1. queue[p] - 1 > 0
      BY <1>2, <2>2
    <3> QED BY <1>3, <3>1 DEF Busy
  <2> QED BY <2>1, <2>2
<1>6. \A q \in Path : q # p /\ changing[q] => Busy(q)
  BY DEF Inv, Life
<1>7. Life'
  BY <1>1, <1>2, <1>3, <1>4, <1>5, <1>6 DEF Inv, Life
<1>8. Loop'
  BY <1>1, <1>3, <1>4 DEF Loop, Quiet
<1> QED BY <1>7, <1>8

LEMMA CommandLife ==
    ASSUME TypeOK, Inv, NEW p \in Path,
           \/ RunCommand(p) \/ RunNextSession(p) \/ CommandFinished(p)
           \/ ServiceFinished(p) \/ ServiceRestarted(p) \/ ConfigChanged(p)
    PROVE  Life' /\ Loop'
<1>0. Gone # 0 /\ \A q \in Path : Users(q) => ref[q] # 0 /\ ref[q] # Gone
  BY NoteTypes DEF Users
<1>1. CASE RunCommand(p)
  <2>1. /\ Quiet /\ Users(p) /\ UNCHANGED <<ref, overlay, changing, running, srv, gui>>
        /\ queue'[p] = queue[p] + 1
        /\ \A q \in Path : /\ q # p => queue'[q] = queue[q]
                           /\ mon'[q] = IF q = p THEN FALSE ELSE mon[q]
    BY <1>1 DEF RunCommand, agents, repos, loop, TypeOK
  <2>2. queue[p] \in Nat
    BY DEF TypeOK
  <2>3. \A q \in Path : Users(q)' = Users(q) /\ (Busy(q) => Busy(q)') /\ (q # p => Busy(q)' = Busy(q))
    <3>1. \A q \in Path : Users(q)' = Users(q)
      BY <2>1 DEF Users
    <3>2. \A q \in Path : q # p => Busy(q)' = Busy(q)
      BY <2>1 DEF Busy
    <3>3. Busy(p)'
      <4>1. queue[p] + 1 > 0
        BY <2>2
      <4> QED BY <2>1, <4>1 DEF Busy
    <3> QED BY <3>1, <3>2, <3>3
  <2>4. Life' /\ Loop'
    BY <2>1, <2>3 DEF Inv, Life, Loop, Quiet
  <2> QED BY <2>4
<1>2. CASE RunNextSession(p)
  <2>1. /\ Quiet /\ Busy(p) /\ UNCHANGED <<ref, mon, overlay, changing, queue, gui>>
        /\ \A q \in Path : /\ running'[q] = IF q = p THEN TRUE ELSE running[q]
                           /\ q # p => srv'[q] = srv[q]
        /\ srv'[p] # "off"
    BY <1>2 DEF RunNextSession, agents, watch, repos, loop, TypeOK
  <2>2. \A q \in Path : Users(q)' = Users(q) /\ Busy(q)' = Busy(q)
    BY <2>1 DEF Users, Busy
  <2>3. ref[p] # 0 /\ ref[p] # Gone
    BY <1>0, <2>1 DEF Inv, Life
  <2>4. Life' /\ Loop'
    BY <2>1, <2>2, <2>3 DEF Inv, Life, Loop, Quiet
  <2> QED BY <2>4
<1>3. CASE CommandFinished(p)
  <2>1. ref[p] # 0 /\ running[p]
    BY <1>0, <1>3 DEF CommandFinished, Inv, Life
  <2> QED BY <1>3, <2>1, DequeueLife DEF CommandFinished, agents, watch, repos
<1>4. CASE ServiceFinished(p)
  <2>1. /\ Quiet /\ UNCHANGED <<mon, overlay, changing>>
        /\ \A q \in Path : /\ srv'[q] = IF q = p THEN "off" ELSE srv[q]
                           /\ ref'[q] = IF q = p /\ ref[p] = 0 /\ ~mon[p] THEN Gone ELSE ref[q]
        /\ IF running[p] THEN Dequeue(p) ELSE UNCHANGED <<queue, running, gui>>
    BY <1>4 DEF ServiceFinished, watch, repos, TypeOK
  <2>2. CASE running[p]
    <3>1. ref[p] # 0
      BY <1>0, <2>2 DEF Inv, Life
    <3>2. ref'[p] # 0 /\ \A q \in Path : ref'[q] = ref[q]
      BY <2>1, <3>1
    <3> QED BY <2>1, <2>2, <3>2, DequeueLife
  <2>3. CASE ~running[p]
    <3>1. \A q \in Path : Busy(q)' = Busy(q) /\ Users(q)' = Users(q)
      BY <1>0, <2>1, <2>3, NoteTypes DEF Busy, Users
    <3>2. Life' /\ Loop'
      <4>1. ref[p] = 0 => ~mon[p] /\ ~Busy(p)
        BY <1>0 DEF Inv, Life
      <4> QED BY <1>0, <2>1, <2>3, <3>1, <4>1 DEF Inv, Life, Loop, Quiet
    <3> QED BY <3>2
  <2> QED BY <2>2, <2>3
<1>5. CASE ServiceRestarted(p)
  <2>1. /\ UNCHANGED <<ref, mon, overlay, changing, queue, running, gui>>
        /\ srv[p] = "restarting"
        /\ \A q \in Path : srv'[q] = IF q = p THEN "ready" ELSE srv[q]
    BY <1>5 DEF ServiceRestarted, agents, watch, repos, loop, TypeOK
  <2> QED BY <2>1 DEF Inv, Life, Loop, Quiet, Busy, Users
<1>6. CASE ConfigChanged(p)
  <2>1. /\ UNCHANGED <<ref, mon, overlay, changing, queue, running, gui>> /\ Users(p)
        /\ \A q \in Path : srv'[q] = IF q = p THEN "stopping" ELSE srv[q]
    BY <1>6 DEF ConfigChanged, agents, watch, repos, loop, TypeOK
  <2> QED BY <1>0, <2>1 DEF Inv, Life, Loop, Quiet, Busy, Users
<1> QED BY <1>1, <1>2, <1>3, <1>4, <1>5, <1>6

\* Overlays, tabs, and the watcher
LEMMA MonitorLife ==
    ASSUME TypeOK, Inv, NEW p \in Path,
           \/ SetOverlay(p) \/ ClearOverlay(p) \/ Suspend(p) \/ Resume(p) \/ FsEvent(p)
    PROVE  Life' /\ Loop'
<1>0. mon \in [Path -> BOOLEAN] /\ \A q \in Path : changing[q] /\ Quiet => Busy(q)
  BY DEF TypeOK, Inv, Life
<1>1. Quiet /\ Users(p) /\ UNCHANGED <<ref, queue, running, srv>>
  BY DEF SetOverlay, ClearOverlay, Suspend, Resume, FsEvent, agents, cmds, Inv, Life
<1>2. \A q \in Path : Busy(q)' = Busy(q) /\ Users(q)' = Users(q)
  BY <1>1 DEF Busy, Users
<1>3. CASE SetOverlay(p)
  <2>1. /\ gui' = gui
        /\ \A q \in Path : /\ q # p => /\ overlay'[q] = overlay[q] /\ changing'[q] = changing[q]
                                       /\ mon'[q] = mon[q]
        /\ ~mon'[p] /\ (changing'[p] => Busy(p))
    BY <1>3 DEF SetOverlay, loop, TypeOK
  <2> QED BY <1>1, <1>2, <2>1 DEF Inv, Life, Loop, Quiet
<1>4. CASE ClearOverlay(p)
  <2>1. /\ mon' = mon
        /\ \A q \in Path : /\ q # p => overlay'[q] = overlay[q] /\ changing'[q] = changing[q]
        /\ gui' = IF Busy(p) \/ mon[p] THEN gui
                  ELSE [at |-> "begin", path |-> p, resume |-> TRUE]
        /\ overlay[p] /\ ~overlay'[p]
    BY <1>4 DEF ClearOverlay, watch, TypeOK
  <2>2. ~mon[p]
    BY <2>1 DEF Inv, Life
  <2>3. Busy(p) \/ (~Quiet' /\ gui'.path = p)
    BY <2>1, <2>2 DEF Quiet
  <2>4. Life'
    BY <1>0, <1>1, <1>2, <2>1, <2>2, <2>3 DEF Inv, Life
  <2>5. Loop'
    BY <1>1, <1>2, <2>1 DEF Loop, Quiet
  <2> QED BY <2>4, <2>5
<1>5. CASE Suspend(p)
  <2>1. /\ UNCHANGED <<overlay, changing, gui>> /\ ~mon'[p]
        /\ \A q \in Path : q # p => mon'[q] = mon[q]
    BY <1>5 DEF Suspend, repos, loop, TypeOK
  <2> QED BY <1>1, <1>2, <2>1 DEF Inv, Life, Loop, Quiet
<1>6. CASE Resume(p) \/ FsEvent(p)
  <2>1. /\ UNCHANGED <<mon, overlay, changing>> /\ gui'.at = "begin" /\ gui'.path = p
    BY <1>6 DEF Resume, FsEvent, watch, repos
  <2>2. Life'
    BY <1>0, <1>1, <1>2, <2>1 DEF Inv, Life
  <2>3. Loop'
    BY <1>1, <1>2, <2>1 DEF Loop
  <2> QED BY <2>2, <2>3
<1> QED BY <1>3, <1>4, <1>5, <1>6

LEMMA PollLife == ASSUME TypeOK, Inv, Polling PROVE Life' /\ Loop'
<1>0. /\ ~Quiet /\ gui.path \in Path /\ Users(gui.path)
      /\ mon \in [Path -> BOOLEAN] /\ changing \in [Path -> BOOLEAN]
  BY DEF Polling, PollBegin, ReadFirst, ReadSecond, PollCheck, PollEnd, Quiet, Inv, Loop, TypeOK
<1>1. UNCHANGED <<ref, overlay, queue, running, srv>>
  BY DEF Polling, PollBegin, ReadFirst, ReadSecond, PollCheck, PollEnd, agents, repos, cmds
<1>2. \A q \in Path : Busy(q)' = Busy(q) /\ Users(q)' = Users(q)
  BY <1>1 DEF Busy, Users
<1>3. CASE PollBegin \/ ReadFirst \/ ReadSecond \/ PollCheck
  <2>1. /\ UNCHANGED <<mon, changing>>
        /\ \E at \in {"read", "reread", "check", "end"} : gui' = [gui EXCEPT !.at = at]
    BY <1>3 DEF PollBegin, ReadFirst, ReadSecond, PollCheck, Step, watch, repos
  <2>2. gui'.at # "idle" /\ gui'.path = gui.path
    BY <2>1 DEF TypeOK
  <2> QED BY <1>0, <1>1, <1>2, <2>1, <2>2 DEF Inv, Life, Loop, Quiet
<1>4. CASE PollEnd
  <2> DEFINE p == gui.path
  <2>1. /\ gui'.at = "idle" /\ ~changing'[p]
        /\ \A q \in Path : q # p => mon'[q] = mon[q] /\ changing'[q] = changing[q]
        /\ mon'[p] => mon[p] \/ (~overlay[p] /\ ~Busy(p))
    BY <1>0, <1>4 DEF PollEnd, Idle
  <2>2. Life'
    BY <1>0, <1>1, <1>2, <2>1 DEF Inv, Life
  <2>3. Loop'
    BY <2>1 DEF Loop, Quiet
  <2> QED BY <2>2, <2>3
<1> QED BY <1>3, <1>4 DEF Polling

LEMMA LifeNext ==
    ASSUME ~BusyRelease, TypeOK, Inv, [Next]_vars
    PROVE  Life' /\ Loop'
<1>1. ASSUME NEW p \in Path, Open(p) \/ \E s \in Path : OpenSub(p, s)
      PROVE  Life' /\ Loop'
  <2>1. PICK s \in Path : OpenAgent(s) /\ Quiet /\ UNCHANGED <<repos, cmds, loop>>
    BY <1>1 DEF Open, OpenSub
  <2> QED BY <2>1, OpenLife
<1>2. ASSUME UNCHANGED <<ref, mon, overlay, changing, queue, running, srv, gui>>
      PROVE  Life' /\ Loop'
  BY <1>2 DEF Inv, Life, Loop, Busy, Users, Quiet
<1>3. ASSUME NEW p \in Path, Writing(p)
      PROVE  UNCHANGED <<ref, mon, overlay, changing, queue, running, srv, gui>>
  BY <1>3 DEF Writing, LockRepo, WriteFirst, WriteSecond, UnlockRepo, Write,
              agents, repos, cmds, loop
<1>4. CASE UNCHANGED vars
  BY <1>2, <1>4 DEF vars, agents, watch, repos, cmds, loop
<1>5. Top \subseteq Path
  BY DEF Path
<1> QED BY <1>1, <1>2, <1>3, <1>4, <1>5, ReleaseLife, CommandLife, MonitorLife, PollLife DEF Next

-----------------------------------------------------------------------------
(* What is on the disk and what was shown                                  *)

\* The steps of a writer; nobody else writes.
LEMMA FilesNext == ASSUME TypeOK, Inv, [Next]_vars PROVE Files'
<1>1. ASSUME UNCHANGED <<writer, disk>> PROVE Files'
  BY <1>1 DEF Inv, Files
<1>2. \A p \in Path : disk[p].a \in Int /\ disk[p].b \in Int
  BY NoteTypes DEF TypeOK, State, Version
<1>3. ASSUME NEW p \in Path, LockRepo(p) PROVE Files'
  <2>1. /\ disk' = disk /\ disk[p].a < MaxVersion /\ writer[p] = "none" /\ writer'[p] = "locked"
        /\ \A q \in Path : q # p => writer'[q] = writer[q]
    BY <1>3 DEF LockRepo, Write, TypeOK
  <2> QED BY <2>1 DEF Inv, Files
<1>4. ASSUME NEW p \in Path, WriteFirst(p) PROVE Files'
  <2>1. /\ writer[p] = "locked" /\ writer'[p] = "a"
        /\ disk'[p].a = disk[p].a + 1 /\ disk'[p].b = disk[p].b
        /\ \A q \in Path : q # p => writer'[q] = writer[q] /\ disk'[q] = disk[q]
    BY <1>4 DEF WriteFirst, Write, TypeOK, State
  <2> QED BY <1>2, <2>1 DEF Inv, Files
<1>5. ASSUME NEW p \in Path, WriteSecond(p) PROVE Files'
  <2>1. /\ writer[p] = "a" /\ writer'[p] = "b"
        /\ disk'[p].a = disk[p].a /\ disk'[p].b = disk[p].b + 1
        /\ \A q \in Path : q # p => writer'[q] = writer[q] /\ disk'[q] = disk[q]
    BY <1>5 DEF WriteSecond, Write, TypeOK, State
  <2> QED BY <1>2, <2>1 DEF Inv, Files
<1>6. ASSUME NEW p \in Path, UnlockRepo(p) PROVE Files'
  <2>1. /\ disk' = disk /\ writer[p] = "b" /\ writer'[p] = "none"
        /\ \A q \in Path : q # p => writer'[q] = writer[q]
    BY <1>6 DEF UnlockRepo, Write, TypeOK
  <2> QED BY <2>1 DEF Inv, Files
<1>7. ASSUME NEW p \in Path,
             \/ Open(p) \/ Release(p) \/ \E s \in Path : OpenSub(p, s)
             \/ RunCommand(p) \/ RunNextSession(p) \/ CommandFinished(p)
             \/ ServiceFinished(p) \/ ServiceRestarted(p) \/ ConfigChanged(p)
             \/ SetOverlay(p) \/ ClearOverlay(p) \/ Suspend(p) \/ Resume(p)
             \/ FsEvent(p)
      PROVE  UNCHANGED <<writer, disk>>
  BY <1>7 DEF Open, Release, OpenSub, RunCommand, RunNextSession, CommandFinished,
              ServiceFinished, ServiceRestarted, ConfigChanged, SetOverlay, ClearOverlay,
              Suspend, Resume, FsEvent, world
<1>8. ASSUME Polling \/ UNCHANGED vars PROVE UNCHANGED <<writer, disk>>
  BY <1>8 DEF Polling, PollBegin, ReadFirst, ReadSecond, PollCheck, PollEnd, world, vars
<1>9. Top \subseteq Path
  BY DEF Path
<1> QED BY <1>1, <1>3, <1>4, <1>5, <1>6, <1>7, <1>8, <1>9 DEF Next, Writing

LEMMA Versions ==
    ASSUME TypeOK
    PROVE  /\ \A p \in Path : /\ last[p].a \in Int /\ last[p].b \in Int
                             /\ disk[p].a \in Int /\ disk[p].b \in Int
           /\ seen.a \in Int /\ seen.b \in Int
BY NoteTypes DEF TypeOK, State, Version

\* Steps that leave files and views alone, when no poll is between its reads
LEMMA ViewsKept ==
    ASSUME Inv, UNCHANGED <<disk, last, shown, cached>>,
           gui'.at \notin {"reread", "check"} \/ UNCHANGED <<gui, seen>>
    PROVE  Views'
BY DEF Inv, Views

\* A new agent has just looked.
LEMMA OpenViews ==
    ASSUME TypeOK, Inv, NEW p \in Path, OpenAgent(p), Quiet, UNCHANGED <<disk, gui, seen>>
    PROVE  Views'
<1>1. \A q \in Path : /\ q # p => last'[q] = last[q] /\ shown'[q] = shown[q]
                                /\ (q \in cached' <=> q \in cached)
  BY DEF OpenAgent, TypeOK
<1>2. \/ p \in cached /\ last'[p] = last[p] /\ shown'[p] = shown[p]
      \/ last'[p] = disk[p] /\ shown'[p] = disk[p]
  BY DEF OpenAgent, TypeOK
<1>3. gui.at \notin {"reread", "check"}
  BY DEF Quiet
<1>4. \A q \in Path : disk[q].a <= disk[q].a /\ disk[q].b <= disk[q].b
  BY Versions
<1> QED BY <1>1, <1>2, <1>3, <1>4 DEF Inv, Views

LEMMA PollViews == ASSUME TypeOK, Inv, Polling PROVE Views'
<1>0. gui.path \in Path
  BY DEF Polling, PollBegin, ReadFirst, ReadSecond, PollCheck, PollEnd, Inv, Loop, Quiet
<1>1. CASE PollBegin
  <2>1. gui'.at \in {"end", "read"}
    BY <1>1 DEF PollBegin, Step, TypeOK
  <2> QED BY <1>1, <2>1, ViewsKept DEF PollBegin, agents, world, views
<1>2. CASE ReadFirst
  <2>1. /\ UNCHANGED <<disk, last, shown, cached>>
        /\ gui'.at = "reread" /\ gui'.path = gui.path /\ seen'.a = disk[gui.path].a
    BY <1>2 DEF ReadFirst, Step, TypeOK, State, agents, world, views
  <2>2. seen'.a <= disk[gui.path].a
    BY <1>0, <2>1, Versions
  <2> QED BY <2>1, <2>2 DEF Inv, Views
<1>3. CASE ReadSecond
  <2>1. /\ UNCHANGED <<disk, last, shown, cached>> /\ gui.at = "reread"
        /\ gui'.path = gui.path /\ seen'.a = seen.a /\ seen'.b = disk[gui.path].b
    BY <1>3 DEF ReadSecond, Step, TypeOK, State, agents, world, views
  <2>2. seen'.b <= disk[gui.path].b
    BY <1>0, <2>1, Versions
  <2> QED BY <2>1, <2>2 DEF Inv, Views
<1>4. CASE PollCheck
  <2> DEFINE p == gui.path
  <2>1. /\ UNCHANGED <<disk, cached, seen>> /\ gui'.at = "end"
        /\ seen.a <= disk[p].a /\ seen.b <= disk[p].b
    BY <1>4 DEF PollCheck, Step, TypeOK, agents, world, Inv, Views
  <2>2. CASE Locked(p)
    BY <1>4, <2>1, <2>2, ViewsKept DEF PollCheck, views
  <2>3. CASE ~Locked(p)
    <3>1. /\ \A q \in Path : q # p => last'[q] = last[q] /\ shown'[q] = shown[q]
          /\ last'[p] = seen
          /\ shown'[p] = IF seen # last[p] THEN disk[p] ELSE shown[p]
      BY <1>0, <1>4, <2>3 DEF PollCheck, TypeOK
    <3>2. p \in cached /\ last'[p] = disk[p] => shown'[p] = disk[p]
      BY <1>0, <3>1 DEF Inv, Views
    <3> QED BY <2>1, <3>1, <3>2 DEF Inv, Views
  <2> QED BY <2>2, <2>3
<1>5. CASE PollEnd
  BY <1>5, ViewsKept DEF PollEnd, Idle, agents, world, views
<1> QED BY <1>1, <1>2, <1>3, <1>4, <1>5 DEF Polling

\* A writer makes something that was never recorded.
LEMMA WriterViews == ASSUME TypeOK, Inv, NEW p \in Path, Writing(p) PROVE Views'
<1>1. UNCHANGED <<last, shown, cached, gui, seen>>
  BY DEF Writing, LockRepo, WriteFirst, WriteSecond, UnlockRepo, Write, agents, views, loop
<1>2. CASE LockRepo(p) \/ UnlockRepo(p)
  BY <1>1, <1>2, ViewsKept DEF LockRepo, UnlockRepo
<1>3. CASE WriteFirst(p) \/ WriteSecond(p)
  <2>1. /\ \A q \in Path : q # p => disk'[q] = disk[q]
        /\ \/ disk'[p].a = disk[p].a + 1 /\ disk'[p].b = disk[p].b
           \/ disk'[p].a = disk[p].a /\ disk'[p].b = disk[p].b + 1
    BY <1>3 DEF WriteFirst, WriteSecond, TypeOK, State
  <2>2. last[p].a <= disk[p].a /\ last[p].b <= disk[p].b
    BY DEF Inv, Views
  <2>3. /\ last[p].a <= disk'[p].a /\ last[p].b <= disk'[p].b /\ last[p] # disk'[p]
    BY <2>1, <2>2, Versions
  <2>4. ASSUME gui.at \in {"reread", "check"} PROVE seen.a <= disk'[gui.path].a
    <3>1. gui.path \in Path /\ seen.a <= disk[gui.path].a
      BY <2>4 DEF Inv, Views, Loop, Quiet
    <3> QED BY <2>1, <3>1, Versions
  <2>5. ASSUME gui.at = "check" PROVE seen.b <= disk'[gui.path].b
    <3>1. gui.path \in Path /\ seen.b <= disk[gui.path].b
      BY <2>5 DEF Inv, Views, Loop, Quiet
    <3> QED BY <2>1, <3>1, Versions
  <2> QED BY <1>1, <2>1, <2>3, <2>4, <2>5 DEF Inv, Views
<1> QED BY <1>2, <1>3 DEF Writing

LEMMA ViewsNext == ASSUME TypeOK, Inv, [Next]_vars PROVE Views'
<1>1. ASSUME NEW p \in Path, Open(p) \/ \E s \in Path : OpenSub(p, s)
      PROVE  Views'
  <2>1. PICK s \in Path : OpenAgent(s) /\ Quiet /\ UNCHANGED <<disk, gui, seen>>
    BY <1>1 DEF Open, OpenSub, world, loop
  <2> QED BY <2>1, OpenViews
<1>2. ASSUME NEW p \in Path,
             \/ Release(p) \/ RunCommand(p) \/ RunNextSession(p)
             \/ ServiceRestarted(p) \/ ConfigChanged(p) \/ SetOverlay(p) \/ Suspend(p)
      PROVE  Views'
  <2>1. UNCHANGED <<disk, last, shown, cached, gui, seen>>
    BY <1>2 DEF Release, RunCommand, RunNextSession, ServiceRestarted, ConfigChanged,
                SetOverlay, Suspend, agents, world, views, loop
  <2> QED BY <2>1, ViewsKept
<1>3. ASSUME NEW p \in Path,
             \/ CommandFinished(p) \/ ServiceFinished(p)
             \/ ClearOverlay(p) \/ Resume(p) \/ FsEvent(p)
      PROVE  Views'
  <2>1. /\ UNCHANGED <<disk, last, shown, cached>> /\ Quiet
        /\ gui' = gui \/ \E b \in BOOLEAN : gui' = [at |-> "begin", path |-> p, resume |-> b]
    BY <1>3 DEF CommandFinished, ServiceFinished, Dequeue, ClearOverlay, Resume, FsEvent,
                agents, world, views
  <2>2. gui'.at \notin {"reread", "check"}
    BY <2>1 DEF Quiet
  <2> QED BY <2>1, <2>2, ViewsKept
<1>4. CASE UNCHANGED vars
  BY <1>4, ViewsKept DEF vars, agents, world, views, loop
<1>5. Top \subseteq Path
  BY DEF Path
<1> QED BY <1>1, <1>2, <1>3, <1>4, <1>5, PollViews, WriterViews DEF Next

-----------------------------------------------------------------------------
(* Theorems                                                                *)

LEMMA InitInv == Init => Inv
<1> SUFFICES ASSUME Init PROVE Inv
  OBVIOUS
<1>1. \A s \in Path : Parents(s) = 0
  <2>1. \A s \in Path : {p \in Path : s \in kids[p]} = {}
    BY DEF Init
  <2> QED BY <2>1, FS_EmptySet DEF Parents
<1>2. Refs
  BY <1>1 DEF Init, Refs
<1>3. Life /\ Loop /\ Files
  BY NoteTypes DEF Init, Life, Loop, Files, Quiet, Idle, Busy, Zero
<1>4. Views
  BY DEF Init, Views, Idle, Zero
<1> QED BY <1>2, <1>3, <1>4 DEF Inv

LEMMA NextInv == ~BusyRelease => (TypeOK /\ Inv /\ [Next]_vars => (TypeOK /\ Inv)')
BY NextTypes, RefsNext, LifeNext, FilesNext, ViewsNext DEF Inv

\* The inductive invariant, if agents are released only when they run no
\* command.
THEOREM Invariance == ASSUME ~BusyRelease PROVE Spec => [](TypeOK /\ Inv)
<1>1. Init => TypeOK /\ Inv
  BY InitTypes, InitInv
<1>2. TypeOK /\ Inv /\ [Next]_vars => (TypeOK /\ Inv)'
  BY NextInv
<1> QED BY <1>1, <1>2, PTL DEF Spec

\* All variables keep their types; reference counts stay between 0 and the
\* number of users.
THEOREM TypeCorrect == ASSUME ~BusyRelease PROVE Spec => []TypeOK
BY Invariance, PTL

\* For any repositories and subrepositories, users, sessions and writes: an
\* agent that is closed has nothing left running, one without users is being
\* stopped, and one that another refers to is open.
THEOREM AgentsInOrderHolds == ASSUME ~BusyRelease PROVE Spec => []AgentsInOrder
<1>1. TypeOK /\ Inv => AgentsInOrder
  <2> SUFFICES ASSUME TypeOK, Inv, NEW p \in Path
               PROVE  /\ ref[p] = Gone => ~mon[p] /\ srv[p] = "off" /\ ~Busy(p)
                      /\ Quiet /\ ref[p] = 0 => srv[p] = "stopping" /\ ~mon[p]
                      /\ kids[p] # {} => Users(p)
                      /\ \A s \in kids[p] : Users(s) /\ ref[s] >= Parents(s)
                      /\ Quiet /\ ~Busy(p) => ~changing[p]
                      /\ mon[p] => ~Busy(p) /\ ~overlay[p] /\ Users(p)
    BY DEF AgentsInOrder
  <2>1. Users(p) => ref[p] # Gone /\ ref[p] # 0
    BY NoteTypes DEF Users
  <2>2. \A s \in kids[p] : s \in Path /\ Parents(s) > 0
    BY ParentsType DEF TypeOK, Path
  <2>3. \A s \in kids[p] : Users(s) /\ ref[s] >= Parents(s)
    BY <2>2 DEF Inv, Refs
  <2>4. kids[p] # {} => Users(p)
    BY DEF Inv, Refs
  <2> QED BY <2>1, <2>3, <2>4 DEF Inv, Life
<1> QED BY <1>1, Invariance, PTL

\* However reads, locks and writes are interleaved, what the watcher has
\* recorded as the state on the disk was shown.
THEOREM NothingSwallowedHolds == ASSUME ~BusyRelease PROVE Spec => []NothingSwallowed
<1>1. TypeOK /\ Inv => NothingSwallowed
  BY DEF TypeOK, Inv, Views, NothingSwallowed
<1> QED BY <1>1, Invariance, PTL

=============================================================================
