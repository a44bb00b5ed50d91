----------------------------- MODULE RepoAgent -----------------------------
(***************************************************************************)
(* Repository agents of TortoiseHg (hgqt/thgrepo.py): RepoManager counts   *)
(* the users of each agent and closes it when its services have stopped;   *)
(* RepoAgent runs commands in a command server (module CmdCore, reduced to *)
(* the state of its service here) and suspends the monitor meanwhile;      *)
(* RepoWatcher polls the repository when the file system reports an event, *)
(* and tells the views of a change.                                        *)
(*                                                                         *)
(* All of that runs in the event loop of one thread, so an action is a     *)
(* slot with all it calls.  Only a poll is cut into steps, because other   *)
(* processes write to the repository in between: they lock it, write two   *)
(* files one after the other, and unlock it.                               *)
(***************************************************************************)
EXTENDS Integers, FiniteSets

CONSTANTS Top,          \* repositories
          Sub,          \* subrepositories, opened through those as well
          Gone,         \* the agent is not in _openagents
          BusyRelease,  \* agents are released while a command is running
          MaxRef,       \* bound: users of an agent
          MaxQueue,     \* bound: sessions queued in an agent
          MaxVersion    \* bound: writes to a repository

Path == Top \cup Sub

ASSUME PathAssumption == Top \cap Sub = {} /\ IsFiniteSet(Path) /\ Gone \notin Int
ASSUME BoundAssumption == /\ BusyRelease \in BOOLEAN
                          /\ MaxRef \in Nat \ {0} /\ MaxQueue \in Nat \ {0}
                          /\ MaxVersion \in Nat

VARIABLES ref,      \* RepoManager._openagents: the reference counts
          cached,   \* the repositories in _repocache
          kids,     \* RepoAgent._subrepoagents
          mon,      \* RepoWatcher.isMonitoring
          event,    \* a file system event is waiting to be delivered
          overlay,  \* RepoAgent._overlayurl is set
          changing, \* RepoAgent._repochanging
          queue,    \* CmdAgent._sessqueue: how many sessions
          running,  \* the first one is connected to the worker
          srv,      \* the state of the command service
          writer,   \* what a writing process has done: nothing, locked, ...
          disk,     \* the two files
          last,     \* RepoWatcher._lastmtimes and _lastdata
          shown,    \* the files when views were last told to look at them
          gui,      \* where the event loop is in a poll, and of which agent
          seen      \* what the poll has read

agents == <<ref, cached, kids>>
watch == <<mon, event>>
repos == <<overlay, changing>>
cmds == <<queue, running, srv>>
world == <<writer, disk>>
views == <<last, shown>>
loop == <<gui, seen>>
vars == <<agents, watch, repos, cmds, world, views, loop>>

Version == 0..MaxVersion
State == [a : Version, b : Version]
Idle == [at |-> "idle", path |-> Gone, resume |-> FALSE]

TypeOK ==
    /\ ref \in [Path -> 0..MaxRef \cup {Gone}]
    /\ cached \subseteq Path
    /\ kids \in [Path -> SUBSET Sub]
    /\ mon \in [Path -> BOOLEAN] /\ event \in [Path -> BOOLEAN]
    /\ overlay \in [Path -> BOOLEAN] /\ changing \in [Path -> BOOLEAN]
    /\ queue \in [Path -> 0..MaxQueue] /\ running \in [Path -> BOOLEAN]
    /\ srv \in [Path -> {"off", "ready", "stopping", "restarting"}]
    /\ writer \in [Path -> {"none", "locked", "a", "b"}]
    /\ disk \in [Path -> State] /\ last \in [Path -> State]
    /\ shown \in [Path -> State]
    /\ gui \in [at : {"idle", "begin", "read", "reread", "check", "end"},
                path : Path \cup {Gone}, resume : BOOLEAN]
    /\ seen \in State

Zero == [a |-> 0, b |-> 0]

Init == /\ ref = [p \in Path |-> Gone] /\ cached = {} /\ kids = [p \in Path |-> {}]
        /\ mon = [p \in Path |-> FALSE] /\ event = [p \in Path |-> FALSE]
        /\ overlay = [p \in Path |-> FALSE] /\ changing = [p \in Path |-> FALSE]
        /\ queue = [p \in Path |-> 0] /\ running = [p \in Path |-> FALSE]
        /\ srv = [p \in Path |-> "off"]
        /\ writer = [p \in Path |-> "none"] /\ disk = [p \in Path |-> Zero]
        /\ last = disk /\ shown = disk
        /\ gui = Idle /\ seen = Zero

Quiet == gui.at = "idle"
Busy(p) == queue[p] > 0
Users(p) == ref[p] \in 1..MaxRef

-----------------------------------------------------------------------------
(* RepoManager                                                             *)

\* openRepoAgent.  A new agent records the state of its repository; a cached
\* one is used as it is.  Monitoring starts when the agent is (re)opened, not
\* when it was still being closed.
OpenAgent(p) ==
    /\ ref[p] \in {Gone} \cup 0..MaxRef - 1
    /\ ref' = [ref EXCEPT ![p] = IF ref[p] = Gone THEN 1 ELSE @ + 1]
    /\ cached' = cached \cup {p}
    /\ last' = IF p \in cached THEN last ELSE [last EXCEPT ![p] = disk[p]]
    /\ shown' = IF p \in cached THEN shown ELSE [shown EXCEPT ![p] = disk[p]]
    /\ mon' = [mon EXCEPT ![p] =
                  IF ref[p] = Gone THEN @ \/ (~Busy(p) /\ ~overlay[p]) ELSE @]

Open(p) ==
    /\ Quiet /\ OpenAgent(p)
    /\ UNCHANGED <<kids, event, repos, cmds, world, loop>>

\* RepoAgent.subRepoAgent
OpenSub(p, s) ==
    /\ Quiet /\ Users(p)
    /\ p \in Top /\ s \in Sub \ kids[p]
    /\ OpenAgent(s)
    /\ kids' = [kids EXCEPT ![p] = @ \cup {s}]
    /\ UNCHANGED <<event, repos, cmds, world, loop>>

\* releaseRepoAgent of the agents in S, the last user of which is gone:
\* _tryCloseRepoAgent now if nothing is running, else when it has stopped.
Dying(S) == {q \in S : ref[q] = 1}
ReleaseAll(S) ==
    /\ ref' = [q \in Path |-> IF q \notin S THEN ref[q]
                              ELSE IF q \in Dying(S) /\ srv[q] = "off" THEN Gone
                              ELSE ref[q] - 1]
    /\ mon' = [q \in Path |-> mon[q] /\ q \notin Dying(S)]
    /\ event' = [q \in Path |-> event[q] /\ q \notin Dying(S)]
    /\ srv' = [q \in Path |-> IF q \in Dying(S) /\ srv[q] # "off"
                              THEN "stopping" ELSE srv[q]]

Parents(s) == Cardinality({p \in Path : s \in kids[p]})

\* Mutant: releaseSubRepoAgents does not clear _subrepoagents.
Release_keepschildren(p) ==
    /\ Quiet /\ Users(p) /\ ref[p] > Parents(p)
    /\ LET S == IF ref[p] = 1 THEN {p} \cup kids[p] ELSE {p} IN
       /\ BusyRelease \/ \A q \in Dying(S) : ~Busy(q)
       /\ ReleaseAll(S)
    /\ UNCHANGED <<kids, cached, repos, queue, running, world, views, loop>>

\* A tab or a dialog is closed; repowidget.okToContinue refuses that while
\* its command is running, but does not know about those of the children.
Release(p) ==
    /\ Quiet /\ Users(p) /\ ref[p] > Parents(p)
    /\ LET S == IF ref[p] = 1 THEN {p} \cup kids[p] ELSE {p} IN
       /\ BusyRelease \/ \A q \in Dying(S) : ~Busy(q)
       /\ ReleaseAll(S)
    /\ kids' = IF ref[p] = 1 THEN [kids EXCEPT ![p] = {}] ELSE kids
    /\ UNCHANGED <<cached, repos, queue, running, world, views, loop>>

-----------------------------------------------------------------------------
(* RepoAgent                                                               *)

\* runCommand: the first session makes the agent busy, which suspends the
\* monitor (_onBusyChanged).
RunCommand(p) ==
    /\ Quiet /\ Users(p)
    /\ queue[p] < MaxQueue
    /\ queue' = [queue EXCEPT ![p] = @ + 1]
    /\ mon' = [mon EXCEPT ![p] = FALSE]
    /\ event' = [event EXCEPT ![p] = FALSE]
    /\ UNCHANGED <<agents, repos, running, srv, world, views, loop>>

\* CmdAgent._runNextSession starts the service.
RunNextSession(p) ==
    /\ Quiet /\ Busy(p) /\ ~running[p]
    /\ running' = [running EXCEPT ![p] = TRUE]
    /\ srv' = [srv EXCEPT ![p] = CASE @ = "off" -> "ready"
                                   [] @ = "stopping" -> "restarting"
                                   [] OTHER -> @]
    /\ UNCHANGED <<agents, watch, repos, queue, world, views, loop>>

\* CmdAgent._dequeueSession: after the last one, _onBusyChanged(False)
\* resumes the monitor, which begins with a poll.
Dequeue(p) ==
    /\ queue' = [queue EXCEPT ![p] = @ - 1]
    /\ running' = [running EXCEPT ![p] = FALSE]
    /\ gui' = IF queue[p] = 1 /\ ~mon[p]
              THEN [at |-> "begin", path |-> p, resume |-> TRUE] ELSE gui

\* The result of a command
CommandFinished(p) ==
    /\ Quiet /\ running[p] /\ srv[p] \in {"ready", "stopping"}
    /\ Dequeue(p)
    /\ UNCHANGED <<agents, watch, repos, srv, world, views, seen>>

\* Mutant: a session is dequeued whether or not one was running.
ServiceFinished_dequeues(p) ==
    /\ Quiet /\ srv[p] \in {"ready", "stopping"}
    /\ srv' = [srv EXCEPT ![p] = "off"]
    /\ ref' = IF ref[p] = 0 /\ ~mon[p] THEN [ref EXCEPT ![p] = Gone] ELSE ref
    /\ Dequeue(p)
    /\ UNCHANGED <<cached, kids, watch, repos, world, views, seen>>

\* Mutant: serviceStopped is not connected to _tryCloseRepoAgent.
ServiceFinished_unheard(p) ==
    /\ Quiet /\ srv[p] \in {"ready", "stopping"}
    /\ srv' = [srv EXCEPT ![p] = "off"]
    /\ IF running[p] THEN Dequeue(p) ELSE UNCHANGED <<queue, running, gui>>
    /\ UNCHANGED <<agents, watch, repos, world, views, seen>>

\* The process has ended, as it was told or not.  serviceStopped is emitted
\* (and the agent closed, if it has no users) before the session hears of it.
ServiceFinished(p) ==
    /\ Quiet /\ srv[p] \in {"ready", "stopping"}
    /\ srv' = [srv EXCEPT ![p] = "off"]
    /\ ref' = IF ref[p] = 0 /\ ~mon[p] THEN [ref EXCEPT ![p] = Gone] ELSE ref
    /\ IF running[p] THEN Dequeue(p) ELSE UNCHANGED <<queue, running, gui>>
    /\ UNCHANGED <<cached, kids, watch, repos, world, views, seen>>

ServiceRestarted(p) ==
    /\ Quiet /\ srv[p] = "restarting"
    /\ srv' = [srv EXCEPT ![p] = "ready"]
    /\ UNCHANGED <<agents, watch, repos, queue, running, world, views, loop>>

\* _onConfigChanged: the service has to read the configuration again.
ConfigChanged(p) ==
    /\ Quiet /\ Users(p) /\ ~Busy(p) /\ srv[p] = "ready"
    /\ srv' = [srv EXCEPT ![p] = "stopping"]
    /\ UNCHANGED <<agents, watch, repos, queue, running, world, views, loop>>

\* setOverlay: views are told at once, or when the agent is no longer busy.
SetOverlay(p) ==
    /\ Quiet /\ Users(p) /\ ~overlay[p]
    /\ overlay' = [overlay EXCEPT ![p] = TRUE]
    /\ changing' = [changing EXCEPT ![p] = Busy(p)]
    /\ mon' = [mon EXCEPT ![p] = FALSE]
    /\ event' = [event EXCEPT ![p] = FALSE]
    /\ UNCHANGED <<agents, cmds, world, views, loop>>

ClearOverlay(p) ==
    /\ Quiet /\ Users(p) /\ overlay[p]
    /\ overlay' = [overlay EXCEPT ![p] = FALSE]
    /\ changing' = [changing EXCEPT ![p] = TRUE]
    /\ gui' = IF Busy(p) \/ mon[p] THEN gui
              ELSE [at |-> "begin", path |-> p, resume |-> TRUE]
    /\ UNCHANGED <<agents, watch, cmds, world, views, seen>>

\* Another tab becomes the current one (repotab._onCurrentRepoChanged).
Suspend(p) ==
    /\ Quiet /\ Users(p) /\ mon[p]
    /\ mon' = [mon EXCEPT ![p] = FALSE]
    /\ event' = [event EXCEPT ![p] = FALSE]
    /\ UNCHANGED <<agents, repos, cmds, world, views, loop>>

Resume(p) ==
    /\ Quiet /\ Users(p) /\ ~mon[p] /\ ~Busy(p)
    /\ gui' = [at |-> "begin", path |-> p, resume |-> TRUE]
    /\ UNCHANGED <<agents, watch, repos, cmds, world, views, seen>>

-----------------------------------------------------------------------------
(* RepoWatcher                                                             *)

\* _pollChanges
FsEvent(p) ==
    /\ Quiet /\ mon[p] /\ event[p]
    /\ event' = [event EXCEPT ![p] = FALSE]
    /\ gui' = [at |-> "begin", path |-> p, resume |-> FALSE]
    /\ UNCHANGED <<agents, mon, repos, cmds, world, views, seen>>

Locked(p) == writer[p] # "none"
Step(at) == gui' = [gui EXCEPT !.at = at]

PollBegin ==
    /\ gui.at = "begin"
    /\ Step(IF Locked(gui.path) THEN "end" ELSE "read")
    /\ UNCHANGED <<agents, watch, repos, cmds, world, views, seen>>

\* _readState looks at one file after the other.
ReadFirst ==
    /\ gui.at = "read"
    /\ seen' = [seen EXCEPT !.a = disk[gui.path].a]
    /\ Step("reread")
    /\ UNCHANGED <<agents, watch, repos, cmds, world, views>>

ReadSecond ==
    /\ gui.at = "reread"
    /\ seen' = [seen EXCEPT !.b = disk[gui.path].b]
    /\ Step("check")
    /\ UNCHANGED <<agents, watch, repos, cmds, world, views>>

\* Mutant: what was read is recorded before the second look at the locks.
PollCheck_early ==
    /\ gui.at = "check"
    /\ LET p == gui.path IN
       /\ last' = [last EXCEPT ![p] = seen]
       /\ shown' = IF ~Locked(p) /\ seen # last[p]
                   THEN [shown EXCEPT ![p] = disk[p]] ELSE shown
    /\ Step("end")
    /\ UNCHANGED <<agents, watch, repos, cmds, world, seen>>

\* Mutant: what was read is compared with itself.
PollCheck_itself ==
    /\ gui.at = "check"
    /\ last' = IF Locked(gui.path) THEN last ELSE [last EXCEPT ![gui.path] = seen]
    /\ Step("end")
    /\ UNCHANGED <<agents, watch, repos, cmds, world, shown, seen>>

\* The rest of pollStatus: nothing is recorded if the lock is held now;
\* else views are told of what differs (_onRepositoryChanged).
PollCheck ==
    /\ gui.at = "check"
    /\ LET p == gui.path IN
       IF Locked(p) THEN UNCHANGED views
       ELSE /\ last' = [last EXCEPT ![p] = seen]
            /\ shown' = IF seen # last[p] THEN [shown EXCEPT ![p] = disk[p]] ELSE shown
    /\ Step("end")
    /\ UNCHANGED <<agents, watch, repos, cmds, world, seen>>

\* RepoAgent.pollStatus goes on with _flushRepositoryChanged, and
\* resumeMonitoring with startMonitoringIfEnabled.
PollEnd ==
    /\ gui.at = "end"
    /\ LET p == gui.path IN
       /\ changing' = [changing EXCEPT ![p] = FALSE]
       /\ mon' = [mon EXCEPT ![p] = @ \/ (gui.resume /\ ~overlay[p] /\ ~Busy(p))]
    /\ gui' = Idle /\ seen' = Zero
    /\ UNCHANGED <<agents, event, overlay, cmds, world, views>>

-----------------------------------------------------------------------------
(* Other processes that write to the repository                            *)

\* Each of their steps is an event if the monitor is on.
Write(p, from, to) ==
    /\ writer[p] = from
    /\ writer' = [writer EXCEPT ![p] = to]
    /\ event' = [event EXCEPT ![p] = @ \/ mon[p]]
    /\ UNCHANGED <<agents, mon, repos, cmds, views, loop>>

LockRepo(p) == /\ disk[p].a < MaxVersion
               /\ Write(p, "none", "locked") /\ UNCHANGED disk
WriteFirst(p) == /\ Write(p, "locked", "a")
                 /\ disk' = [disk EXCEPT ![p].a = @ + 1]
WriteSecond(p) == /\ Write(p, "a", "b")
                  /\ disk' = [disk EXCEPT ![p].b = @ + 1]
UnlockRepo(p) == Write(p, "b", "none") /\ UNCHANGED disk

Writing(p) == LockRepo(p) \/ WriteFirst(p) \/ WriteSecond(p) \/ UnlockRepo(p)
Polling == PollBegin \/ ReadFirst \/ ReadSecond \/ PollCheck \/ PollEnd

Next ==
    \/ \E p \in Path :
        \/ Open(p) \/ Release(p)
        \/ RunCommand(p) \/ RunNextSession(p) \/ CommandFinished(p)
        \/ ServiceFinished(p) \/ ServiceRestarted(p) \/ ConfigChanged(p)
        \/ SetOverlay(p) \/ ClearOverlay(p) \/ Suspend(p) \/ Resume(p)
        \/ FsEvent(p)
    \/ \E p, s \in Path : OpenSub(p, s)
    \/ \E p \in Top : Writing(p)
    \/ Polling

\* The event loop goes on and delivers each event at last, after others that
\* it finds in its queue (hence SF); a process that was told to stop ends, and
\* a writer does not keep the lock for ever.  Nobody has to run a command.
Fairness ==
    /\ WF_vars(Polling)
    /\ \A p \in Path : SF_vars(srv[p] = "stopping" /\ ServiceFinished(p))
    /\ \A p \in Top : /\ SF_vars(FsEvent(p))
                      /\ WF_vars(WriteFirst(p) \/ WriteSecond(p) \/ UnlockRepo(p))

Spec == Init /\ [][Next]_vars /\ Fairness

-----------------------------------------------------------------------------
(* Properties                                                              *)

\* A state that the watcher has recorded has been shown: whenever it holds
\* the disk for unchanged, the views have seen that very state, however
\* reads, locks, writes and suspensions were interleaved (pollStatus).
NothingSwallowed ==
    \A p \in cached : Quiet /\ last[p] = disk[p] => shown[p] = disk[p]

\* The life of the agents in order (RepoManager, _onBusyChanged,
\* _flushRepositoryChanged): one that is closed has no service left, no
\* process and no monitor, and one whose users are gone is being stopped
\* (_openagents: "refcount=0 means the repo is about to be closed"); a
\* subrepository agent stays open while another refers to it, also when it
\* is opened again while it is being closed; and no change of the repository
\* object waits to be announced but for a command that is running.
AgentsInOrder ==
    \A p \in Path :
       /\ ref[p] = Gone => ~mon[p] /\ srv[p] = "off" /\ ~Busy(p)
       /\ Quiet /\ ref[p] = 0 => srv[p] = "stopping" /\ ~mon[p]
       /\ kids[p] # {} => Users(p)
       /\ \A s \in kids[p] : Users(s) /\ ref[s] >= Parents(s)
       /\ Quiet /\ ~Busy(p) => ~changing[p]
       /\ mon[p] => ~Busy(p) /\ ~overlay[p] /\ Users(p)

\* An agent without users is closed, or used again, at last (stopService,
\* _tryEmitServiceStopped, _tryCloseRepoAgent).
ReleaseCompletes == \A p \in Path : (ref[p] = 0) ~> (ref[p] # 0)

\* A monitored repository of which something was heard ends up shown as it
\* is, or the monitor is stopped: no write is lost because the repository was
\* locked when its event came (_pollChanges).
EventsAreShown ==
    \A p \in Top : (mon[p] /\ event[p]) ~> (~mon[p] \/ shown[p] = disk[p])

=============================================================================
