# TortoiseHg, specified and checked

This directory holds TLA+ specifications of the parts of TortoiseHg (and of the
Mercurial it bundles) whose correctness depends on the order in which things
happen: who runs which command when, what a dying process leaves behind, who
may touch a repository. They are checked with TLC on small instances and, where
it says so, proved with TLAPS for every instance. All paths below are relative
to the repository.

## Inventory

TortoiseHg is a Qt front end (`src/tortoisehg`) to Mercurial (`src/mercurial`,
`src/hgext`). The repository also vendors dulwich, hggit, hgsubversion, svn
bindings and chardet, and ships binaries, translations, icons and help; those
are left aside. `PROJECT.json` lists every part. The parts that carry state:

| Part | State | Operations | Talks to | What is hard |
|---|---|---|---|---|
| `CmdAgent` (`hgqt/cmdcore.py`) | queue of sessions, zero timer | run, abort, stop the service | sessions by direct calls, worker by signals | sessions end, abort and start while the service comes and goes |
| `CmdSession` | position in its commands, connection to the worker, exit code | run, abort, slots of the worker's signals | agent, worker | its slots may be called in any state of the service |
| `CmdServer` | service state, channel table, read queue, timer | start, stop, run and abort a command, slots of the process | sessions, server process through three pipes | stop/restart/crash with data in every queue; nested event loops |
| command server process (`mercurial/commandserver.py`, `util/hgdispatch.py`) | what it executes, what it waits for | hello, runcommand, ask, return | `CmdServer` by pipes and an interrupt | killed at any point; interrupts arrive late |
| `RepoWatcher`, `RepoAgent`, `RepoManager` (`hgqt/thgrepo.py`) | last seen mtimes and contents; monitor; reference counts | poll, suspend, resume, open, release | file system, `CmdAgent`, widgets | reads of files that others write; closing while services stop |
| locks (`mercurial/lock.py`, `localrepo.lock/wlock`) | lock files, nesting counts | lock, break a stale lock, inherit, release | other processes through the file system | races between processes, processes that die |
| transactions (`mercurial/transaction.py`, `localrepo`) | journal, backups, undo files | add, addbackup, close, abort, recover, rollback | store files | a crash between any two writes |
| dirstate (`mercurial/dirstate.py`) | entries with size and mtime, parents, the file `.hg/dirstate` | status, mark, write, restore | transactions, the working directory | a clock with a grain of a second; edits by the user; delayed writes |
| phases (`mercurial/phases.py`) | roots of draft and secret changesets, a cache by revision number | advance, retract, filter | commit, push, strip | boundary cases on graphs; a cache that outlives a strip |
| exchange (`mercurial/exchange.py`, `discovery.py`) | what a push or pull has learnt so far | discover, check heads, apply, synchronize phases | another repository | answers given at different times, others pushing in between |
| bisect, merge state, revlogs, ... | | see `PROJECT.json` | | |

How they interact: a widget asks the `RepoAgent` of a repository for a command,
the agent's `CmdAgent` queues a `CmdSession`, the session runs its commands one
by one on the agent's `CmdServer`, which passes them to an `hg serve --cmdserver
pipe` process; that takes the repository's locks and writes through
transactions. When a session ends the `RepoAgent` looks at the repository and
tells the widgets what changed.

What makes each part correct:

- command execution: every session submitted ends exactly once, in order unless
  aborted, with the exit code of its own last command; no command runs after
  its session is over; no session waits for ever;
- repository agents: every change outside is noticed once the writer is done
  and never half way; an agent is closed exactly once, and only when unused;
- locks: one holder; a dead holder never blocks the others for ever; nobody
  removes a lock that is in use;
- transactions: after any crash, recovery leaves either the old or the new
  state; an aborted transaction leaves the old one;
- dirstate: a file that has changed is never taken for clean;
- phases: a changeset is never in a lower phase than a parent; a boundary moves
  for exactly the changesets it has to move for;
- exchange: no repository holds a changeset without its ancestors, nothing secret
  leaves, nothing becomes public by accident, and a push that is not forced adds no
  head, whatever others do meanwhile.

## Plan

Modules in the order of writing. All are done, except that discovery is part of
`Exchange`, by its result, and bisect is left out (see "Not modelled").

1. `ServerProcess`, `CmdCore` (the core), `CommandService` (what it promises).
2. `CmdCoreProofs`: the inductive invariant of `CmdCore` and the safety invariants that
   follow.
3. `Lock`, `LockProofs`: `lock.py` with stale locks, inherited locks and crashes.
4. `Transaction`: `transaction.py` with the callers in `localrepo.py`, a crash
   at every step; abstract specification `AtomicUpdate` (old state or new);
   `TransactionProofs`.
5. `RepoAgent`: watcher, agent and manager, with the command service reduced to what
   they see of it; `RepoAgentProofs`.
6. `ChangesetGraph`, `Phases` with its abstract specification `PhaseMap`, `Exchange`;
   `Dirstate` and `DirstateProofs`; `GraphLemmas` and `ExchangeProofs`.
7. `PhasesProofs`: the invariants of `Phases` and the refinement of `PhaseMap`, on
   the lemmas about ancestors, descendants and revision numbers in `GraphLemmas`.

The project keeps to twelve runs, so that all of them can be repeated at every
change. Four restrictions under which properties hold are lifted in a run that shows what
happens without them: `LateErrors`, `BusyRelease`, `Meddling`, and `NoNewHeads` being about
clients with bundle2. Others have no such run and are described where they are made: no
deaths in the phase `opening`, no `Careless` user, the "until the first death" of `Lock`,
and the exceptions that `DirstateKnown`, `RollbackExact` and `NothingTakenForClean` name.
In the instance of `transaction`, playback may fail to restore two of the files, for
the size of the state space; the theorems have no such restriction. Smaller disagreements of the code with its comments that were met on the way are
described under "Observations without a run".

## Modules

| Module | What it is | Code |
|---|---|---|
| `ServerProcess` | the server process and its pipes | `src/src/mercurial/commandserver.py`, `src/src/tortoisehg/util/hgdispatch.py` |
| `CmdCore` | agent, sessions, worker; EXTENDS `ServerProcess` | `src/src/tortoisehg/hgqt/cmdcore.py` |
| `CommandService` | abstract specification of command execution | (promises of `CmdAgent`'s interface) |
| `CmdCoreProofs` | inductive invariant, theorems, and the refinement of `CommandService` | |
| `Lock` | the advisory lock and the processes that use it | `src/src/mercurial/lock.py`, `_lock` and `wlock` of `localrepo.py` |
| `LockProofs` | inductive invariant and theorems | |
| `Transaction` | journal, commit, abort, recovery and rollback | `src/src/mercurial/transaction.py`, `localrepo.py`, `changelog.py` |
| `AtomicUpdate` | abstract specification of transactions | (promises of `transaction.py`) |
| `TransactionProofs` | inductive invariant, theorems, and the refinement of `AtomicUpdate` | |
| `RepoAgent` | repository agents, their manager and watcher | `src/src/tortoisehg/hgqt/thgrepo.py` |
| `RepoAgentProofs` | inductive invariant and theorems | |
| `Dirstate` | time stamps of the dirstate, under commands and transactions | `src/src/mercurial/dirstate.py`, `context.py`, `localrepo.py` |
| `DirstateProofs` | inductive invariant and theorems | |
| `ChangesetGraph` | graphs of changesets, phases on them | `src/src/mercurial/revlog.py`, `ancestor.py`, `phases.py` |
| `GraphLemmas` | what the operators of `ChangesetGraph` do, for every graph | |
| `Phases` | phase roots and the phase cache, under every command that moves them | `src/src/mercurial/phases.py`, `repair.py`, `changegroup.py` |
| `PhaseMap` | abstract specification of phases | (docstrings of `phases.py`) |
| `PhasesProofs` | theorems about `Phases` | |
| `Exchange` | push and pull between clients and a server; EXTENDS `ChangesetGraph` | `src/src/mercurial/exchange.py`, `discovery.py`, `setdiscovery.py`, `bundle2.py` |
| `ExchangeProofs` | two inductive invariants and theorems | |
| `MCCmdCore`, `MCLock`, `MCTransaction`, `MCRepoAgent`, `MCDirstate`, `MCPhases`, `MCExchange` | constants for TLC | |

### ServerProcess

One variable per pipe: `stdin` holds blocks (a request, the text that answers a
prompt, or the empty block of a cancelled prompt, which has no newline), `stdout`
frames: hello (good, or spoilt by an extension that prints), a request for a line
of input, results 0 and 255. Output, debug and progress frames change no state and
are left out. `proc` is the state of the process, `inc` counts processes, `cur` is
the session whose command is executed. `begun` and `succeeded` are history: they
say what was executed, for the abstract specification.

The actions are the server's own steps. `SrvUnknownRequest` is what `serveone`
does with anything but a request: it ends `serve` with an error. An interrupt is a
flag (`sigint`) set by the front end and taken at any later moment
(`SrvInterrupt`): in a command it becomes result 255, outside it ends the process.
`SrvCrash` may happen at any time. The operators at the end are what `CmdCore` does
to the process through `QProcess` (external code).

### CmdCore

| Variables | Attributes |
|---|---|
| `sessqueue`, `runlater`, `created` | `CmdAgent._sessqueue`, `_runlater.isActive()`, the sessions made |
| `attached`, `qnextp`, `abortbyuser`, `exitcode` | `CmdSession._worker is not None`, `_qnextp`, `_abortbyuser`, `_exitcode` |
| `svc`, `chtable`, `uihandler`, `readq`, `readtimer` | `CmdServer._servicestate`, `_readchtable`, `_uihandler`, `_readq`, `_readtimer.isActive()` |
| `asking` | the stack of nested `getLineInput` calls |
| `emitted` | history: emissions of `commandFinished` |

All this code runs in the GUI thread and its signals are direct calls, so a slot is
one action together with all that it calls: `DispatchResult`, say, is
`_processCommandResult`, `_finishCommand`, `CmdSession._onCommandFinished`, then
`_runNext` and `startCommand` or `_finish` and `CmdAgent._onCommandFinished`. The
interleaving is between slots, and with the process. A prompt is the exception: it
runs a nested event loop inside `_processLineRequest`, hence two actions,
`OpenPrompt` and `AnswerPrompt`, with anything in between; `_dispatchRead` of the
nested loop goes on with the rest of the read queue.

`_onReadyRead` takes all complete frames or, if a frame is cut, the ones before it
and starts the read timer. `_dispatchRead` handles frames one after the other in
one slot; here each is an action of its own, which adds interleavings (the code
re-enters the loop for prompts, and signals emitted on the way may run clients)
and loses none. A failed assertion in a slot ends the slot and nothing else, as
PyQt prints the exception and returns to the event loop: see `RunNext`.

`abortCommands` is a sequence of `AbortRunning` and `AbortPending` steps, one per
session. `CmdProc`, the worker that starts a process per command, is not modelled.

### CommandService

What a client of `CmdAgent` may rely on, without worker, process or pipe: sessions
served in order, one at a time; commands in order, none after a failed one; one
end per session, never while its command is executed; exit code 0 only if all that
ran returned 0. `CmdCore` implements it (`ServiceSpec`) with queue = `sessqueue`,
executing = `cur`, ended = `emitted`. One weakness had to be granted: a sequence
that is aborted while its current command still returns 0 ends with exit code 0
although later commands were dropped; only `isAborted` tells (`End`).

### Lock

Processes share nothing but the file system, so each system call is an action:
`MakeLock` and `LockExists` are the two outcomes of `util.makelock`, `ReadLock` is
`_readlock`, `TestLock` the test of the locker's pid, and so on; between any two
another process may take a step, and a process may die (`Crash`). `release()` is two
actions, `ReleaseLock` up to the end of `releasefn` and `UnlinkLock`.

| Variables | In the code |
|---|---|
| `file[l]` | the lock file, by the pid in it; level 0 is `wlock`, level 1 `wlock.break`, level 2 `wlock.break.break` |
| `pc` | where the process is: in `_trylock` or `_testlock` (`Trying`), in the command (`crit`), waiting for a subprocess (`system`), in `release` (`releasing`) |
| `tries` | `retry` of each `_trylock` on the stack: `_testlock` makes a lock object of its own, whose constructor runs `_trylock` |
| `locker` | the local variable of `_trylock` |
| `held`, `parentheld`, `parentlock`, `pid` | the attributes of the lock object |
| `patience` | waits that are left: `_lock` tries once without waiting, and then, if `wait` is set, makes a second object that tries, sleeps and tries again; hence 0 or `MaxTimeout + 1` |
| `env`, `child` | `HG_WLOCK_LOCKER` of a process; the subprocess that a process waits for in `inherit` |

`Fork` is for the workers of `src/src/mercurial/worker.py`, which copy the lock object
and must not release it. `Flaky` processes may fail to create a file for other reasons
(`LockUnavailable`). Lock files are symbolic links, processes are on one host, and no
pid is used twice. Only one bound has no counterpart in the code, `MaxLevel`: at that
level a process that finds one more stale lock stops, and since `AttemptEnds` holds no
process gets there in the checked instance.

Not modelled: the lock file that Windows writes in two steps, old-style lock files,
`testlock` called by itself, a negative `ui.timeout` (waiting for ever), a failing
`unlink` in `release`, and what a process does that has run out of attempts and goes on
without the lock, except that it releases nothing.

### Transaction

One repository, one command at a time (locks are module `Lock`), one action per
operation on a file, in the order of the code, and a death between any two (`Die`).

| Variables | In the code |
|---|---|
| `log` | the append-only files: `00changelog.i` and the manifest and filelogs (`Data`), by the transactions that appended to them |
| `file` | the files that are replaced: bookmarks and phaseroots (`Gen`), `fncache`, the dirstate |
| `jrn`, `bak`, `copy` | `journal` and `undo`; their `.backupfiles`; `journal.bookmarks`, `undo.dirstate` and so on |
| `tmp` | `00changelog.i.a`, which hooks read and which becomes the changelog of an empty repository |
| `scope` | `transaction.count` and `transaction.usages`; whether an inner scope has failed (history) |
| `entries`, `backups` | `transaction.entries` and `_backupentries`, and what `_playback` has left |
| `buf`, `wrote`, `gens` | `changelog._delayed` and `_divert`; logs appended to; file generators |
| `parent` | the first parent of the working directory, in memory |
| `before`, `exact`, `torn`, `failed`, `lost` | history: what an exact rollback brings back, whether one is possible, what a killed rollback leaves, and files that a playback could not restore |

`Begin` to `OpenBackups` are `localrepo.transaction` and `transaction.__init__`;
`Add` writes the journal entry before `WriteData` appends; `AddBackup` and `Generate`
are the two halves of a file generator; `Finalize`, `CleanUp`, `OpenUndo`, `CloseUndo`,
`RenameJournal`, `RenameCopy`, `DropBackups` and `Release` are the rest of `close` with
`aftertrans` and `releasefn`. `Truncate`, `Restore`, `UnlinkBackups` and `UnlinkJournal`
are `_playback`, which `Abort`, `Recover` and `Rollback` share.

`RestoreFails` is what `_playback` does about errors. An IOError while a copy is put back is
only reported (65), with the old file already unlinked by `copyfile`; other errors
are ignored if `c` is set, which in `rollback` it is for every entry, since `bool("0")` is
true (566). In both cases the playback goes on and removes the notes and the journal
(`Lose`), and the file stays as it is. All other errors of an abort are `AbortFails`,
which leaves the journal. `MayFail` are the files to which this may happen.

`AtomicUpdate` is what this amounts to. The refinement maps its store to what `hg
recover` would leave (`RecoveredLogs`, `RecoveredFiles`), so that the commit is the
renaming of the journal and every other step of a commit, an abort, a death or a
recovery changes nothing. There are two exceptions: `hg rollback`, which has no journal,
and a file at which an abort or a recovery failed (`faulty`), which is lost when the
journal goes; if the process dies before, recovery is done again and may
succeed (`Retry`).

Left out of the checked instance: a death in the phase `opening` (see the observations),
and `Careless`: `localrepo.rollback` and `hg update` do not look for an abandoned
journal; the instance has the user run `hg recover` first, as the next transaction would
tell him to. Not modelled: the groups of entries that strip uses, `.pending`
copies of generated files, and errors of unlinking in `close`.

### RepoAgent

All of `thgrepo.py` runs in the event loop of one thread, so a slot is one action,
except that a poll is cut into its reads (`PollBegin` to `PollEnd`): other processes
write to the repository in between (`LockRepo`, `WriteFirst`, `WriteSecond`,
`UnlockRepo`). `ref` is `RepoManager._openagents`, `kids` is
`RepoAgent._subrepoagents`, `mon` and `event` are the monitor of `RepoWatcher` and
an event that waits for delivery, `last` is what `RepoWatcher` has recorded, `shown`
is what the disk held when views were last told (history), `queue`, `running` and `srv`
are what the agent sees of its `CmdAgent`: the length of the queue, whether the first
session has started, and whether the service is off, ready, stopping or restarting.

Not modelled: a repository that is destroyed while it is open, the extensions of
`localrepo` in `thgrepository`, and the flags that tell which part changed.

### Dirstate

A clock in seconds; a file is a content and the second of its last modification; two
contents have the same size, for only then does an entry deceive. The entries are those
in state `n`; -1 is the mtime that stands for "look into the file". `Fixup` and `Commit`
compare files and collect which to mark, `Normal` marks one of them, `Finish` writes;
`Checkout` and `EndUpdate` are `merge.update`, which leaves writing to the end of the
lock; `Undelete` likewise. `Lock`, `Unlock`, `OpenTr`, `CloseTr`, `AbortTr` are the ends
of locks and transactions at which the dirstate is written, copied and put back.
`Restart` stands for the end of a process, its death, and an exception that makes it
forget the dirstate, at any moment.

Commands that make several commits (import, transplant, commit --interactive) change files
after they have marked them. `Patch` does so at any moment at which a command holds the
lock, in a transaction or not, and nothing makes the command commit the patch: transplant
closes its transaction when a patch has failed (`hgext/transplant.py:200`), import has
`--no-commit`. This is how a change can be lost. An entry marked in the second in
which the file is then patched vouches for the patch, and only `_lastnormaltime` makes
status look into the file. If the dirstate is written in a later second the entry is no
longer ambiguous and `_lastnormaltime` is reset; if another file is marked in a
later second it moves on. Two history variables keep track of that: `patched`, the files in
the first state, and `left`, those in the second. No guard depends on either.

`Fixup` and `Commit` are the two callers of the comparison. A commit remembers what its
status found modified (`changed`), ends its fix-up with a write (`EndFix`), which may be in a
later second, then opens its transaction (`OpenCommit`) and marks what it has committed.

Not modelled: states a, r and m, copies, case folding, walking, `dirstateguard`.

### ChangesetGraph, Phases, PhaseMap

A graph maps a changeset to its parents; changesets are numbered, children above
parents. `Advanced` and `Retracted` are the reference definitions, from the docstrings of
`advanceboundary` and `retractboundary`; `Inherited` is what a new changeset gets.

`Phases` is one repository object. `phaseroots` is the file and `phasecache.phaseroots`,
`phaserevs` the cache; a command is one action, for commands hold the lock, except for
strip, which truncates the changelog and adds back what it must keep in two steps with
a possible failure in between. `StripFails` is the death of the process: a strip that fails
in a command server, which lives on with its caches, is not modelled. `AdvanceBoundary` and `RetractBoundary` follow the code line by
line, with the order in which the cache is consulted and dropped: `PhaseOf` loads the
cache as `phasecache.phase` does. Phases written by another process, which reach the
object through `filecache`, are not modelled, nor are the file format and the native
computation.

`PhaseMap` has no roots and no cache: it says how the phases of all changesets may
change. The refinement includes the changesets that strip is going to add back.

### Exchange

Clients and a server, each a set of changesets with phases out of one global graph. A
client holds its lock for the whole of a push or pull, the server takes its lock only
to apply; every question to the server is an action, so that anything may happen
between two answers. For a push: `Start` (heads), `FindCommon`, `FindOutdated` (phases),
`CheckHeads` (branch heads), then `ApplyBundle2` or `CheckRace` and `ApplyBundle1`,
`SyncPhases`, `PushKey`. For a pull: `Start`, `FindCommon`, `Pull`. A client may die at any step.

Discovery by samples is reduced to its result, `Common`: what is known here of the
heads' ancestors if all heads are known, and otherwise what the server answers later. The
server only grows: nobody strips or retracts phases there. A raced push without bundle2 ends at
`CheckRace`; over HTTP and ssh the server's answer is 0, and the client goes on to
synchronize phases, which is not modelled. There is one named branch,
everything is pushed and pulled, and there are no bookmarks and no obsolescence markers.

## Runs

| Run | Checks | Bounds |
|---|---|---|
| `cmd_safety` | the type invariant, seven safety invariants, and that `CmdCore` implements `CommandService` | three sessions: one of two commands that also prompts, two of one; one prompt per command; 1.06 million states |
| `cmd_live` | every session ends; a stop completes | two sessions |
| `lock` | the type invariant, four safety invariants; attempts end, stale locks go away | three processes, two of which may die at any step and one of which may fail to create files; two attempts, one second, nesting of two, levels 0 to 2; 68,761 states |
| `transaction` | the type invariant, three safety invariants, rollback, and that `Transaction` implements `AtomicUpdate` | two transactions, nesting of two, one filelog and the changelog, one generated file, fncache and dirstate; playback may fail to restore the fncache and the dirstate; 3.7 million states |
| `transaction_late_error` | finds a violation of `Atomic` | the same, with errors in `_writeundo` and without deaths |
| `agent` | the type invariant, two safety and two liveness properties | one repository and one subrepository, two users of an agent, one session in a queue, one write; 470,000 states |
| `agent_busy_release` | finds a violation of `ReleaseCompletes` | the same, one user, no write; agents are released while they run a command |
| `dirstate` | the type invariant, `NothingTakenForClean` | two files, three contents, two of them of one size, three seconds; 1.55 million states up to symmetry |
| `dirstate_race` | finds a violation of `CleanOnDisk` | one file, with edits while commands run |
| `phases` | the type invariant, two safety properties, and that `Phases` implements `PhaseMap` | all graphs of up to four changesets, all roots that commands reach; 44,000 states |
| `exchange` | the type invariant, two safety invariants, two action properties | two clients, one with bundle2 and one without, a server, three changesets; 1.25 million states |
| `exchange_push_race` | finds a violation of `NoPushRace` | the same |

No passing run turns deadlock checking off, except those of `CmdCore` and `Lock`,
where clients may have nothing more to do.

### CmdCore

Three sessions are what the queue needs: one active, one to be aborted in the
middle, one behind it. Two commands are the shortest sequence that goes on, and one
prompt per command is enough for nested prompts, since the server of a later
session may ask while the first prompt is still open. Nothing else is bounded: stops,
restarts, crashes, interrupts and timeouts happen any number of times, for each
needs a session to make the service start again.

- `OneActive`: only the head of the queue listens to the worker, so that a result
  never reaches another session;
- `QueueIsPending`: the queue and the sessions agree on who is over;
- `NoLostWakeup`, `RunLaterSound`: the zero timer is active exactly when needed, and
  a listening session waits only for a service that will change state;
- `NoOrphanCommand`: what the server executes, or will read, belongs to a session
  that still waits for it;
- `StoppedMeansNoProcess`: `NotRunning` and "no process" are the same;
- `ProtocolInSync`: each frame is dispatched under a channel table that knows it, and a
  server waiting for a line never finds a request in its place;
- `EverySessionFinishes`, `StopCompletes`: no session and no stop hangs.

### Lock

With three processes one can have the lock, one break it and one die, or two inherit
one after the other. Two of them may die, so that a `.break` lock can be stale, and two
attempts can both be lost to deaths, which reaches the last line of `_trylock`. One
second is enough for both waiting lock objects to give up or to get the lock.

- `FileOwned`: until a process dies, who made the lock file has it until its outermost
  release is through, whatever forks, subprocesses and nested releases do. Two makers
  exclude each other;
- `InheritedIsHeld`: until then, a process that counts the lock of its parent as its own
  does so only while the parent has the file and waits;
- `NoLeak`: whose pid is in a lock file of any level is dead, or about to use or release
  that very lock. This holds through all deaths and all exceptions;
- `RetriesSuffice`: `_trylock` returns with `held` = 0 and no exception, that is, by running
  out of attempts, only if as many processes have died as it makes attempts, or if the dead
  parent's lock was broken. This is not to say that a process with `held` = 1 has the lock:
  one that finds a lock file gone before it can read it (`lock.py:118`, see the
  observations) goes on with `held` = 1 and without a file, with nobody dead;
- `AttemptEnds`, `StaleIsBroken`: every call ends, and a survivor that tries again and
  again gets rid of the file of a dead process, even if others died breaking it.

### Transaction

Two transactions are one to go wrong and one before it whose state must come back; the
first is also the one that finds an empty changelog, which takes another path. One
filelog, one generated file, the fncache and the dirstate are one file of each
kind; deaths, aborts, recoveries and rollbacks happen any number of times.

- `Atomic`: what recovery would leave changes in one step and by all that the
  transaction wrote, or not at all; only files that an abort or a recovery failed to put
  back are lost, and no others;
- `VisibleComplete`: readers, who take no lock, never find a changeset without its data;
- `NestedWhole`: no transaction is committed one of whose inner scopes was left without
  a close;
- `DirstateKnown`: the working directory is based on a changeset that exists,
  although the dirstate is not in the store. There are three mishaps after which
  that may be false until an exact rollback has ended: a rollback was killed, and with it
  the guard that would have put back the dirstate; a commit was killed after renaming
  the journal and before renaming `journal.dirstate`, and rolled back, so that there is no
  `undo.dirstate`, or an older one; `hg recover` could not restore the
  dirstate. In the first two a rollback has truncated the changelog with the
  working directory on a changeset that it removed. `torn` remembers the cause and is never
  set by what the rollback finds;
- `RollbackExact`: `hg rollback` brings back the store from before the last commit, even if
  other transactions were begun and aborted since, or the rollback was killed and repeated.
  It needs undo to be complete and about that commit (`exact`): a commit killed between
  opening `undo.backupfiles` (`OpenUndo`) and renaming the last copy (`RenameCopy`) leaves
  the one or the other, old `undo` with new `undo.backupfiles`, say; and a commit made
  upon a half done rollback has no whole state to go back to. It says nothing of files that
  an abort, a recovery or the rollback itself failed to put back (`lost`), unless the
  rollback has another copy of them.

The violation: `close` forgets its entries before it writes the undo files. If
that fails, the abort restores files and truncates nothing.

### RepoAgent

A subrepository makes the second way to hold and release an agent, two users make a
count; one session makes an agent busy and one write, of two files, makes a poll torn. A
queue is never emptied half way, so a longer one adds nothing to what the agent sees.

- `NothingSwallowed`: what the watcher has recorded as known has been shown;
- `AgentsInOrder`: closed agents have no process and no monitor, agents without users are
  being stopped, an agent is open while another refers to it, and the object of the
  repository is not exchanged during a command for longer than the command runs;
- `ReleaseCompletes`: an agent without users is closed at last, or used again. In this run
  agents are released when they run no command; what happens otherwise (`thgrepo.py:495`) is
  seen in `agent_busy_release` only;
- `EventsAreShown`: an event leads to the views seeing what is on the disk.

The violation: with `BusyRelease` a tab is closed while a command runs in a subrepository of
it. The end of the command turns the monitor on again, and the agent is never closed.

### Dirstate

Three seconds are one in which files are marked, one in which they are written again
and one in which the dirstate is written; two contents of one size deceive the size, a third does
not; two files show that one entry is dropped and another kept. The run
allows edits by the user only when no command holds the lock: `dirstate_race` shows that
without this restriction the property fails, for one file.

- `NothingTakenForClean`: neither a process that reads `.hg/dirstate`, nor the one that has
  marked files and not written them, nor one that comes after an abort takes a changed
  file for clean, except a file in `left`: one that a command marked, patched in the same
  second, and had not committed when, in a later second, it wrote the dirstate or marked another
  file. Writing such a file again ends the exception.

### Phases

Four changesets are the smallest number with a merge whose parents have a common
parent; the boundary operators are evaluated for every set of changesets in every state.

- `PromiseKept`: how phases of all changesets change, whatever the command;
- `BoundariesExact`: moving a boundary changes the phase of exactly the ancestors or
  descendants that must move, whatever the roots and the cache;
- `CacheFresh`: the cached phases are those that the roots give.

### Exchange

Three changesets are enough for two heads on a common root, one of each client, or a
merge. Only one client forces, only one lowers phases, and the server does not
commit (its clients' pushes do the same to the other client).

- `Whole`: no repository holds a changeset without its ancestors, or in a lower phase
  than a parent, although a bundle is computed from old answers;
- `NothingEscapes`: secret changesets stay where they are, and nothing becomes public
  that nobody has released;
- `NoNewHeads`: a push with bundle2 that is not forced adds no head, however pushes race;
- `PhasesPushed`: after a push, the server has nothing in a higher phase than the client.

The violation, `NoPushRace`, is `NoNewHeads` for clients without bundle2: heads are compared
before the lock is taken.

### Observations without a run

These are disagreements of the code with its comments, or states it does not seem
to expect, that the models show when a property is stated more strongly than the
runs state it.

- `cmdcore.py:441`: a restart asked for while a stale hello message is queued is forgotten:
  the message makes the service ready, and when the old process is gone the new session
  ends with -1.
- `cmdcore.py:682`: a sequence that goes on while the service is stopping fails the
  assertion of `startCommand` (334). The slot ends, `isRunning` stays true, and the session
  ends when the process has.
- `cmdcore.py:484`: the answer to a prompt that outlived its process is written to the next
  process, which takes it for a request and ends with an error.
- `lock.py:118`: a lock file that vanishes before it is read has no holder, and `None`
  equals the default of `parentlock`: the process goes on as if it had inherited the lock,
  and another can take it. `FileOwned` is about makers for this reason.
- `lock.py:162`: the file to break is tested before the `.break` lock is taken, so that a
  valid lock can be removed if a process dies at the wrong moment. `FileOwned` is stated
  until the first death for this reason.
- `dirstate.py:722`: when a transaction is closed with files that are patched and not
  committed, as by `hgext/transplant.py:200` after a failed patch, a file that
  `merge.update` (154) marked in the same transaction and in the second of its patch,
  and whose size the patch does not change, is taken for clean from then on. The same goes for
  the fix-up of a commit in a later second than the patch. This is the set `left` of
  `NothingTakenForClean`.
- `transaction.py:65`: a copy that cannot be put back is reported, and then the journal is
  removed: `hg recover` has nothing left to do and the file is gone. At line 566, `bool(c)`
  is true also for the string "0", so `hg recover` and `hg rollback` ignore errors that an abort
  would not. `Atomic` and `RollbackExact` have an exception for such files.
- `localrepo.py:1204`: a rollback looks at the parents in the dirstate to decide whether
  to put back `undo.dirstate`; if it was killed half way, the working directory may be on a
  changeset that is gone. See `DirstateKnown`.
- `transaction.py:141`: a process that dies after renaming the journal leaves
  `journal.backupfiles`. If the next transaction dies between creating `journal` and emptying
  that file, `hg recover` restores files from before the committed one. This is why
  `MayDie` leaves out the phase `opening`.
- `phases.py:458`: `newheads` misses a public parent of a merge inside the draft region, so
  client and server need not agree on phases after a push or pull; `PhasesPushed` asks only
  that the server is not behind.

### Fairness

`FairSpec` of `CmdCore` assumes weak fairness of every slot of the GUI thread (the event loop
serves timers, sockets and dialogs in turn, and users answer prompts), of the server's
reads, results, end of file and interrupt. It does not assume that a server ever says
hello (`SrvHello`), that it does not crash, nor anything of clients. `ReadyRead` is fair
only in taking everything there is: the system delivers what was written.
Commands are assumed to terminate (`SrvReturn`), for a command that hangs blocks its
session and those behind it by design. `EverySessionFinishes` therefore rests on the
read timer for a server that does not come up, and on `_onServiceFinished` for one
that dies.

`FairSpec` of `Lock` assumes only that a live process inside `lock()` is scheduled
(`TryStep`). A holder may keep the lock for ever.

`Fairness` of `RepoAgent`: polls go on; an event is delivered at last even if others
come before it (strong, since a busy loop or a suspended monitor disables the
action meanwhile); a process that was told to stop ends; a writer that has begun
unlocks. Nobody has to run a command, open or release anything, and a command that
runs need not end.

The specifications of `Transaction`, `Dirstate`, `Phases` and `Exchange` state no
fairness and no liveness property: a user may leave a repository in any state.

## Proofs

`CmdCoreProofs` proves, for any set of sessions, any number of commands and prompts:
`TypeCorrect`, `OneActiveHolds`, `QueueIsPendingHolds`, `NoLostWakeupHolds`,
`RunLaterSoundHolds`, `NoOrphanCommandHolds`, `StoppedMeansNoProcessHolds`,
`ProtocolInSyncHolds`, and the refinement `ServiceImplemented`. The only
assumptions are those of the modules: `NoSess` is not a session, every session has at
least one command, the bound on prompts is a natural number, interactive sessions are
sessions.

None of these invariants is inductive. `IInv` adds

- `QueueInv`: sessions not created, waiting and over, by their position, their count of
  emissions and their place in the queue;
- `WorkerInv`: the service state against the process, the channel table and the attached
  session (for instance, that a session attached to a service still booting has not
  started, which rules out that a late hello starts a command twice);
- `TokenInv`: a request is a token. From `startCommand` to `_processCommandResult` it is in
  one of four places, in `stdin`, in the server, in `stdout` or in the read queue, and
  there is at most one, held by the attached session. This is what makes
  `NoOrphanCommand` hold across restarts.

It begins with lemmas on queues, which state what append, tail, removal and concatenation do
to the elements of a queue and to the tokens in it. There is one lemma per action (or per
group that changes the same things), then `InitInv`, `NextInv`, `Invariance`, and one theorem per property.

Two further invariants rest on `IInv` (`CountsHold`). `FrameInv` is about the messages that
are written and not yet dispatched, `readq \o stdout`: they are in the order that the channel
table stands for (one hello message; or requests for a line, then a result; or none), and a
process that boots has written none. `ProtocolInSync` follows. `CountInv` compares the
commands that the listening session has handed out, those begun and those that succeeded, by
the place of its token: one is due while the request is in the pipe, one is being done while
the server works, none is missing while a result 0 is on its way back; an aborted session
counts as if it had handed out everything. So the session starts the next command only
after the last one succeeded, and reports 0 only if all did, which is `CommandService`:
`ClientService`, `GuiService` and `ServerService` show of every action which of its
actions it is (`ServiceStep`), or that it is none.

`LockProofs` proves, for any finite set of processes, any number of attempts and levels,
any timeout, and whoever may die: `TypeCorrect`, `NoLeakHolds`, `FileOwnedHolds`,
`MakersExclude`, which follows from the last, `InheritedIsHeldHolds` and
`RetriesSufficeHolds` (about `held` = 0 only; see the property). The assumptions are that `Proc` is finite, that `NoProc` is not a
process and that the bounds are natural numbers, `Retries` and `MaxNest` not 0. `IInv`
adds to the first properties

- `Shape`: what the place of a process says of its lock object, for instance that a
  process that reads or tests a lock file has no lock, and that only the maker of the
  lock object, by its pid, gets to remove a file;
- `NoBreaking`: nobody tries a `.break` lock before the first death. Without it
  `FileOwned` is not inductive, since who has a `.break` lock removes the file of
  another process.

`LocalStep` reduces the invariant to what the process that moves has to show, and
`LeaveKeeps`, `RefuseKeeps`, `LoopKeeps` and `HolderKeeps` treat what several actions
have in common; then there is one lemma per action.

The other two properties rest on `Descent`, a second invariant.

- `Family`, `Heirs`: until a process dies, the one that is named in an environment has the
  file and waits, and everybody with such an environment descends from it. Inherited locks
  nest to any depth; instead of a depth, `Heirs` speaks of the sets that are closed under
  `child` and contain the owner of the file: each contains everyone who has inherited. Since a
  process that waits has one child, the only descendant that moves is the last one, and
  it is the one that can come to use the lock.
- `Losses`: what an attempt costs. A process leaves `_trylock` with `held` = 0 when it has used up its
  attempts at the lock proper, and it loses one only when the file that it read was of a
  dead process and is gone. `Losing` bounds the attempts lost by the number of dead
  processes whose file is gone (`Gone`), one more or less by where the attempt is: `Even`,
  `Ahead`, `AheadOf`, `Breaking`. The dead stay dead and make no files, so the number
  does not go down (`Grows`), and each of them is counted once, however many processes
  race for its file.

`Moves` and `Quiet` say what all but a few actions leave alone, so that only those that
inherit, fork, end a subprocess or die have a lemma of their own about the family.

`DirstateProofs` proves, for any files, contents and sizes and any length of time,
`TypeCorrect` and `NothingTakenForCleanHolds`, if users edit files between commands only
(`~Meddling`; the run `dirstate_race` shows what happens otherwise). The theorem has the
exception of the property: files in `left`. `Inv` is

- `Times`: nothing is from the future, and an entry with the time stamp "now" is known as
  such: `_lastnormaltime` is now;
- `Stores`: what the dirstate file and its backup hold is older than now and vouches for the
  files, that is, a file that looks like its entry is as the manifest says, or is in `left`;
- `Fresh`: patched files have the time stamp of their entries, and that is `_lastnormaltime`;
- `Flags` and `Marks`: the same for what is in memory, between commands, after a patch,
  and in the middle of a command, where only the files still to be marked are exempt.

It is the first three that make the property inductive. Whoever writes a file does so now,
so an older entry cannot match the file afterwards, and fresh entries never get to the disk.

`RepoAgentProofs` proves, for any repositories and subrepositories, any number of users,
sessions and writes, `TypeCorrect`, `AgentsInOrderHolds` and `NothingSwallowedHolds`, if
agents are released only when they run no command (`~BusyRelease`; see the run
`agent_busy_release`). `Inv` is

- `Refs`: an agent with subrepositories is in use, and the reference count of a
  subrepository is at least the number of agents that list it (a cardinality, hence the
  library's theorems on finite sets);
- `Life`: a busy agent is in use, one that runs a command has its service on, and the
  monitor is on only for an agent in use, not busy and without an overlay, also in the
  middle of a poll;
- `Loop` and `Files`: a poll is about an agent in use; a writer changes the first file,
  then the second;
- `Views`: nothing read or recorded is newer than the disk, so that a record that equals
  the disk was taken from it as it is and shown.

`TransactionProofs` proves, for any filelogs and generated files, any number of transactions
and of nested scopes, and deaths between any two operations on files, `TypeCorrect`,
`NestedWholeHolds`, `VisibleCompleteHolds`, `DirstateKnownHolds`, `RollbackExactHolds` and
the refinement `UpdatesAreAtomic`. The hypothesis `Faults` is that of the run
`transaction`: no death in the phase `opening`, no error while the undo files are
written (`transaction_late_error` shows what that leads to), and no rollback or update
while an abandoned journal waits for recovery. `MayFail` is any set of files: playback may
fail to restore any of them, and the theorems have the exceptions that their properties
name, which come from that and from killed rollbacks. Apart from that a death, an abort, a
recovery or a rollback may come at any step. The argument is about four views of the
repository: `Logs0` and `Files0`, as `hg recover` would leave it now, and `Logs1` and
`Files1`, as `hg rollback` would leave it after that. `IInv` says

- `Shape`, `Scopes`: what phase and step say of memory and of the files of journal and undo;
- `Notes`: each log and file is noted once, with a length it still has. This is what
  makes playing back twice the same as once;
- `Played`: what a playback has dealt with is as noted, or is in `failed`, and the rest is
  still to come, so that the notes may be removed at its end;
- `Copies`: while there is something to undo there is an `undo.dirstate`, unless `torn` has
  "undo", that is, a commit was killed before it had renamed `journal.dirstate`;
- `Progress`: until the journal is renamed, each log is that of `Logs0`, or has the
  transaction appended, and each file is that of `Files0` or is the new one; which of the two
  depends only on how far the command is;
- `Logs`, `Files`, `Parent`: both views are complete, agree with the store before the last
  commit where a rollback may be exact, except for files in `lost`, and contain the parents that the copies of the
  dirstate name.

Every lemma of an action also says what it does to the first view (`Still`: nothing),
which is all that the refinement needs. What `_writeundo` keeps of the backups
(`Lasting`) is a recursive function over a sequence; it is dealt with by induction, see
`UpTo`.

`GraphLemmas` treats the operators of `ChangesetGraph`, for every graph. `Ancestors` and
`Descendants` are recursive functions, and to the prover such a function is only the choice
of one that satisfies its equation. So one is given, without recursion: the intersection of
all sets that contain a changeset and the parents of their members (`Anc`). Two functions
that satisfy the equation agree on all changesets up to any number, because parents have
smaller numbers (`AncUnique`, `BelowUnique`, by induction on that number). Hence ancestors
and descendants are the least closed sets (`AncestorsAre`, `DescendantsAre`), a graph that
grows keeps the ancestors it had (`ExtendedGraph`), and moving a boundary (`AdvancedIs`,
`RetractedIs`) or adding changesets (`InheritedIs`) keeps the phase of a child at least as
high as those of its parents. A set that is closed upwards consists of the descendants of
its roots (`DescendantsOfRoots`), which is why phases can be kept as roots. Revision numbers
count changesets, and are a bijection that changesets which come later leave alone
(`RevIs`, `NodeAtIs`, `RevKept`).

`ExchangeProofs` proves, for any clients with and without bundle2, any committers, releasers
and forcing clients and any number of changesets, `TypeOKHolds`, `WholeHolds`,
`NothingEscapesHolds`, `NothingLost`, `NoNewHeadsHolds` (for clients with bundle2; the run
`exchange_push_race` shows the others) and `PhasesPushedHolds`. The assumptions are that the
server is not a client, that bundle2 and forcing clients are clients, and that at least one
changeset may exist. A client uses in one step what it has learned in an earlier one, when
the server has moved on; the invariants say what remains true of it.

- `IInv` adds `Carried` to the safety properties: the heads that were listed and what was
  found in common are still served, the outdated changesets are held where their phases
  are to be moved, and after a push the server holds all that was pushed. It survives the
  steps of others because of `Later`, which every step satisfies: no changeset is lost, no
  phase of a held one rises, so what was served is served. `NothingLost` states this by
  itself. The client's own repository cannot move: it is locked.
- `Pushes` is a second invariant, of pushes. `Compared`: if the heads of the server are
  the ones that were listed, the outcome of the head check stands. Others may have pushed
  between, so this needs that the served set only grows and that all of it is below its
  heads: the same heads mean the same served set. `Promised`: what is to be public at the
  end is public at the server or below an outdated changeset still to be moved; this
  relates the draft roots that the server has listed, at some earlier time, to the phases
  it has now.

`MovesSafe` reduces a step to what it does to one repository; then there is one lemma per
action for each invariant, and `OthersWait` for the clients that do not move.

`PhasesProofs` proves, for any bound on changesets, `TypeCorrect`, `CacheFreshHolds`,
`BoundariesExactHolds` and the refinement `PhasesPromised`. The only assumption is that the
bound is a natural number.

- The phases that roots give are in order on every graph, whatever the roots (`GivenIs`):
  nothing asks them to be minimal, or a draft root not to be below a secret one. A changeset
  that is no root has the highest phase of its parents (`GivenParents`), which is how
  commits and what is unbundled get their phases.
- `IsCache` says of a cache which phase it holds of a changeset, not of a position: a
  changeset whose revision number it reaches has the phase that the roots give. In this form
  it is kept when others are added (`CacheKept`), and loading, updating and moving
  boundaries lead from a cache to a cache.
- `RetractIs` and `AdvanceIs` are the two algorithms. Both are proved exact for every
  graph, every set of changesets and every right cache, reachable or not:
  `retractboundary`, which computes again only the roots at or above the lowest new one,
  and `advanceboundary`, which works through the phases above the target, drops from each
  the part of its roots that is above the changesets (`Kept`) and declares what it
  dropped in the target phase.
- `IInv` adds to the types that changelog and bundle are parts of one graph, the changelog
  without children of the bundle, and, unless strip is at work, that the bundle is
  empty, the roots are in the changelog and the cache is right. While strip is at work the
  cache may be wrong and roots may be missing from the changelog; both are dropped at the end.
- `CommandIs` reduces a step to four kinds: a command that adds changesets in a phase
  (`Adds`), one that moves them to a phase (`Moves`), the steps of strip, and those that
  change no phase. `MoveIs` shows that moving some changesets to one phase takes along
  ancestors and descendants as `PhaseMap` asks, because the result is in order; `HighestIs`
  does the same for the phases of what is added.

Only model-checked: liveness, which the prover cannot do. The violations are by nature
TLC's, and so is what a run with a restriction lifted shows.

## Not modelled

`PROJECT.json` gives a reason for each part. In short: formatting and parsing, transport,
views and dialogs (each builds a command line and hands it to the agent), extensions with
state files of their own, text merging, and the revlog formats. Bisect is a pure
function of the graph with one state file and one user. The merge state is written in two
formats whose agreement depends on their contents. The order in which `localrepo` takes
its two locks is a convention checked at run time, and a wait in the wrong order ends by
timeout. Within command execution: output and progress messages, encodings except for the
two failures that change control (a command line and an answer that cannot be encoded),
`CmdProc`, an empty command sequence (`runCommandSequence([])`, which no caller makes).

Much of the repository is tables, bindings, parsing, formatting, and scripts that combine the
parts above; none of these keeps state over which an order of events decides. The
models cover the parts that do, which are small files at the centre of it.
