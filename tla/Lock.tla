------------------------------ MODULE Lock ------------------------------
(***************************************************************************)
(* The advisory lock of mercurial/lock.py as localrepo.wlock() takes it: a *)
(* file whose content names the process that holds it.                     *)
(*                                                                         *)
(* A process that finds the file of a dead process removes it, holding     *)
(* another lock of the same kind meanwhile, whose file has the name with   *)
(* ".break" appended.  That one may be stale in turn, so there are levels: *)
(* file[0] is the lock proper, file[i + 1] the one for breaking file[i].   *)
(*                                                                         *)
(* A holder may take the lock again (it counts), fork, or let a subprocess *)
(* inherit it.  Each system call is one action; a process may die between  *)
(* any two.  The processes are on one host, and no pid is used twice.      *)
(***************************************************************************)
EXTENDS Integers, Sequences, FiniteSets

CONSTANTS Proc,        \* processes, by pid
          NoProc,      \* no pid: the file does not exist, or None
          MayCrash,    \* processes that may die
          Flaky,       \* processes that may fail to create a file
          Retries,     \* attempts of _trylock (5 in the code)
          MaxTimeout,  \* the seconds lock() waits (ui.timeout, 600)
          MaxNest,     \* bound: how often a holder takes the lock again
          MaxLevel     \* bound: the longest chain of .break files

ASSUME ProcAssumption == NoProc \notin Proc /\ IsFiniteSet(Proc)
ASSUME SubsetAssumption == MayCrash \subseteq Proc /\ Flaky \subseteq Proc
ASSUME BoundAssumption == /\ Retries \in Nat \ {0}
                          /\ MaxTimeout \in Nat
                          /\ MaxNest \in Nat \ {0}
                          /\ MaxLevel \in Nat

VARIABLES file,        \* who made the lock file of each level, or NoProc
          pc,          \* where each process is
          tries,       \* attempts left at each level, innermost last
          locker,      \* what _readlock returned
          held,        \* lock.held of the lock object being made or used
          parentheld,  \* its _parentheld
          parentlock,  \* its parentlock, at level 0
          pid,         \* its pid
          patience,    \* how often p still tries again when the lock is held
          env,         \* HG_WLOCK_LOCKER in the environment
          child        \* the subprocess that inherits, or NoProc

object == <<held, parentheld, parentlock, pid>>
family == <<env, child>>
vars == <<file, pc, tries, locker, object, patience, family>>

Level == 0..MaxLevel
Trying == {"make", "read", "test", "break", "unbreak", "abort"}
Place == Trying \cup {"idle", "crit", "system", "releasing", "dead"}

TypeOK ==
    /\ file \in [Level -> Proc \cup {NoProc}]
    /\ pc \in [Proc -> Place]
    /\ tries \in [Proc -> Seq(0..Retries)]
    /\ \A p \in Proc : /\ Len(tries[p]) <= MaxLevel + 1
                       /\ (tries[p] # <<>>) = (pc[p] \in Trying)
    /\ locker \in [Proc -> Proc \cup {NoProc}]
    /\ held \in [Proc -> 0..MaxNest]
    /\ parentheld \in [Proc -> BOOLEAN]
    /\ parentlock \in [Proc -> Proc \cup {NoProc}]
    /\ pid \in [Proc -> Proc]
    /\ patience \in [Proc -> 0..(MaxTimeout + 1)]
    /\ env \in [Proc -> Proc \cup {NoProc}]
    /\ child \in [Proc -> Proc \cup {NoProc}]

Init ==
    /\ file = [l \in Level |-> NoProc]
    /\ pc = [p \in Proc |-> "idle"]
    /\ tries = [p \in Proc |-> <<>>]
    /\ locker = [p \in Proc |-> NoProc]
    /\ held = [p \in Proc |-> 0]
    /\ parentheld = [p \in Proc |-> FALSE]
    /\ parentlock = [p \in Proc |-> NoProc]
    /\ pid = [p \in Proc |-> p]
    /\ patience = [p \in Proc |-> 0]
    /\ env = [p \in Proc |-> NoProc]
    /\ child = [p \in Proc |-> NoProc]

Dead == {p \in Proc : pc[p] = "dead"}

-----------------------------------------------------------------------------
(* Parts of actions                                                        *)

Top(p) == Len(tries[p]) - 1    \* the level at which p is trying

\* Only the lock proper can be a parent's: .break locks have parentlock None.
ParentLock(p) == IF Top(p) = 0 THEN parentlock[p] ELSE NoProc

\* _trylock returns, and with it the constructor: the lock proper is used, a
\* .break lock serves to remove the file of the level below.
Enter(p) ==
    IF Top(p) = 0
    THEN /\ pc' = [pc EXCEPT ![p] = "crit"]
         /\ tries' = [tries EXCEPT ![p] = <<>>]
    ELSE /\ pc' = [pc EXCEPT ![p] = "break"]
         /\ UNCHANGED tries

\* Faulty variants of definitions are named <definition>_<fault>: each stands
\* right before the definition it is a variant of and is used by nothing else.
Loop_OffByOne(p, ts) ==
    /\ pc' = [pc EXCEPT ![p] = "make"]
    /\ tries' = [tries EXCEPT ![p] = ts]

\* The loop of _trylock goes on with ts, and ends without the lock when no
\* attempt is left.
Loop(p, ts) ==
    IF ts[Len(ts)] > 0
    THEN /\ pc' = [pc EXCEPT ![p] = "make"]
         /\ tries' = [tries EXCEPT ![p] = ts]
    ELSE IF Len(ts) = 1
    THEN /\ pc' = [pc EXCEPT ![p] = "crit"]
         /\ tries' = [tries EXCEPT ![p] = <<>>]
    ELSE /\ pc' = [pc EXCEPT ![p] = "break"]
         /\ tries' = [tries EXCEPT ![p] = ts]

\* The command is over with the lock, or never had it.
Leave(p, place) ==
    /\ pc' = [pc EXCEPT ![p] = place]
    /\ tries' = [tries EXCEPT ![p] = <<>>]
    /\ locker' = [locker EXCEPT ![p] = NoProc]
    /\ held' = [held EXCEPT ![p] = 0]
    /\ parentheld' = [parentheld EXCEPT ![p] = FALSE]
    /\ parentlock' = [parentlock EXCEPT ![p] = NoProc]
    /\ pid' = [pid EXCEPT ![p] = p]
    /\ patience' = [patience EXCEPT ![p] = 0]

Refuse_Patient(p) ==
    IF patience[p] > 0
    THEN /\ pc' = [pc EXCEPT ![p] = "make"]
         /\ tries' = [tries EXCEPT ![p] = <<Retries>>]
         /\ locker' = [locker EXCEPT ![p] = NoProc]
         /\ parentlock' = [parentlock EXCEPT ![p] = NoProc]
         /\ UNCHANGED <<held, parentheld, pid, patience>>
    ELSE Leave(p, "idle")

Refuse_Silently(p) ==
    /\ pc' = [pc EXCEPT ![p] = "crit"]
    /\ tries' = [tries EXCEPT ![p] = <<>>]
    /\ UNCHANGED <<locker, object, patience>>

\* LockHeld.  At a .break lock it makes _testlock return the locker of the
\* level below, so that it is raised there again, down to level 0.  There
\* lock() sleeps and tries again, or _lock makes a second lock object that
\* waits, and knows of no parent, or the caller gets the exception.
Refuse(p) ==
    IF patience[p] > 0
    THEN /\ pc' = [pc EXCEPT ![p] = "make"]
         /\ tries' = [tries EXCEPT ![p] = <<Retries>>]
         /\ locker' = [locker EXCEPT ![p] = NoProc]
         /\ patience' = [patience EXCEPT ![p] = @ - 1]
         /\ parentlock' = [parentlock EXCEPT ![p] = NoProc]
         /\ UNCHANGED <<held, parentheld, pid>>
    ELSE Leave(p, "idle")

\* release() of p's lock object at level l removes the file, whosever it is,
\* unless a parent holds it or there is nothing to release.
Removed(p, l) ==
    IF held[p] = 0 \/ parentheld[p] THEN file ELSE [file EXCEPT ![l] = NoProc]

-----------------------------------------------------------------------------
(* Taking the lock                                                         *)

\* localrepo.wlock, _lock: the first attempt does not wait, and is the last one
\* unless wait is set.
Lock(p) ==
    /\ pc[p] = "idle"
    /\ pc' = [pc EXCEPT ![p] = "make"]
    /\ tries' = [tries EXCEPT ![p] = <<Retries>>]
    /\ parentlock' = [parentlock EXCEPT ![p] = env[p]]
    /\ \E n \in {0, MaxTimeout + 1} : patience' = [patience EXCEPT ![p] = n]
    /\ UNCHANGED <<file, locker, held, parentheld, pid, family>>

\* _trylock of a lock that is held
Relock(p) ==
    /\ pc[p] = "crit"
    /\ held[p] \in 1..(MaxNest - 1)
    /\ held' = [held EXCEPT ![p] = @ + 1]
    /\ UNCHANGED <<file, pc, tries, locker, parentheld, parentlock, pid, patience,
                   family>>

\* _trylock: makelock creates the file...
MakeLock(p) ==
    /\ pc[p] = "make"
    /\ file[Top(p)] = NoProc
    /\ file' = [file EXCEPT ![Top(p)] = p]
    /\ held' = [held EXCEPT ![p] = 1]
    /\ Enter(p)
    /\ UNCHANGED <<locker, parentheld, parentlock, pid, patience, family>>

\* ...or finds it there...
LockExists(p) ==
    /\ pc[p] = "make"
    /\ file[Top(p)] # NoProc
    /\ pc' = [pc EXCEPT ![p] = "read"]
    /\ tries' = [tries EXCEPT ![p][Len(tries[p])] = @ - 1]
    /\ UNCHANGED <<file, locker, object, patience, family>>

\* ...or fails otherwise: LockUnavailable, which a _testlock below catches and
\* lock() does not.
LockUnavailable(p) ==
    /\ pc[p] = "make"
    /\ file[Top(p)] = NoProc
    /\ p \in Flaky
    /\ IF Top(p) = 0 THEN Leave(p, "idle") ELSE Refuse(p)
    /\ UNCHANGED <<file, family>>

\* _trylock: _readlock, and the comparison with the lock of a parent.  When the
\* file has gone meanwhile _readlock returns None.
ReadLock(p) ==
    /\ pc[p] = "read"
    /\ IF file[Top(p)] = ParentLock(p)
       THEN /\ parentheld' = [parentheld EXCEPT ![p] = TRUE]
            /\ held' = [held EXCEPT ![p] = 1]
            /\ Enter(p)
            /\ UNCHANGED locker
       ELSE /\ IF file[Top(p)] = NoProc
               THEN /\ Loop(p, tries[p])
                    /\ UNCHANGED locker
               ELSE /\ pc' = [pc EXCEPT ![p] = "test"]
                    /\ locker' = [locker EXCEPT ![p] = file[Top(p)]]
                    /\ UNCHANGED tries
            /\ UNCHANGED <<held, parentheld>>
    /\ UNCHANGED <<file, parentlock, pid, patience, family>>

TestLock_TrustBreaker(p) ==
    /\ pc[p] = "test"
    /\ \/ /\ locker[p] \in Dead
          /\ Top(p) = 0
          /\ pc' = [pc EXCEPT ![p] = "make"]
          /\ tries' = [tries EXCEPT ![p] = Append(@, Retries)]
          /\ locker' = [locker EXCEPT ![p] = NoProc]
          /\ UNCHANGED <<object, patience>>
       \/ (locker[p] \notin Dead \/ Top(p) > 0) /\ Refuse(p)
    /\ UNCHANGED <<file, family>>

\* _testlock: a live locker is respected; to remove the file of a dead one the
\* .break lock is taken first, without waiting.  (A process stops at MaxLevel;
\* AttemptEnds says that none gets there.)
TestLock(p) ==
    /\ pc[p] = "test"
    /\ \/ /\ locker[p] \in Dead
          /\ Top(p) < MaxLevel
          /\ pc' = [pc EXCEPT ![p] = "make"]
          /\ tries' = [tries EXCEPT ![p] = Append(@, Retries)]
          /\ locker' = [locker EXCEPT ![p] = NoProc]
          /\ UNCHANGED <<object, patience>>
       \/ locker[p] \notin Dead /\ Refuse(p)
    /\ UNCHANGED <<file, family>>

\* _testlock: the file is removed, whosever it is now.  If it is not there the
\* OSError is no LockError and ends the command.
BreakLock(p) ==
    /\ pc[p] = "break"
    /\ IF file[Top(p) - 1] # NoProc
       THEN pc' = [pc EXCEPT ![p] = "unbreak"]
       ELSE pc' = [pc EXCEPT ![p] = "abort"]
    /\ file' = [file EXCEPT ![Top(p) - 1] = NoProc]
    /\ UNCHANGED <<tries, locker, object, patience, family>>

\* _testlock: the .break lock is released, and _trylock goes on one level below.
ReleaseBreak(p) ==
    /\ pc[p] = "unbreak"
    /\ file' = Removed(p, Top(p))
    /\ held' = [held EXCEPT ![p] = 0]
    /\ parentheld' = [parentheld EXCEPT ![p] = FALSE]
    /\ Loop(p, SubSeq(tries[p], 1, Len(tries[p]) - 1))
    /\ UNCHANGED <<locker, parentlock, pid, patience, family>>

AbortBreak_NoRelease(p) ==
    /\ pc[p] = "abort"
    /\ UNCHANGED file
    /\ Leave(p, "idle")
    /\ UNCHANGED family

\* __del__: the exception deletes the .break lock object, which releases it.
AbortBreak(p) ==
    /\ pc[p] = "abort"
    /\ file' = Removed(p, Top(p))
    /\ Leave(p, "idle")
    /\ UNCHANGED family

-----------------------------------------------------------------------------
(* Using and releasing it                                                  *)

\* release of a lock taken several times
ReleaseNested(p) ==
    /\ pc[p] = "crit"
    /\ held[p] > 1
    /\ held' = [held EXCEPT ![p] = @ - 1]
    /\ UNCHANGED <<file, pc, tries, locker, parentheld, parentlock, pid, patience,
                   family>>

ReleaseLock_AnyProcess(p) ==
    /\ pc[p] = "crit"
    /\ held[p] = 1
    /\ pc' = [pc EXCEPT ![p] = "releasing"]
    /\ UNCHANGED <<file, tries, locker, object, patience, family>>

\* release: releasefn runs, which still writes under the lock.  (The code sets
\* held to 0 here; "releasing" says so.)
ReleaseLock(p) ==
    /\ pc[p] = "crit"
    /\ held[p] = 1
    /\ pid[p] = p
    /\ pc' = [pc EXCEPT ![p] = "releasing"]
    /\ UNCHANGED <<file, tries, locker, object, patience, family>>

\* release by a process that was forked by the holder, or of a lock that was
\* not taken in the end (what such a process does meanwhile is not modelled)
ReleaseNothing(p) ==
    /\ pc[p] = "crit"
    /\ \/ held[p] = 0
       \/ held[p] = 1 /\ pid[p] # p
    /\ Leave(p, "idle")
    /\ UNCHANGED <<file, family>>

UnlinkLock_EvenParents(p) ==
    /\ pc[p] = "releasing"
    /\ file' = [file EXCEPT ![0] = NoProc]
    /\ Leave(p, "idle")
    /\ UNCHANGED family

\* release: the file is removed
UnlinkLock(p) ==
    /\ pc[p] = "releasing"
    /\ file' = Removed(p, 0)
    /\ Leave(p, "idle")
    /\ UNCHANGED family

\* q can be a new process: it is not running and nobody knows its pid.
Free(q) ==
    /\ pc[q] = "idle"
    /\ env[q] = NoProc
    /\ \A p \in Proc \ {q} :
          child[p] # q /\ pid[p] # q /\ env[p] # q /\ parentlock[p] # q

\* inherit, wlocksub: subprocess q is told the name in the lock file and p waits
\* for it.  Not modelled: inheriting from a forked process.
Inherit(p, q) ==
    /\ pc[p] = "crit"
    /\ held[p] > 0
    /\ pid[p] = p
    /\ parentheld[p] => parentlock[p] # NoProc
    /\ Free(q)
    /\ pc' = [pc EXCEPT ![p] = "system"]
    /\ child' = [child EXCEPT ![p] = q]
    /\ env' = [env EXCEPT ![q] = IF parentheld[p] THEN parentlock[p] ELSE p]
    /\ UNCHANGED <<file, tries, locker, object, patience>>

\* The subprocess has ended.
InheritEnd(p) ==
    /\ pc[p] = "system"
    /\ pc[child[p]] \in {"idle", "dead"}
    /\ pc' = [pc EXCEPT ![p] = "crit"]
    /\ child' = [child EXCEPT ![p] = NoProc]
    /\ env' = [env EXCEPT ![child[p]] = NoProc]
    /\ UNCHANGED <<file, tries, locker, object, patience>>

\* os.fork by a holder: q has a copy of the lock object.
Fork(p, q) ==
    /\ pc[p] = "crit"
    /\ held[p] > 0
    /\ Free(q)
    /\ pc' = [pc EXCEPT ![q] = "crit"]
    /\ held' = [held EXCEPT ![q] = held[p]]
    /\ parentheld' = [parentheld EXCEPT ![q] = parentheld[p]]
    /\ parentlock' = [parentlock EXCEPT ![q] = parentlock[p]]
    /\ pid' = [pid EXCEPT ![q] = pid[p]]
    /\ UNCHANGED <<file, tries, locker, patience, family>>

\* The process dies and leaves its files behind.
Crash(p) ==
    /\ p \in MayCrash
    /\ pc[p] \notin {"idle", "dead"}
    /\ Leave(p, "dead")
    /\ env' = [env EXCEPT ![p] = NoProc]
    /\ child' = [child EXCEPT ![p] = NoProc]
    /\ UNCHANGED file

-----------------------------------------------------------------------------

\* The steps of lock() once it is called
TryStep(p) ==
    \/ MakeLock(p)
    \/ LockExists(p)
    \/ LockUnavailable(p)
    \/ ReadLock(p)
    \/ TestLock(p)
    \/ BreakLock(p)
    \/ ReleaseBreak(p)
    \/ AbortBreak(p)

UseStep(p) ==
    \/ Relock(p)
    \/ ReleaseNested(p)
    \/ ReleaseLock(p)
    \/ ReleaseNothing(p)
    \/ UnlinkLock(p)
    \/ InheritEnd(p)
    \/ \E q \in Proc \ {p} : Inherit(p, q)
    \/ \E q \in Proc \ {p} : Fork(p, q)

Next == \E p \in Proc : Lock(p) \/ TryStep(p) \/ UseStep(p) \/ Crash(p)

Spec == Init /\ [][Next]_vars

\* A process that tries to lock is scheduled.  Nothing is assumed of holders.
FairSpec == Spec /\ \A p \in Proc : WF_vars(TryStep(p))

-----------------------------------------------------------------------------
(* Properties                                                              *)

\* p, and no process it was forked from, relies on the lock proper.
Uses(p) == pc[p] \in {"crit", "system", "releasing"} /\ held[p] > 0 /\ pid[p] = p

\* p relies on it because it made the file.
Made(p) == Uses(p) /\ ~parentheld[p]

\* As long as no process has died, who made the lock file has it until the
\* outermost release is through: neither nested releases, nor a forked process,
\* nor a subprocess that inherited the lock, nor a process that broke a lock
\* takes it away (_trylock, release).  So two makers exclude each other.
FileOwned == Dead = {} => \A p \in Proc : Made(p) => file[0] = p

\* A process that takes the lock of its parent for its own does so while the
\* parent has the file and waits for it (inherit, _trylock).
InheritedIsHeld ==
    Dead = {} =>
        \A q \in Proc : Uses(q) /\ parentheld[q] /\ parentlock[q] # NoProc =>
            /\ Made(parentlock[q])
            /\ pc[parentlock[q]] = "system"
            /\ file[0] = parentlock[q]

\* A live process leaves no lock file behind, of any level and on any path:
\* whose name is in a file has died or is about to use or release just that
\* lock (_trylock, _testlock, release, __del__).
NoLeak ==
    \A l \in Level, p \in Proc : file[l] = p =>
        \/ pc[p] = "dead"
        \/ (l = 0 /\ Made(p))
        \/ /\ pc[p] \in {"break", "unbreak", "abort"}
           /\ l = Top(p) /\ held[p] = 1 /\ ~parentheld[p]

\* _trylock does not give up quietly: when lock() returns without an exception
\* and holds nothing (held = 0), all its attempts have found and lost a lock
\* file, and that takes as many deaths, or that of a parent.  What held > 0 is
\* worth is not said here: who reads None from a file that has just vanished
\* goes on with held = 1, as if a parent had the lock, and without any file.
RetriesSuffice ==
    \A p \in Proc : pc[p] = "crit" /\ pid[p] = p =>
        \/ held[p] > 0
        \/ Cardinality(Dead) >= Retries
        \/ Dead # {} /\ parentlock[p] # NoProc

\* Every call of lock() ends, whatever holders do: chains of stale .break
\* locks and retries are finite, and waiting times out (lock, _trylock).
AttemptEnds == \A p \in Proc : (pc[p] \in Trying) ~> (pc[p] \notin Trying)

\* A dead process does not keep the lock: if one that survives, and is not its
\* subprocess, tries again and again, the file goes away, even if others died
\* breaking it (_testlock).
StaleIsBroken ==
    (\E p \in Proc \ (MayCrash \cup Flaky) :
        []<>(pc[p] = "make" /\ env[p] = NoProc)) =>
        \A d \in Proc : (file[0] = d /\ d \in Dead) ~> (file[0] # d)

=============================================================================
