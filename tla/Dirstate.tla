------------------------------ MODULE Dirstate ------------------------------
(***************************************************************************)
(* Time stamps in the dirstate (mercurial/dirstate.py).  An entry vouches  *)
(* for a file: while size and modification time are those of the entry,    *)
(* status takes the file for unchanged and does not read it.  Time has the *)
(* grain of a second, so a file may change twice at one time; the entries  *)
(* of files that were modified "now" are therefore not kept: neither in    *)
(* the file (pack_dirstate), nor in memory when writing is delayed to the  *)
(* end of the transaction (write), and status looks at _lastnormaltime.    *)
(*                                                                         *)
(* One process at a time runs commands on a working directory: status with *)
(* its fix-up, commit, checkout, undelete, and the patching of files by    *)
(* commands that make several commits, in a transaction or not.  The user  *)
(* edits files between commands; with Meddling, at any moment.             *)
(*                                                                         *)
(* One way to lose a change is known, and kept track of (left): a command  *)
(* marks a file, patches it in the same second, and in a later one writes  *)
(* the dirstate, or marks another file, with the patch not yet committed.  *)
(***************************************************************************)
EXTENDS Integers

CONSTANTS File,      \* tracked files
          Content,   \* what a file may hold
          Size,      \* the sizes of these contents
          Meddling,  \* the user edits files while commands run
          MaxTime    \* bound: seconds

ASSUME SizeAssumption == Size \in [Content -> Nat]
ASSUME BoundAssumption == Meddling \in BOOLEAN /\ MaxTime \in Nat \ {0}

VARIABLES now,     \* the clock of the file system
          wd,      \* the working directory
          map,     \* dirstate._map, in memory; entries in state 'n'
          pl,      \* what the parent _pl holds
          last,    \* dirstate._lastnormaltime
          dirty,   \* dirstate._dirty
          disk,    \* .hg/dirstate
          held,    \* the process holds wlock
          tr,      \* a transaction is open
          gen,     \* it will write the dirstate (addfilegenerator)
          backup,  \* .hg/journal.dirstate; as disk when no transaction is open
          op,      \* "fix", "mark" or "update" while a command marks files as
                   \* normal, "open" before a commit opens its transaction
          todo,    \* the files it has still to mark
          next,    \* what the parent will hold
          changed, \* what a commit has found modified and will mark
          patched, \* history: files that the command has patched in the second
                   \* in which it had marked them
          left     \* history: files that were still patched when the dirstate
                   \* was written, or a file marked, in a later second

memory == <<map, pl, last, dirty>>
trans == <<tr, gen, backup>>
step == <<op, todo, next, changed>>
risk == <<patched, left>>
vars == <<now, wd, memory, disk, held, trans, step, risk>>

Time == 0..MaxTime
Entry == [size : {Size[c] : c \in Content}, mtime : Time \cup {-1}]
Manifest == [File -> Content]
Stored == [map : [File -> Entry], pl : Manifest]

TypeOK ==
    /\ now \in Time
    /\ wd \in [File -> [data : Content, mtime : Time]]
    /\ map \in [File -> Entry] /\ pl \in Manifest
    /\ last \in Time /\ dirty \in BOOLEAN
    /\ disk \in Stored /\ backup \in Stored
    /\ held \in BOOLEAN /\ tr \in BOOLEAN /\ gen \in BOOLEAN
    /\ op \in {"idle", "fix", "open", "mark", "update"}
    /\ todo \in SUBSET File /\ next \in Manifest /\ changed \in SUBSET File
    /\ patched \in SUBSET File /\ left \in SUBSET File

\* A clone: all files have just been written, and are as in the parent.
Init == /\ now = 1
        /\ pl \in Manifest
        /\ wd = [f \in File |-> [data |-> pl[f], mtime |-> 1]]
        /\ map = [f \in File |-> [size |-> Size[pl[f]], mtime |-> -1]]
        /\ last = 0 /\ dirty = FALSE
        /\ disk = [map |-> map, pl |-> pl] /\ backup = disk
        /\ held = FALSE /\ tr = FALSE /\ gen = FALSE
        /\ op = "idle" /\ todo = {} /\ next = pl /\ changed = {}
        /\ patched = {} /\ left = {}

-----------------------------------------------------------------------------
(* status                                                                  *)

SameSize(m, f) == m[f].size = Size[wd[f].data]
Clean(m, normaltime, f) ==
    SameSize(m, f) /\ m[f].mtime = wd[f].mtime /\ wd[f].mtime # normaltime

Unsure(m, normaltime, f) == SameSize(m, f) /\ ~Clean(m, normaltime, f)

Equal(f) == wd[f].data = pl[f]
Modified == {f \in File : \/ ~SameSize(map, f)
                          \/ Unsure(map, last, f) /\ ~Equal(f)}
Unchanged == {f \in File : Unsure(map, last, f) /\ Equal(f)}

-----------------------------------------------------------------------------
(* Writing                                                                 *)

\* Mutant: the whole entry is invalidated, like normallookup does.
Dropped_whole(m) ==
    [f \in File |-> IF m[f].mtime = now THEN [size |-> -1, mtime |-> -1] ELSE m[f]]

\* pack_dirstate, and what write does instead when writing is delayed
Dropped(m) ==
    [f \in File |-> IF m[f].mtime = now THEN [m[f] EXCEPT !.mtime = -1] ELSE m[f]]

\* _writedirstate
WriteOut(m, p) ==
    /\ map' = Dropped(m)
    /\ disk' = [map |-> Dropped(m), pl |-> p]
    /\ last' = 0 /\ dirty' = FALSE

\* write(None)
WriteNone(m, p) ==
    IF dirty THEN WriteOut(m, p) ELSE UNCHANGED <<map, last, dirty, disk>>

\* write(repo.currenttransaction()) of a dirstate that is dirty
WriteTr(m, p) ==
    IF tr
    THEN /\ map' = Dropped(m) /\ last' = 0 /\ dirty' = TRUE
         /\ gen' = TRUE
         /\ UNCHANGED <<disk, backup>>
    ELSE WriteOut(m, p) /\ backup' = disk' /\ UNCHANGED gen

-----------------------------------------------------------------------------
(* Commands                                                                *)

\* The dirstate is written, without the entries of this second; what was
\* patched in an earlier one stays behind.
LeavePatched == /\ left' = left \cup {f \in patched : map[f].mtime # now}
                /\ patched' = {}

Start(at, files, manifest, modified) ==
    /\ op = "idle"
    /\ op' = at /\ todo' = files /\ next' = manifest /\ changed' = modified
    /\ UNCHANGED <<now, memory, disk, held, trans>>

\* workingctx._checklookup in a status: files that were compared and found
\* equal are marked, if the lock is free.
Fixup ==
    /\ Unchanged # {}
    /\ Start("fix", Unchanged, pl, {})
    /\ UNCHANGED <<wd, risk>>

\* localrepo.commit: its status remembers what is modified, and marks what
\* is equal;
Commit ==
    /\ held /\ Modified # {}
    /\ Start(IF Unchanged = {} THEN "open" ELSE "fix", Unchanged,
             [f \in File |-> IF f \in Modified THEN wd[f].data ELSE pl[f]], Modified)
    /\ UNCHANGED <<wd, risk>>

\* _checklookup writes the dirstate, or has it written by the transaction;
EndFix ==
    /\ op = "fix" /\ todo = {}
    /\ WriteTr(map, pl)
    /\ op' = IF changed = {} THEN "idle" ELSE "open"
    /\ LeavePatched
    /\ UNCHANGED <<now, wd, pl, held, tr, todo, next, changed>>

\* merge.update to another changeset, with no local changes: files that
\* differ between the two are written.
Checkout(manifest) ==
    LET differ == {f \in File : manifest[f] # pl[f]} IN
    /\ held /\ Modified = {} /\ differ # {}
    /\ Start("update", differ, manifest, {})
    /\ wd' = [f \in File |-> IF f \in differ THEN [data |-> manifest[f], mtime |-> now]
                             ELSE wd[f]]
    /\ patched' = patched \ differ /\ left' = left \ differ

\* f is marked; when that moves _lastnormaltime, status no longer looks into
\* the files that were patched before.
Marked(f, behind) ==
    IF last' = last
    THEN patched' = patched \ {f} /\ left' = behind
    ELSE patched' = {} /\ left' = behind \cup (patched \ {f})

\* Mutant: normal does not remember the time.
Normal_timeless(f) ==
    /\ f \in todo
    /\ map' = [map EXCEPT ![f] = [size |-> Size[wd[f].data], mtime |-> wd[f].mtime]]
    /\ dirty' = TRUE
    /\ todo' = todo \ {f}
    /\ UNCHANGED last /\ Marked(f, left)
    /\ UNCHANGED <<now, wd, pl, disk, held, trans, op, next, changed>>

\* dirstate.normal
Normal(f) ==
    /\ f \in todo
    /\ map' = [map EXCEPT ![f] = [size |-> Size[wd[f].data], mtime |-> wd[f].mtime]]
    /\ last' = IF wd[f].mtime > last THEN wd[f].mtime ELSE last
    /\ dirty' = TRUE
    /\ todo' = todo \ {f}
    /\ Marked(f, left)
    /\ UNCHANGED <<now, wd, pl, disk, held, trans, op, next, changed>>

\* markcommitted ends with setparents and write.
Finish ==
    /\ op = "mark" /\ todo = {}
    /\ pl' = next
    /\ WriteTr(map, next)
    /\ op' = "idle"
    /\ LeavePatched
    /\ UNCHANGED <<now, wd, held, tr, todo, next, changed>>

\* merge.update leaves the writing to whoever ends the lock.
EndUpdate ==
    /\ op = "update" /\ todo = {}
    /\ pl' = next /\ dirty' = TRUE
    /\ op' = "idle"
    /\ UNCHANGED <<now, wd, map, last, disk, held, trans, todo, next, changed, risk>>

\* So does workingctx.undelete.
Undelete(f) ==
    /\ op = "idle" /\ held
    /\ wd' = [wd EXCEPT ![f] = [data |-> pl[f], mtime |-> now]]
    /\ map' = [map EXCEPT ![f] = [size |-> Size[pl[f]], mtime |-> now]]
    /\ last' = now /\ dirty' = TRUE
    /\ Marked(f, left \ {f})
    /\ UNCHANGED <<now, pl, disk, held, trans, step>>

-----------------------------------------------------------------------------
(* Locks and transactions                                                  *)

Lock == /\ op = "idle" /\ ~held
        /\ held' = TRUE
        /\ UNCHANGED <<now, wd, memory, disk, trans, step, risk>>

\* localrepo.wlock's unlock
Unlock == /\ op = "idle" /\ held /\ ~tr
          /\ WriteNone(map, pl) /\ backup' = disk'
          /\ held' = FALSE
          /\ LeavePatched
          /\ UNCHANGED <<now, wd, pl, tr, gen, step>>

\* localrepo.transaction
Open == /\ ~tr
        /\ WriteNone(map, pl)
        /\ backup' = disk'
        /\ tr' = TRUE /\ gen' = FALSE
        /\ LeavePatched
        /\ UNCHANGED <<now, wd, pl, held>>

OpenTr == op = "idle" /\ held /\ Open /\ UNCHANGED step

\* A commit opens one, unless it is in one; the changeset is written, and
\* markcommitted begins.
OpenCommit ==
    /\ op = "open"
    /\ Open \/ (tr /\ UNCHANGED <<now, wd, memory, disk, held, trans, risk>>)
    /\ op' = "mark" /\ todo' = changed /\ changed' = {} /\ next' = next

\* The file generators of the transaction, and write(None) in releasefn
CloseTr == /\ op = "idle" /\ tr
           /\ IF gen THEN WriteOut(map, pl) ELSE WriteNone(map, pl)
           /\ tr' = FALSE /\ gen' = FALSE /\ backup' = disk'
           /\ LeavePatched
           /\ UNCHANGED <<now, wd, pl, held, step>>

\* releasefn of an aborted transaction: the copy replaces the file, and what
\* is in memory is forgotten.
AbortTr == /\ tr
           /\ disk' = backup
           /\ map' = backup.map /\ pl' = backup.pl /\ last' = 0 /\ dirty' = FALSE
           /\ tr' = FALSE /\ gen' = FALSE
           /\ op' = "idle" /\ todo' = {} /\ next' = backup.pl /\ changed' = {}
           /\ patched' = {}
           /\ UNCHANGED <<now, wd, held, backup, left>>

\* The process ends, or is killed, or an exception makes unlock invalidate
\* the dirstate (pendingparentchange); who comes next reads the file.
Restart == /\ map' = disk.map /\ pl' = disk.pl /\ last' = 0 /\ dirty' = FALSE
           /\ held' = FALSE /\ tr' = FALSE /\ gen' = FALSE /\ backup' = disk
           /\ op' = "idle" /\ todo' = {} /\ next' = disk.pl /\ changed' = {}
           /\ patched' = {}
           /\ UNCHANGED <<now, wd, disk, left>>

-----------------------------------------------------------------------------
(* The world                                                               *)

Tick == /\ now < MaxTime
        /\ now' = now + 1
        /\ UNCHANGED <<wd, memory, disk, held, trans, step, risk>>

Write(f, c) ==
    /\ wd' = [wd EXCEPT ![f] = [data |-> c, mtime |-> now]]
    /\ UNCHANGED <<now, memory, disk, held, trans>>

\* A command applies a patch (import, transplant, commit --interactive),
\* maybe to files that it has just marked.  It commits them next, or does not
\* (--no-commit; transplant closes its transaction when a patch has failed).
Patch(f, c) ==
    /\ op = "idle" /\ held
    /\ Write(f, c)
    /\ patched' = IF map[f].mtime = now THEN patched \cup {f} ELSE patched \ {f}
    /\ left' = left \ {f}
    /\ UNCHANGED step

UserEdit(f, c) ==
    /\ Meddling \/ (op = "idle" /\ ~held)
    /\ Write(f, c)
    /\ patched' = patched \ {f} /\ left' = left \ {f}
    /\ UNCHANGED step

Next ==
    \/ Fixup \/ Commit \/ EndFix \/ OpenCommit \/ Finish \/ EndUpdate
    \/ \E manifest \in Manifest : Checkout(manifest)
    \/ \E f \in File : Normal(f) \/ Undelete(f)
    \/ Lock \/ Unlock \/ OpenTr \/ CloseTr \/ AbortTr \/ Restart
    \/ Tick
    \/ \E f \in File, c \in Content : Patch(f, c) \/ UserEdit(f, c)

Spec == Init /\ [][Next]_vars

-----------------------------------------------------------------------------
(* Properties                                                              *)

\* A file that a process reading .hg/dirstate takes for clean without
\* looking into it is as in the parent (dirstate.status: "files that have
\* definitely not been modified since the dirstate was written").
CleanOnDisk ==
    \A f \in File : Clean(disk.map, 0, f) => wd[f].data = disk.pl[f]

\* However often files are written within one second, a changed file is taken
\* for clean only in one case (left): a command had marked it, patched it in
\* the same second, and then, in a later second, wrote the dirstate or marked
\* another file before it committed the patch; and only until the file is
\* written again.  This goes for who reads .hg/dirstate, for the command
\* itself, which therefore finds and commits what it has patched
\* (_lastnormaltime), and for who reads the dirstate that an abort puts back
\* (_writejournal).
NothingTakenForClean ==
    /\ \A f \in File \ left : Clean(disk.map, 0, f) => wd[f].data = disk.pl[f]
    /\ op = "idle" => \A f \in File \ left : Clean(map, last, f) => Equal(f)
    /\ tr => \A f \in File \ left :
                 Clean(backup.map, 0, f) => wd[f].data = backup.pl[f]

=============================================================================
