---------------------------- MODULE Transaction ----------------------------
(***************************************************************************)
(* Transactions on the store: mercurial/transaction.py with what           *)
(* localrepo.py, changelog.py, store.py and dirstate.py do around it.      *)
(*                                                                         *)
(* Before a log is appended to, its length goes to the file "journal";     *)
(* before a file is replaced, a copy is made and noted in                  *)
(* "journal.backupfiles".  An abort, or `hg recover' after a crash, plays  *)
(* both back.  At a commit the journal becomes "undo", which `hg rollback' *)
(* plays back likewise.  The process holds wlock and lock throughout, so   *)
(* there is one command at a time.  Every file operation is a step, and a  *)
(* process may die between any two.                                        *)
(*                                                                         *)
(* The contents of logs are the transactions that appended to them; the    *)
(* content of a file is the transaction that wrote it, or 0 while it is    *)
(* missing or empty; the content of the dirstate is its parent.            *)
(***************************************************************************)
EXTENDS Integers, Sequences, FiniteSets, SequencesExt

CONSTANTS Data,       \* the manifest and filelogs that each changeset is in
          Changelog,  \* 00changelog.i, whose appends are delayed
          Gen,        \* files with a generator and a copy: bookmarks, phaseroots
          Fncache,    \* written by a finalizer
          Dirstate,   \* outside the store; has a copy, may have a generator
          Tmp,        \* 00changelog.i.a
          NoFile,     \* there is no such file
          MayDie,     \* phases in which the process may be killed
          MayFail,    \* files that playback may fail to restore
          LateErrors, \* writing the undo files may fail
          Careless,   \* rollback is run in spite of an abandoned journal
          MaxTr,      \* bound: transactions
          MaxCount    \* bound: nested scopes

Log == Data \cup {Changelog}
Store == Gen \cup {Fncache}
File == Store \cup {Dirstate}
Copied == Gen \cup {Dirstate}    \* localrepo._journalfiles
Name == {"journal", "undo"}
Phase == {"idle", "begin", "opening", "transaction", "close", "undo", "after",
          "abort", "recover", "rollback"}

ASSUME KindAssumption ==
    /\ IsFiniteSet(Data) /\ IsFiniteSet(Gen)
    /\ Changelog \notin Data \cup File
    /\ Fncache \notin Gen /\ Dirstate \notin Store
    /\ Tmp \notin File \cup {Changelog}
    /\ NoFile \notin Nat \cup Seq(Nat) \cup Seq(Log \X Nat)
                      \cup Seq((File \cup {Tmp}) \X Nat)
ASSUME FaultAssumption ==
    /\ MayDie \subseteq Phase /\ MayFail \subseteq File \cup {Tmp}
    /\ LateErrors \in BOOLEAN /\ Careless \in BOOLEAN
ASSUME BoundAssumption == MaxTr \in Nat /\ MaxCount \in Nat \ {0}

VARIABLES log,      \* the logs
          file,     \* the other files
          jrn,      \* "journal" and "undo": pairs of a log and its length
          bak,      \* their ".backupfiles": a file and its content (a copy in
                    \* a ".backup." file, which is there before it is listed)
          copy,     \* journal.bookmarks, undo.dirstate, ...
          tmp,      \* 00changelog.i.a
          phase,    \* what the running command is doing
          step,     \* where in that
          tr,       \* the number of the last transaction
          scope,    \* count and usages of the transaction; a scope has failed
          entries,  \* transaction.entries, or what is left to play back
          backups,  \* transaction._backupentries, or what is left to restore
          todo,     \* what is left of the loop the command is in
          buf,      \* where changesets go: nowhere yet, delayed, diverted
          wrote,    \* the logs the transaction appended to
          gens,     \* the files it is going to replace
          parent,   \* the parent of the working directory, in memory
          before,   \* history: the store before the last commit
          exact,    \* history: undo is about the last commit, and complete
          torn,     \* history: what may be half rolled back, or "undo" when
                    \* undo.dirstate is not there
          failed,   \* history: what this playback could not restore
          lost      \* history: files of the store that undo is about and that
                    \* playbacks since then have not restored

disk == <<log, file, jrn, bak, copy, tmp>>
memory == <<scope, entries, backups, todo, buf, wrote, gens, parent>>
history == <<before, exact, torn, failed, lost>>
vars == <<disk, phase, step, tr, memory, history>>

Version == 0..MaxTr
Entry == Log \X Nat
Saved == (File \cup {Tmp}) \X Version

TypeOK ==
    /\ log \in [Log -> Seq(Version)]
    /\ file \in [File -> Version]
    /\ jrn \in [Name -> Seq(Entry) \cup {NoFile}]
    /\ bak \in [Name -> Seq(Saved) \cup {NoFile}]
    /\ copy \in [Name -> [Copied -> Version \cup {NoFile}]]
    /\ tmp \in Seq(Version) \cup {NoFile}
    /\ phase \in Phase
    /\ step \in {"", "journalled", "copied", "registered", "playback", "unlinked", "dropped"}
    /\ tr \in Version
    /\ scope \in [count : 0..MaxCount, usages : 0..MaxCount, failed : BOOLEAN]
    /\ entries \in Seq(Entry)
    /\ backups \in Seq(Saved)
    /\ todo \in Seq(File \cup {Changelog})
    /\ buf \in {"none", "delay", "divert"}
    /\ wrote \subseteq Log /\ gens \subseteq File
    /\ parent \in Version
    /\ before \in [log : [Log -> Seq(Version)], file : [Store -> Version]]
    /\ exact \in BOOLEAN /\ torn \subseteq {"store", "dirstate", "undo"}
    /\ failed \subseteq File /\ lost \subseteq Store

-----------------------------------------------------------------------------

NoScope == [count |-> 0, usages |-> 0, failed |-> FALSE]

Init == /\ log = [l \in Log |-> <<>>]
        /\ file = [f \in File |-> 0]
        /\ jrn = [n \in Name |-> NoFile] /\ bak = [n \in Name |-> NoFile]
        /\ copy = [n \in Name |-> [f \in Copied |-> NoFile]]
        /\ tmp = NoFile
        /\ phase = "idle" /\ step = "" /\ tr = 0
        /\ scope = NoScope
        /\ entries = <<>> /\ backups = <<>> /\ todo = <<>>
        /\ buf = "none" /\ wrote = {} /\ gens = {} /\ parent = 0
        /\ before = [log |-> log, file |-> [f \in Store |-> 0]]
        /\ exact = FALSE /\ torn = {} /\ failed = {} /\ lost = {}

-----------------------------------------------------------------------------
(* localrepo.transaction and transaction.__init__                          *)

\* Mutant: the dirstate is not copied.
Begin_NoDirstate ==
    /\ phase = "idle" /\ jrn["journal"] = NoFile
    /\ tr < MaxTr
    /\ tr' = tr + 1
    /\ phase' = "begin"
    /\ copy' = [copy EXCEPT !["journal"] = [f \in Copied |-> IF f = Dirstate THEN NoFile ELSE file[f]]]
    /\ exact' = (exact /\ torn = {})
    /\ UNCHANGED <<log, file, jrn, bak, tmp, step, memory, before, torn, failed, lost>>

\* The outermost scope; "abandoned transaction found" when there is a
\* journal.  _writejournal makes the copies, which nobody looks at unless the
\* transaction ends, so they are made in one step.
Begin ==
    /\ phase = "idle" /\ jrn["journal"] = NoFile
    /\ tr < MaxTr
    /\ tr' = tr + 1
    /\ phase' = "begin"
    /\ copy' = [copy EXCEPT !["journal"] = [f \in Copied |-> file[f]]]
    /\ exact' = (exact /\ torn = {})
    /\ UNCHANGED <<log, file, jrn, bak, tmp, step, memory, before, torn, failed, lost>>

OpenJournal ==
    /\ phase = "begin"
    /\ jrn' = [jrn EXCEPT !["journal"] = <<>>]
    /\ phase' = "opening"
    /\ UNCHANGED <<log, file, bak, copy, tmp, step, tr, memory, history>>

OpenBackups ==
    /\ phase = "opening"
    /\ bak' = [bak EXCEPT !["journal"] = <<>>]
    /\ phase' = "transaction"
    /\ scope' = [count |-> 1, usages |-> 1, failed |-> FALSE]
    /\ UNCHANGED <<log, file, jrn, copy, tmp, step, tr, entries, backups,
                   todo, buf, wrote, gens, parent, history>>

-----------------------------------------------------------------------------
(* Inside a transaction                                                    *)

Open == phase = "transaction" /\ step = ""
Journalled(l) == \E i \in DOMAIN entries : entries[i][1] = l

\* transaction.add: the length of a log goes to the journal ...
Add(l) ==
    /\ Open
    /\ ~Journalled(l)
    /\ entries' = Append(entries, <<l, Len(log[l])>>)
    /\ jrn' = [jrn EXCEPT !["journal"] = Append(@, <<l, Len(log[l])>>)]
    /\ step' = "journalled"
    /\ UNCHANGED <<log, file, bak, copy, tmp, phase, tr, scope,
                   backups, todo, buf, wrote, gens, parent, history>>

\* ... before revlog._writeentry appends to it.
WriteData(l) ==
    /\ step = "journalled"
    /\ l \in Data \ wrote
    /\ Journalled(l)
    /\ step' = ""
    /\ log' = [log EXCEPT ![l] = Append(@, tr)]
    /\ wrote' = wrote \cup {l}
    /\ UNCHANGED <<file, jrn, bak, copy, tmp, phase, tr, scope,
                   entries, backups, todo, buf, gens, parent, history>>

\* Mutant: the changeset is appended at once.
WriteChangeset_NotDelayed ==
    /\ step = "journalled"
    /\ Changelog \notin wrote
    /\ Journalled(Changelog)
    /\ step' = ""
    /\ wrote' = wrote \cup {Changelog}
    /\ log' = [log EXCEPT ![Changelog] = Append(@, tr)]
    /\ UNCHANGED <<buf, tmp, file, jrn, bak, copy, phase, tr, scope,
                   entries, backups, todo, gens, parent, history>>

\* A changeset is kept in memory or, if there is none yet, goes to another
\* file (changelog.delayupdate).
WriteChangeset ==
    /\ step = "journalled"
    /\ Changelog \notin wrote
    /\ Journalled(Changelog)
    /\ step' = ""
    /\ wrote' = wrote \cup {Changelog}
    /\ IF log[Changelog] = <<>>
       THEN buf' = "divert" /\ tmp' = <<tr>>
       ELSE buf' = "delay" /\ tmp' = tmp
    /\ UNCHANGED <<log, file, jrn, bak, copy, phase, tr, scope,
                   entries, backups, todo, gens, parent, history>>

\* changelog._writepending: hooks see a copy of the changelog with the new
\* changesets (transaction.writepending, registertmp).
WritePending ==
    /\ Open
    /\ buf = "delay"
    /\ buf' = "divert"
    /\ tmp' = Append(log[Changelog], tr)
    /\ backups' = Append(backups, <<Tmp, 0>>)
    /\ bak' = [bak EXCEPT !["journal"] = Append(@, <<Tmp, 0>>)]
    /\ UNCHANGED <<log, file, jrn, copy, phase, step, tr, scope, entries,
                   todo, wrote, gens, parent, history>>

\* addfilegenerator, which dirstate.write calls if the dirstate is dirty;
\* for the fncache, store.write has something to write.
AddGenerator(f) ==
    /\ Open
    /\ f \notin gens
    /\ f = Dirstate => parent # file[Dirstate]
    /\ gens' = gens \cup {f}
    /\ UNCHANGED <<disk, phase, step, tr, scope, entries, backups, todo, buf,
                   wrote, parent, history>>

\* dirstate.setparents: the working directory is based on the new changeset
SetParent ==
    /\ Open
    /\ Changelog \in wrote
    /\ parent' = tr
    /\ UNCHANGED <<disk, phase, step, tr, scope, entries, backups, todo, buf,
                   wrote, gens, history>>

Nest ==
    /\ Open
    /\ scope.count < MaxCount
    /\ scope' = [scope EXCEPT !.count = @ + 1, !.usages = @ + 1]
    /\ UNCHANGED <<disk, phase, step, tr, entries, backups, todo, buf, wrote,
                   gens, parent, history>>

\* An inner scope is closed and released ...
CloseInner ==
    /\ Open /\ scope.usages > 1
    /\ scope' = [scope EXCEPT !.count = @ - 1, !.usages = @ - 1]
    /\ UNCHANGED <<disk, phase, step, tr, entries, backups, todo, buf, wrote,
                   gens, parent, history>>

\* ... or only released, its caller going on in spite of that.
ReleaseInner ==
    /\ Open /\ scope.usages > 1
    /\ scope' = [scope EXCEPT !.usages = @ - 1, !.failed = TRUE]
    /\ UNCHANGED <<disk, phase, step, tr, entries, backups, todo, buf, wrote,
                   gens, parent, history>>

-----------------------------------------------------------------------------
(* transaction.close                                                       *)

\* Mutant: only the usages count.
Close_IgnoreNested ==
    /\ Open /\ scope.usages = 1
    /\ Changelog \in wrote => Data \subseteq wrote
    /\ phase' = "close"
    /\ todo' = SetToSeq(gens \ {Fncache}) \o <<Changelog>>
                   \o SetToSeq(gens \cap {Fncache})
    /\ UNCHANGED <<disk, step, tr, scope, entries, backups, buf, wrote, gens,
                   parent, history>>

\* The outermost scope is closed, and the data of a changeset is there, as
\* commitctx and addchangegroup see to; files, changelog and fncache are to
\* be written.
Close ==
    /\ Open /\ scope.usages = 1 /\ scope.count = 1
    /\ Changelog \in wrote => Data \subseteq wrote
    /\ phase' = "close"
    /\ todo' = SetToSeq(gens \ {Fncache}) \o <<Changelog>>
                   \o SetToSeq(gens \cap {Fncache})
    /\ UNCHANGED <<disk, step, tr, scope, entries, backups, buf, wrote, gens,
                   parent, history>>

\* addbackup, for one file of _generatefiles or for the fncache: copy it
\* and note that in the journal,
AddBackup ==
    /\ phase = "close" /\ step = ""
    /\ todo # <<>> /\ Head(todo) # Changelog
    /\ LET entry == <<Head(todo), file[Head(todo)]>> IN
       /\ backups' = Append(backups, entry)
       /\ bak' = [bak EXCEPT !["journal"] = Append(@, entry)]
    /\ step' = "registered"
    /\ UNCHANGED <<log, file, jrn, copy, tmp, phase, tr, scope, entries, todo,
                   buf, wrote, gens, parent, history>>

\* and replace it.
Generate ==
    /\ phase = "close" /\ step = "registered"
    /\ file' = [file EXCEPT ![Head(todo)] =
                    IF Head(todo) = Dirstate THEN parent ELSE tr]
    /\ todo' = Tail(todo)
    /\ step' = ""
    /\ UNCHANGED <<log, jrn, bak, copy, tmp, phase, tr, scope, entries,
                   backups, buf, wrote, gens, parent, history>>

\* changelog._finalize: the new changesets become visible.
Finalize ==
    /\ phase = "close" /\ step = ""
    /\ todo # <<>> /\ Head(todo) = Changelog
    /\ log' = [log EXCEPT ![Changelog] = CASE buf = "none" -> @
                                           [] buf = "delay" -> Append(@, tr)
                                           [] buf = "divert" -> tmp]
    /\ tmp' = IF buf = "divert" THEN NoFile ELSE tmp
    /\ buf' = "none"
    /\ todo' = Tail(todo)
    /\ UNCHANGED <<file, jrn, bak, copy, phase, step, tr, scope, entries,
                   backups, wrote, gens, parent, history>>

\* Temporary files go, and so do the entries in memory.
CleanUp ==
    /\ phase = "close" /\ step = "" /\ todo = <<>>
    /\ scope' = [scope EXCEPT !.count = 0]
    /\ tmp' = IF <<Tmp, 0>> \in Range(backups) THEN NoFile ELSE tmp
    /\ entries' = <<>>
    /\ phase' = "undo"
    /\ UNCHANGED <<log, file, jrn, bak, copy, step, tr, backups, todo,
                   buf, wrote, gens, parent, history>>

\* _writeundo: undo.backupfiles is empty on the disk until it is closed.
OpenUndo ==
    /\ phase = "undo" /\ step = ""
    /\ bak' = [bak EXCEPT !["undo"] = <<>>]
    /\ exact' = FALSE /\ lost' = {}
    /\ step' = "copied"
    /\ UNCHANGED <<log, file, jrn, copy, tmp, phase, tr, memory, before, torn, failed>>

\* The backups that undo is about: all but temporary files.
Lasting(s) ==
    LET upto[i \in 0..Len(s)] ==
            IF i = 0 THEN <<>>
            ELSE IF s[i][1] = Tmp THEN upto[i - 1] ELSE Append(upto[i - 1], s[i])
    IN  upto[Len(s)]

\* Mutant: undo.backupfiles stays empty.
CloseUndo_NoBackups ==
    /\ phase = "undo" /\ step = "copied"
    /\ bak' = [bak EXCEPT !["undo"] = <<>>]
    /\ phase' = "after" /\ step' = ""
    /\ UNCHANGED <<log, file, jrn, copy, tmp, tr, memory, history>>

CloseUndo ==
    /\ phase = "undo" /\ step = "copied"
    /\ bak' = [bak EXCEPT !["undo"] = Lasting(backups)]
    /\ phase' = "after" /\ step' = ""
    /\ UNCHANGED <<log, file, jrn, copy, tmp, tr, memory, history>>

Cut(s, n) == [i \in 1..n |-> IF i <= Len(s) THEN s[i] ELSE 0]

\* The store as `hg recover' would leave it.  While the two files of the
\* journal are being created there is nothing to recover yet.
Recoverable == jrn["journal"] # NoFile /\ phase # "opening"
Entries(n, x) == {e \in Range(n) : e[1] = x}
RecoveredLogs ==
    [l \in Log |-> IF Recoverable /\ Entries(jrn["journal"], l) # {}
                   THEN Cut(log[l], (CHOOSE e \in Entries(jrn["journal"], l) : TRUE)[2])
                   ELSE log[l]]
RecoveredFiles ==
    [f \in Store |->
        IF Recoverable /\ bak["journal"] # NoFile /\ Entries(bak["journal"], f) # {}
        THEN (CHOOSE e \in Entries(bak["journal"], f) : TRUE)[2]
        ELSE file[f]]

\* aftertrans: the journal becomes undo, which is the commit,
RenameJournal ==
    /\ phase = "after" /\ step = ""
    /\ before' = [log |-> RecoveredLogs, file |-> RecoveredFiles]
    /\ jrn' = [n \in Name |-> IF n = "undo" THEN jrn["journal"] ELSE NoFile]
    /\ todo' = <<Dirstate>> \o SetToSeq(Gen)
    /\ step' = "copied"
    /\ UNCHANGED <<log, file, bak, copy, tmp, phase, tr, scope, entries,
                   backups, buf, wrote, gens, parent, exact, torn,
                   failed, lost>>

\* and so do the copies.
RenameCopy ==
    /\ phase = "after" /\ step = "copied" /\ todo # <<>>
    /\ copy' = [n \in Name |-> [copy[n] EXCEPT ![Head(todo)] =
                   IF n = "undo" THEN copy["journal"][Head(todo)] ELSE NoFile]]
    /\ todo' = Tail(todo)
    /\ torn' = IF Head(todo) = Dirstate THEN torn \ {"undo"} ELSE torn
    /\ exact' = (todo' = <<>> /\ torn' = {})
    /\ UNCHANGED <<log, file, jrn, bak, tmp, phase, step, tr, scope,
                   entries, backups, buf, wrote, gens, parent, before, failed, lost>>

\* What is over with the transaction, and with the command
EndScopes == scope' = NoScope /\ todo' = <<>> /\ buf' = "none" /\ wrote' = {} /\ gens' = {}
Forget == EndScopes /\ phase' = "idle" /\ step' = "" /\ entries' = <<>> /\ backups' = <<>>

DropBackups ==
    /\ phase = "after" /\ step = "copied" /\ todo = <<>>
    /\ bak' = [bak EXCEPT !["journal"] = NoFile]
    /\ step' = "dropped"
    /\ UNCHANGED <<log, file, jrn, copy, tmp, phase, tr, memory, history>>

\* releasefn: the dirstate is written, too.
Release ==
    /\ phase = "after" /\ step = "dropped"
    /\ file' = [file EXCEPT ![Dirstate] = parent]
    /\ Forget
    /\ UNCHANGED <<log, jrn, bak, copy, tmp, tr, parent, history>>

-----------------------------------------------------------------------------
(* Going back: transaction._abort, localrepo.recover, localrepo.rollback   *)

\* An exception, or the outermost scope released without a close.  After
\* CleanUp the transaction still aborts (__del__), but has no entries.
Abort ==
    /\ \/ phase \in {"transaction", "close"}
       \/ phase = "undo" /\ LateErrors
    /\ phase' = "abort" /\ step' = "playback"
    /\ EndScopes
    /\ UNCHANGED <<disk, tr, entries, backups, parent, history>>

\* The outermost scope is closed, but an inner one was not: its release
\* finds that the count is not 0 yet.
CloseIncomplete ==
    /\ Open /\ scope.usages = 1 /\ scope.count > 1
    /\ phase' = "abort" /\ step' = "playback"
    /\ EndScopes
    /\ UNCHANGED <<disk, tr, entries, backups, parent, history>>

\* transaction.rollback reads what there is to play back.
ReadJournal(n) ==
    /\ entries' = jrn[n]
    /\ backups' = IF bak[n] = NoFile THEN <<>> ELSE bak[n]
    /\ step' = "playback"

Recover ==
    /\ phase = "idle" /\ jrn["journal"] # NoFile
    /\ phase' = "recover"
    /\ ReadJournal("journal")
    /\ UNCHANGED <<disk, tr, scope, todo, buf, wrote, gens, parent, history>>

Rollback ==
    /\ phase = "idle" /\ jrn["undo"] # NoFile
    /\ Careless \/ jrn["journal"] = NoFile
    /\ phase' = "rollback"
    /\ ReadJournal("undo")
    /\ UNCHANGED <<disk, tr, scope, todo, buf, wrote, gens, parent, history>>

\* The names of the files _playback is about
Playing == IF phase = "rollback" THEN "undo" ELSE "journal"

Truncate ==
    /\ step = "playback" /\ entries # <<>>
    /\ log' = [log EXCEPT ![Head(entries)[1]] = Cut(@, Head(entries)[2])]
    /\ entries' = Tail(entries)
    /\ UNCHANGED <<file, jrn, bak, copy, tmp, phase, step, tr, scope,
                   backups, todo, buf, wrote, gens, parent, history>>

Restore ==
    /\ step = "playback" /\ entries = <<>> /\ backups # <<>>
    /\ IF Head(backups)[1] = Tmp
       THEN tmp' = NoFile /\ file' = file
       ELSE /\ file' = [file EXCEPT ![Head(backups)[1]] = Head(backups)[2]]
            /\ tmp' = tmp
    /\ backups' = Tail(backups)
    /\ UNCHANGED <<log, jrn, bak, copy, phase, step, tr, scope, entries,
                   todo, buf, wrote, gens, parent, history>>

\* An error meanwhile is not always one for the playback, which then goes on
\* and removes the journal: an IOError while a copy is put back is only
\* reported, and leaves nothing of the file; any other error is ignored, and
\* leaves the file alone, if what is to be restored was read from the disk,
\* as bool(c) of "0" is true.
RestoreFails ==
    /\ step = "playback" /\ entries = <<>> /\ backups # <<>>
    /\ LET f == Head(backups)[1] IN
       /\ f \in MayFail
       /\ \/ Head(backups)[2] # 0 /\ file' = [file EXCEPT ![f] = 0]
          \/ phase # "abort" /\ file' = file
       /\ failed' = failed \cup ({f} \cap File)
    /\ backups' = Tail(backups)
    /\ UNCHANGED <<log, jrn, bak, copy, tmp, phase, step, tr, scope, entries,
                   todo, buf, wrote, gens, parent, before, exact, torn, lost>>

\* What has not been restored is lost, as are the notes about it.
Lose == /\ lost' = IF exact THEN lost \cup (failed \cap Store) ELSE lost
        /\ torn' = IF phase = "recover" /\ Dirstate \in failed
                   THEN torn \cup {"dirstate"} ELSE torn

\* Mutant: before the files have been restored.
UnlinkBackups_TooEarly ==
    /\ step = "playback" /\ entries = <<>>
    /\ bak' = [bak EXCEPT ![Playing] = NoFile]
    /\ step' = "unlinked"
    /\ Lose
    /\ UNCHANGED <<log, file, jrn, copy, tmp, phase, tr, memory, before, exact, failed>>

UnlinkBackups ==
    /\ step = "playback" /\ entries = <<>> /\ backups = <<>>
    /\ bak' = [bak EXCEPT ![Playing] = NoFile]
    /\ step' = "unlinked"
    /\ Lose
    /\ UNCHANGED <<log, file, jrn, copy, tmp, phase, tr, memory, before, exact, failed>>

UnlinkJournal ==
    /\ step = "unlinked"
    /\ jrn' = [jrn EXCEPT ![Playing] = NoFile]
    /\ step' = "dropped"
    /\ todo' = IF phase = "rollback" THEN SetToSeq(Gen) ELSE <<>>
    /\ UNCHANGED <<log, file, bak, copy, tmp, phase, tr, scope, entries,
                   backups, buf, wrote, gens, parent, history>>

\* "rollback failed - please run hg recover"
AbortFails ==
    /\ phase = "abort" /\ step \in {"playback", "unlinked"}
    /\ step' = "dropped"
    /\ UNCHANGED <<disk, phase, tr, memory, history>>

\* releasefn puts the dirstate back, whether or not the journal is gone.
EndAbort ==
    /\ phase = "abort" /\ step = "dropped"
    /\ file' = [file EXCEPT ![Dirstate] = copy["journal"][Dirstate]]
    /\ parent' = copy["journal"][Dirstate]
    /\ copy' = [copy EXCEPT !["journal"][Dirstate] = NoFile]
    /\ failed' = {}
    /\ Forget
    /\ UNCHANGED <<log, jrn, bak, tmp, tr, before, exact, torn, lost>>

EndRecover ==
    /\ phase = "recover" /\ step = "dropped"
    /\ parent' = file[Dirstate]
    /\ failed' = {}
    /\ Forget
    /\ UNCHANGED <<disk, tr, before, exact, torn, lost>>

\* localrepo._rollback goes on with undo.bookmarks and undo.phaseroots,
RestoreCopy ==
    /\ phase = "rollback" /\ step = "dropped" /\ todo # <<>>
    /\ LET f == Head(todo) IN
       IF copy["undo"][f] = NoFile
       THEN UNCHANGED <<file, copy, lost>>
       ELSE /\ file' = [file EXCEPT ![f] = copy["undo"][f]]
            /\ copy' = [copy EXCEPT !["undo"][f] = NoFile]
            /\ lost' = lost \ {f}
    /\ todo' = Tail(todo)
    /\ UNCHANGED <<log, jrn, bak, tmp, phase, step, tr, scope, entries,
                   backups, buf, wrote, gens, parent, before, exact, torn, failed>>

Known == {0} \cup Range(log[Changelog])

\* Mutant: the dirstate is never put back.
EndRollback_KeepDirstate ==
    /\ phase = "rollback" /\ step = "dropped" /\ todo = <<>>
    /\ LET gone == FALSE
           there == copy["undo"][Dirstate] # NoFile
           new == IF gone /\ there THEN copy["undo"][Dirstate] ELSE parent IN
       /\ file' = [file EXCEPT ![Dirstate] = new]
       /\ parent' = new
       /\ copy' = IF gone THEN [copy EXCEPT !["undo"][Dirstate] = NoFile] ELSE copy
    /\ torn' = IF exact THEN {}
               ELSE IF "undo" \in torn THEN torn \cup {"dirstate"} ELSE torn
    /\ exact' = FALSE /\ failed' = {} /\ lost' = {}
    /\ Forget
    /\ UNCHANGED <<log, jrn, bak, tmp, tr, before>>

\* then the dirstate, if its parent is gone; else the dirstateguard restores
\* the dirstate the command began with.
EndRollback ==
    /\ phase = "rollback" /\ step = "dropped" /\ todo = <<>>
    /\ LET gone == parent \notin Known
           there == copy["undo"][Dirstate] # NoFile
           new == IF gone /\ there THEN copy["undo"][Dirstate] ELSE parent IN
       /\ file' = [file EXCEPT ![Dirstate] = new]
       /\ parent' = new
       /\ copy' = IF gone THEN [copy EXCEPT !["undo"][Dirstate] = NoFile] ELSE copy
    /\ torn' = IF exact THEN {}
               ELSE IF "undo" \in torn THEN torn \cup {"dirstate"} ELSE torn
    /\ exact' = FALSE /\ failed' = {} /\ lost' = {}
    /\ Forget
    /\ UNCHANGED <<log, jrn, bak, tmp, tr, before>>

\* `hg update' to some changeset it finds in the changelog
Update ==
    /\ phase = "idle"
    /\ Careless \/ jrn["journal"] = NoFile
    /\ parent' \in Known
    /\ file' = [file EXCEPT ![Dirstate] = parent']
    /\ UNCHANGED <<log, jrn, bak, copy, tmp, phase, step, tr, scope,
                   entries, backups, todo, buf, wrote, gens, history>>

\* The journal is renamed already, journal.dirstate is not.
DirstateDue == phase = "after" /\ step = "copied" /\ Dirstate \in Range(todo)

\* The process is killed; the next one reads the dirstate.
Die ==
    /\ phase \in MayDie \ {"idle"}
    /\ torn' = CASE phase = "rollback" -> torn \cup {"store", "dirstate"}
                 [] DirstateDue -> torn \cup {"undo"}
                 [] OTHER -> torn
    /\ failed' = {}
    /\ parent' = file[Dirstate]
    /\ Forget
    /\ UNCHANGED <<disk, tr, before, exact, lost>>

Next == \/ Begin \/ OpenJournal \/ OpenBackups
        \/ \E l \in Log : Add(l) \/ WriteData(l)
        \/ WriteChangeset \/ WritePending \/ SetParent
        \/ \E f \in File : AddGenerator(f)
        \/ Nest \/ CloseInner \/ ReleaseInner
        \/ Close \/ AddBackup \/ Generate \/ Finalize \/ CleanUp
        \/ OpenUndo \/ CloseUndo
        \/ RenameJournal \/ RenameCopy \/ DropBackups \/ Release
        \/ Abort \/ CloseIncomplete \/ Recover \/ Rollback
        \/ Truncate \/ Restore \/ RestoreFails \/ UnlinkBackups \/ UnlinkJournal
        \/ AbortFails \/ EndAbort \/ EndRecover \/ RestoreCopy \/ EndRollback
        \/ Update \/ Die

Spec == Init /\ [][Next]_vars

-----------------------------------------------------------------------------
(* Properties                                                              *)

\* Readers take no lock: whenever no playback is going on or due, each
\* changeset of 00changelog.i has its data in the other logs, also in the
\* midst of a transaction (changelog.delayupdate, _finalize).
VisibleComplete ==
    \/ "store" \in torn
    \/ phase \in {"abort", "recover", "rollback"}
    \/ phase = "idle" /\ jrn["journal"] # NoFile
    \/ \A t \in Range(log[Changelog]) :
          t > 0 /\ \A d \in Data : t \in Range(log[d])

\* No transaction is committed one of whose nested scopes was left without
\* having been closed (transaction.nest, close, release).
NestedWhole == phase \in {"close", "undo", "after"} => ~scope.failed

\* After commands, aborts, crashes and recoveries the working directory is
\* based on a changeset that exists, although the dirstate is no part of the
\* store (releasefn, _rollback, recover).  Nothing is said after one of three
\* mishaps, until an exact rollback has ended: a rollback was killed; one went
\* back over a commit that was killed between renaming the journal and
\* journal.dirstate, so that there may be no undo.dirstate; recover could not
\* restore the dirstate, and went on.
DirstateKnown ==
    /\ phase = "idle" /\ jrn["journal"] = NoFile /\ "dirstate" \notin torn
    => file[Dirstate] \in Known

\* `hg rollback' brings back the logs, bookmarks, phases and fncache from
\* before the last commit, whatever was begun, aborted, killed and recovered
\* since then, and also when it was itself killed and run again at once.  That
\* is for as long as undo is complete and about that commit (exact): not if
\* the commit, or one tried later, was stopped after it had opened
\* undo.backupfiles and before the last copy was renamed, nor if it was made
\* upon a rollback that had been killed.  And nothing is said of files that
\* could not be restored, now or since the commit, and went unnoticed (lost);
\* bookmarks and phases have another copy.
RollbackExact ==
    [][phase = "rollback" /\ step = "dropped" /\ exact /\ ~exact'
         => /\ log' = before.log
            /\ \A f \in Store \ lost : file'[f] = before.file[f]]_vars

\* The store, as `hg recover' would leave it, changes in one step and by all
\* that a transaction wrote, or not at all; but a file that an abort or a
\* recovery could not restore is lost when these go on in spite of that.
InProgress == \/ phase \in {"transaction", "close", "undo"}
              \/ phase = "after" /\ step = ""
Update1 == INSTANCE AtomicUpdate WITH
    Log <- Log, File <- Store,
    logs <- RecoveredLogs,
    files <- RecoveredFiles,
    work <- IF InProgress
            THEN [id |-> tr, logs |-> wrote, files |-> gens \cap Store]
            ELSE [id |-> 0, logs |-> {}, files |-> {}],
    undoing <- phase = "rollback",
    faulty <- IF phase = "rollback" THEN {} ELSE failed \cap Store
Atomic == Update1!Spec

=============================================================================
